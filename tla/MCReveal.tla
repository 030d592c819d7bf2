------------------------------ MODULE MCReveal ------------------------------
(***************************************************************************)
(* Two threads, a block of earth and a block of hell, either of which a    *)
(* map may lack, two worlds and two sizes.                                 *)
(***************************************************************************)
EXTENDS Reveal, TLC

CONSTANTS io, hk, w1, w2

MCThreads == {io, hk}

MCWorlds == {w1, w2}

Symmetry == Permutations(Threads) \cup Permutations(Worlds)
=============================================================================
