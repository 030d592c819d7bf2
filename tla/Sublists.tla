------------------------------ MODULE Sublists ------------------------------
(***************************************************************************)
(* Parts of sequences, by position: what erasing elements of a vector in a *)
(* loop leaves, and in which order a walk over a sorted vector meets them. *)
(***************************************************************************)
EXTENDS Integers, Sequences, FiniteSets

\* The numbers of S in ascending order: the k-th has k of S up to it.
Ascending(S) ==
    [k \in 1..Cardinality(S) |->
       CHOOSE n \in S : Cardinality({m \in S : m <= n}) = k]

\* The elements of s at the places of S, in the same order.
Sublist(s, S) ==
    LET at == Ascending(S) IN [k \in DOMAIN at |-> s[at[k]]]

\* s without what is in S, and nothing else of s.
Drop(s, S) == Sublist(s, {k \in DOMAIN s : s[k] \notin S})
Keep(s, S) == Sublist(s, {k \in DOMAIN s : s[k] \in S})
=============================================================================
