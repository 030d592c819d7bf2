------------------------------ MODULE TileMap ------------------------------
(***************************************************************************)
(* What a MapCache (modules/MapCache.h) promises to the tool that edits    *)
(* the map through it: the tool sees its own changes at once, the game's   *)
(* map has all of them after WriteAll and none of them before, and a cache *)
(* that is trashed shows the game's map again.                             *)
(*                                                                         *)
(* Nothing here says what is read when, or which parts are written back:   *)
(* that is MapCache, which implements this module.                         *)
(***************************************************************************)
CONSTANTS
    Tiles,          \* coordinates
    Values          \* what a tile can be

VARIABLES
    map,            \* the game's map
    view            \* the map as the tool sees it

Init ==
    /\ map \in [Tiles -> Values]
    /\ view = map

Set(t, v) ==
    /\ view' = [view EXCEPT ![t] = v]
    /\ UNCHANGED map

Commit ==
    /\ map' = view
    /\ UNCHANGED view

Forget ==
    /\ view' = map
    /\ UNCHANGED map

\* The tool changes the game's map itself and drops what it had cached.
Overwrite(m) ==
    /\ map' = m
    /\ view' = m

Next ==
    \/ \E t \in Tiles : view'[t] \in Values /\ Set(t, view'[t])
    \/ Commit \/ Forget
    \/ (map' \in [Tiles -> Values] /\ Overwrite(map'))

Spec == Init /\ [][Next]_<<map, view>>
=============================================================================
