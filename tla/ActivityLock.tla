---------------------------- MODULE ActivityLock ----------------------------
(***************************************************************************)
(* What Core::Suspend and Core::Resume promise to a tool (a console        *)
(* command, a hotkey command): the "activity lock" of Core.h.  The game    *)
(* runs until it yields; while it has yielded, at most one tool at a time  *)
(* owns it; the game takes itself back only when nobody owns it.           *)
(*                                                                         *)
(* Nothing here says how tools queue or who wakes whom: that is            *)
(* CoreSuspend, which implements this module.                              *)
(***************************************************************************)
CONSTANT Tools          \* the threads that may suspend the game

VARIABLES
    phase,              \* phase[t]: "idle", "waiting" or "holding"
    game,               \* "running" or "yielded"
    closed              \* TRUE once the game has been told to quit

vars == <<phase, game, closed>>

TypeOK ==
    /\ phase \in [Tools -> {"idle", "waiting", "holding"}]
    /\ game \in {"running", "yielded"}
    /\ closed \in BOOLEAN

Init ==
    /\ phase = [t \in Tools |-> "idle"]
    /\ game = "running"
    /\ closed = FALSE

Owners == {t \in Tools : phase[t] = "holding"}

Request(t) ==
    /\ phase[t] = "idle"
    /\ phase' = [phase EXCEPT ![t] = "waiting"]
    /\ UNCHANGED <<game, closed>>

Grant(t) ==
    /\ phase[t] = "waiting"
    /\ game = "yielded"
    /\ Owners = {}
    /\ phase' = [phase EXCEPT ![t] = "holding"]
    /\ UNCHANGED <<game, closed>>

Release(t) ==
    /\ phase[t] = "holding"
    /\ phase' = [phase EXCEPT ![t] = "idle"]
    /\ UNCHANGED <<game, closed>>

Yield ==
    /\ game = "running"
    /\ game' = "yielded"
    /\ UNCHANGED <<phase, closed>>

Regain ==
    /\ game = "yielded"
    /\ Owners = {}
    /\ game' = "running"
    /\ UNCHANGED <<phase, closed>>

Close ==
    /\ ~closed
    /\ closed' = TRUE
    /\ UNCHANGED <<phase, game>>

Next ==
    \/ \E t \in Tools : Request(t) \/ Grant(t) \/ Release(t)
    \/ Yield \/ Regain \/ Close

Safe == Init /\ [][Next]_vars

\* A game that has been told to quit need not yield any more, but it may.
Fairness ==
    /\ WF_vars(~closed /\ Yield) /\ WF_vars(Regain)
    /\ \A t \in Tools : SF_vars(Grant(t)) /\ WF_vars(Release(t))

Spec == Safe /\ Fairness
=============================================================================
