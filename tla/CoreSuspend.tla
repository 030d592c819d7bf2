---------------------------- MODULE CoreSuspend -----------------------------
(***************************************************************************)
(* Core::Suspend, Core::Resume and the end of Core::Update (Core.cpp): how *)
(* tools stop the game.  A tool pushes a condition of its own on a stack   *)
(* and waits on it; the simulation thread, at the end of every tick, pops  *)
(* the conditions one by one, signals each, and waits on core_cond until   *)
(* that tool resumes the game; then it deletes the condition.              *)
(*                                                                         *)
(* One action is one critical section of AccessMutex or of StackMutex, or  *)
(* a step outside both.  AccessMutex is never held across an action (a     *)
(* wait on a condition variable releases it and StackMutex is never taken  *)
(* under it), so it needs no variable.  StackMutex does: Update keeps it   *)
(* for its whole loop.  pthread condition variables may wake a waiter      *)
(* spuriously, and a notified waiter competes for the mutex again.         *)
(***************************************************************************)
EXTENDS Naturals, Sequences, SequencesExt

CONSTANTS
    Tools,      \* threads that call Suspend: the console and the hotkey thread
    Conds,      \* addresses a Core::Cond can be allocated at
    None        \* no condition

ASSUME NoneAssumption == None \notin Conds

VARIABLES
    pc,                 \* pc[t]: where tool t is in Suspend/Resume
    cond,               \* cond[t]: the local nc of Suspend
    sim,                \* where the simulation thread is in Update
    nc,                 \* the local nc of Update
    StackMutex,         \* TRUE while Update holds StackMutex
    suspended_tools,    \* the stack; its top is the last element
    predicate,          \* predicate[c] of every Cond but core_cond
    core_cond,          \* the predicate of core_cond
    live,               \* the Conds that are allocated
    errorstate          \* set by Shutdown

toolVars == <<pc, cond>>
simVars == <<sim, nc, StackMutex>>
vars == <<pc, cond, sim, nc, StackMutex, suspended_tools, predicate,
          core_cond, live, errorstate>>

\* "run": not suspending; "push": wants StackMutex; "lock": wants AccessMutex
\* to test its predicate; "wait": in wakeup->wait; "held": Suspend returned.
ToolStates == {"run", "push", "lock", "wait", "held"}

\* "game": outside Update; "hooks": before its loop; "loop": at the head of it;
\* "park": in core_cond's wakeup->wait; "woken": out of it, wants AccessMutex;
\* "delete": before delete nc.
SimStates == {"game", "hooks", "loop", "park", "woken", "delete"}

TypeOK ==
    /\ pc \in [Tools -> ToolStates]
    /\ cond \in [Tools -> Conds \cup {None}]
    /\ sim \in SimStates
    /\ nc \in Conds \cup {None}
    /\ StackMutex \in BOOLEAN
    /\ suspended_tools \in Seq(Conds)
    /\ predicate \in [Conds -> BOOLEAN]
    /\ core_cond \in BOOLEAN
    /\ live \subseteq Conds
    /\ errorstate \in BOOLEAN

Init ==
    /\ pc = [t \in Tools |-> "run"]
    /\ cond = [t \in Tools |-> None]
    /\ sim = "game"
    /\ nc = None
    /\ StackMutex = FALSE
    /\ suspended_tools = <<>>
    /\ predicate = [c \in Conds |-> FALSE]
    /\ core_cond = FALSE
    /\ live = {}
    /\ errorstate = FALSE

-----------------------------------------------------------------------------
(* Mistakes: variants of the steps below that no specification here uses.  *)
(* Each is a plausible bug in Core.cpp that one of the properties catches. *)

\* Suspend pushes nc before it has allocated it.
BugPushUnset(t, c) ==
    /\ pc[t] = "run"
    /\ c \in Conds \ live
    /\ pc' = [pc EXCEPT ![t] = "push"]
    /\ live' = live \cup {c}
    /\ UNCHANGED <<cond, simVars, suspended_tools, predicate, core_cond,
                   errorstate>>

\* Cond::Lock tests its predicate with an if, not with a while.
BugWaitOnce(t) ==
    /\ pc[t] = "lock"
    /\ predicate' = [predicate EXCEPT ![cond[t]] = FALSE]
    /\ pc' = [pc EXCEPT ![t] = "held"]
    /\ cond' = [cond EXCEPT ![t] = None]
    /\ UNCHANGED <<simVars, suspended_tools, core_cond, live, errorstate>>

\* Update signals nc and notifies nobody.
BugNotifyNobody(c) == pc

\* Update takes any wakeup for the tool's Resume.
BugResumedOnce ==
    /\ sim = "woken"
    /\ sim' = "delete"
    /\ core_cond' = FALSE
    /\ UNCHANGED <<toolVars, nc, StackMutex, suspended_tools, predicate, live,
                   errorstate>>

\* Update never deletes the condition.
BugLeak ==
    /\ sim = "delete"
    /\ nc' = None
    /\ sim' = "loop"
    /\ UNCHANGED <<toolVars, StackMutex, suspended_tools, predicate, core_cond,
                   live, errorstate>>

\* Update serves one tool a tick: an if in place of the while.
BugServeOne ==
    /\ sim = "delete"
    /\ live' = live \ {nc}
    /\ nc' = None
    /\ sim' = "game"
    /\ StackMutex' = FALSE
    /\ UNCHANGED <<toolVars, suspended_tools, predicate, core_cond, errorstate>>

-----------------------------------------------------------------------------
(* A tool: Suspend, then Resume.                                           *)

\* new Core::Cond(): a free address, with its predicate FALSE.
SuspendCall(t, c) ==
    /\ pc[t] = "run"
    /\ c \in Conds \ live
    /\ pc' = [pc EXCEPT ![t] = "push"]
    /\ cond' = [cond EXCEPT ![t] = c]
    /\ live' = live \cup {c}
    /\ predicate' = [predicate EXCEPT ![c] = FALSE]
    /\ UNCHANGED <<simVars, suspended_tools, core_cond, errorstate>>

SuspendPush(t) ==
    /\ pc[t] = "push"
    /\ ~StackMutex
    /\ suspended_tools' = Append(suspended_tools, cond[t])
    /\ pc' = [pc EXCEPT ![t] = "lock"]
    /\ UNCHANGED <<cond, simVars, predicate, core_cond, live, errorstate>>

\* Cond::Lock, one turn of its loop: the predicate is consumed, or the tool
\* waits (again).
SuspendTest(t) ==
    /\ pc[t] = "lock"
    /\ \/ /\ predicate[cond[t]]
          /\ predicate' = [predicate EXCEPT ![cond[t]] = FALSE]
          /\ pc' = [pc EXCEPT ![t] = "held"]
          /\ cond' = [cond EXCEPT ![t] = None]
       \/ /\ ~predicate[cond[t]]
          /\ pc' = [pc EXCEPT ![t] = "wait"]
          /\ UNCHANGED <<cond, predicate>>
    /\ UNCHANGED <<simVars, suspended_tools, core_cond, live, errorstate>>

ToolSpurious(t) ==
    /\ pc[t] = "wait"
    /\ pc' = [pc EXCEPT ![t] = "lock"]
    /\ UNCHANGED <<cond, simVars, suspended_tools, predicate, core_cond, live,
                   errorstate>>

\* core_cond->Unlock(): predicate and notify_one.
Resume(t) ==
    /\ pc[t] = "held"
    /\ pc' = [pc EXCEPT ![t] = "run"]
    /\ core_cond' = TRUE
    /\ sim' = IF sim = "park" THEN "woken" ELSE sim
    /\ UNCHANGED <<cond, nc, StackMutex, suspended_tools, predicate, live,
                   errorstate>>

-----------------------------------------------------------------------------
(* The simulation thread: Update, and the loop at its end.                 *)

\* The test of errorstate, long before the loop: the plugins are told of the
\* tick in between (PluginLifecycle), and Shutdown may come in between.
UpdateCall ==
    /\ sim = "game"
    /\ ~errorstate
    /\ sim' = "hooks"
    /\ UNCHANGED <<toolVars, nc, StackMutex, suspended_tools, predicate,
                   core_cond, live, errorstate>>

UpdateBegin ==
    /\ sim = "hooks"
    /\ ~StackMutex
    /\ StackMutex' = TRUE
    /\ sim' = "loop"
    /\ UNCHANGED <<toolVars, nc, suspended_tools, predicate, core_cond, live,
                   errorstate>>

\* What a notify_one on condition c does to the tools: the one waiting on it,
\* if it does wait, leaves wakeup->wait.
Notified(c) ==
    [t \in Tools |-> IF pc[t] = "wait" /\ cond[t] = c THEN "lock" ELSE pc[t]]

\* Pop; nc->Unlock(); the first test of core_cond->Lock().
UpdateWake ==
    /\ sim = "loop"
    /\ suspended_tools # <<>>
    /\ nc' = Last(suspended_tools)
    /\ suspended_tools' = Front(suspended_tools)
    /\ predicate' = [predicate EXCEPT ![nc'] = TRUE]
    /\ pc' = Notified(nc')
    /\ sim' = IF core_cond THEN "delete" ELSE "park"
    /\ core_cond' = FALSE
    /\ UNCHANGED <<cond, StackMutex, live, errorstate>>

SimSpurious ==
    /\ sim = "park"
    /\ sim' = "woken"
    /\ UNCHANGED <<toolVars, nc, StackMutex, suspended_tools, predicate,
                   core_cond, live, errorstate>>

\* core_cond->Lock(), a later turn of its loop.
UpdateResumed ==
    /\ sim = "woken"
    /\ sim' = IF core_cond THEN "delete" ELSE "park"
    /\ core_cond' = FALSE
    /\ UNCHANGED <<toolVars, nc, StackMutex, suspended_tools, predicate, live,
                   errorstate>>

UpdateDelete ==
    /\ sim = "delete"
    /\ live' = live \ {nc}
    /\ nc' = None
    /\ sim' = "loop"
    /\ UNCHANGED <<toolVars, StackMutex, suspended_tools, predicate, core_cond,
                   errorstate>>

UpdateEnd ==
    /\ sim = "loop"
    /\ suspended_tools = <<>>
    /\ StackMutex' = FALSE
    /\ sim' = "game"
    /\ UNCHANGED <<toolVars, nc, suspended_tools, predicate, core_cond, live,
                   errorstate>>

\* SDL_Quit, on the thread that runs it: the flag that makes every later
\* Update return at once.
Shutdown ==
    /\ ~errorstate
    /\ errorstate' = TRUE
    /\ UNCHANGED <<toolVars, simVars, suspended_tools, predicate, core_cond,
                   live>>

-----------------------------------------------------------------------------
ToolNext(t) ==
    \/ \E c \in Conds : SuspendCall(t, c)
    \/ SuspendPush(t)
    \/ SuspendTest(t)
    \/ ToolSpurious(t)
    \/ Resume(t)

SimNext ==
    \/ UpdateCall
    \/ UpdateBegin
    \/ UpdateWake
    \/ SimSpurious
    \/ UpdateResumed
    \/ UpdateDelete
    \/ UpdateEnd

Next == (\E t \in Tools : ToolNext(t)) \/ SimNext \/ Shutdown

SafeSpec == Init /\ [][Next]_vars

\* The game ticks for ever (until it quits), a thread that can run runs, a
\* tool resumes the game it suspended, and a thread that keeps asking for
\* StackMutex, free again and again, gets it.  Nobody is forced to suspend,
\* to quit, or to wake spuriously.
Fairness ==
    /\ WF_vars(UpdateCall) /\ WF_vars(UpdateBegin) /\ WF_vars(UpdateWake)
    /\ WF_vars(UpdateResumed) /\ WF_vars(UpdateDelete) /\ WF_vars(UpdateEnd)
    /\ \A t \in Tools :
         /\ SF_vars(SuspendPush(t))
         /\ WF_vars(SuspendTest(t))
         /\ WF_vars(Resume(t))

Spec == SafeSpec /\ Fairness

-----------------------------------------------------------------------------
(* Properties.                                                             *)

Suspended(t) == pc[t] \in {"push", "lock", "wait"}

\* A tool whose Suspend has returned is the only one, and the simulation
\* thread stays inside core_cond->Lock() for as long: between Suspend and
\* Resume nobody else touches the game.
MutualExclusion ==
    \A t \in Tools : pc[t] = "held" =>
        /\ sim \in {"park", "woken"}
        /\ \A u \in Tools \ {t} : pc[u] # "held"

\* Suspend allocates the condition and Update deletes it, on two threads: the
\* allocated conditions are at every moment exactly those a tool still waits
\* on and the one Update still has in hand.  No tool tests a deleted one, none
\* leaks, and none is deleted twice.
CondLifetime ==
    live = {cond[t] : t \in {u \in Tools : Suspended(u)}} \cup ({nc} \ {None})

\* A thread sits in wakeup->wait only while the signal it waits for has not
\* been given, and Update sits there only for a tool that is on its way: one
\* that owns the game, or one that has been signalled and will test its
\* predicate.
NoLostWakeup ==
    /\ \A t \in Tools : pc[t] = "wait" => ~predicate[cond[t]]
    /\ sim = "park" =>
         /\ ~core_cond
         /\ \E t \in Tools :
              \/ pc[t] = "held"
              \/ pc[t] = "lock" /\ cond[t] = nc /\ predicate[nc]

\* "do not allow more tools to join in while we process stuff here": while
\* Update serves the stack no tool gets on it, so a tool that was on it is
\* served before any tool that suspends again.
JoinClosed ==
    [][sim \notin {"game", "hooks"} => Len(suspended_tools') <= Len(suspended_tools)]_vars

\* Every Suspend returns, unless the game quits.
EverySuspendServed ==
    \A t \in Tools : (pc[t] = "push") ~> (pc[t] = "held" \/ errorstate)

-----------------------------------------------------------------------------
(* Refinement: Suspend and Resume implement the activity lock.  The game   *)
(* has yielded for as long as Update holds StackMutex.                     *)

phaseOf(t) == CASE pc[t] = "run" -> "idle"
                [] pc[t] = "held" -> "holding"
                [] OTHER -> "waiting"

AL == INSTANCE ActivityLock
        WITH phase <- [t \in Tools |-> phaseOf(t)],
             game <- IF sim \in {"game", "hooks"} THEN "running" ELSE "yielded",
             closed <- errorstate

ImplementsActivityLock == AL!Spec
=============================================================================
