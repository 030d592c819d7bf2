------------------------- MODULE CoreSuspend_proofs -------------------------
(***************************************************************************)
(* Safety of CoreSuspend for any set of tools and of addresses: the type   *)
(* invariant, MutualExclusion, CondLifetime, NoLostWakeup and JoinClosed,  *)
(* and the refinement of ActivityLock's safety part.                       *)
(***************************************************************************)
EXTENDS CoreSuspend, TLAPS, SequenceTheorems

\* A tool has a condition exactly while it is suspended, and its own one.
Owners ==
    /\ \A t \in Tools : Suspended(t) <=> cond[t] # None
    /\ \A t, u \in Tools : cond[t] = cond[u] /\ cond[t] # None => t = u

\* An address is allocated exactly while a tool or Update has it in hand.
Allocated ==
    \A c \in Conds : c \in live <=> c = nc \/ \E t \in Tools : cond[t] = c

\* Every element of the stack is the condition of a tool that waits, appears
\* there once, and is not the one Update has popped.
Stack ==
    /\ \A i \in 1..Len(suspended_tools) :
         /\ suspended_tools[i] # nc
         /\ \E t \in Tools : /\ cond[t] = suspended_tools[i]
                             /\ pc[t] \in {"lock", "wait"}
    /\ \A i, j \in 1..Len(suspended_tools) :
         suspended_tools[i] = suspended_tools[j] => i = j

\* Only the condition Update has popped is signalled, and its tool knows.
Signalled ==
    \A t \in Tools : Suspended(t) =>
        /\ predicate[cond[t]] => cond[t] = nc
        /\ cond[t] = nc => pc[t] = "lock" /\ predicate[nc]

\* The simulation thread's program counter tells what it has in hand.
Simulation ==
    /\ StackMutex <=> sim \notin {"game", "hooks"}
    /\ nc # None <=> sim \in {"park", "woken", "delete"}
    /\ core_cond => sim = "woken"

\* The tool that is being served: it owns the game or is about to.
Served(t) == pc[t] = "held" \/ (Suspended(t) /\ cond[t] = nc)

\* Update parks for exactly one served tool, until that tool resumes.
Service ==
    /\ \A t, u \in Tools : Served(t) /\ Served(u) => t = u
    /\ \A t \in Tools : Served(t) => sim \in {"park", "woken"} /\ ~core_cond
    /\ sim \in {"park", "woken"} /\ ~core_cond => \E t \in Tools : Served(t)

IInv ==
    /\ TypeOK
    /\ Owners
    /\ Allocated
    /\ Stack
    /\ Signalled
    /\ Simulation
    /\ Service

-----------------------------------------------------------------------------
\* The stack after a pop: SequencesExt's Last and Front, element by element.
LEMMA PopProperties ==
    ASSUME NEW S, NEW s \in Seq(S), s # <<>>
    PROVE  /\ Len(s) \in Nat \ {0}
           /\ Last(s) = s[Len(s)]
           /\ Last(s) \in S
           /\ Front(s) \in Seq(S)
           /\ Len(Front(s)) = Len(s) - 1
           /\ \A i \in 1..Len(Front(s)) : Front(s)[i] = s[i]
  <1> DEFINE n == Len(s)
  <1>1. n \in Nat \ {0}
    BY EmptySeq, LenProperties
  <1>2. Last(s) = s[n] /\ Last(s) \in S
    BY <1>1, ElementOfSeq DEF Last
  <1>3. \A i \in 1..(n - 1) : s[i] \in S
    BY <1>1, ElementOfSeq
  <1>4. Front(s) = SubSeq(s, 1, n - 1)
    BY DEF Front
  <1> HIDE DEF n
  <1>5. /\ SubSeq(s, 1, n - 1) \in Seq(S)
        /\ Len(SubSeq(s, 1, n - 1)) = IF 1 <= n - 1 THEN n - 1 - 1 + 1 ELSE 0
        /\ \A i \in 1..(n - 1 - 1 + 1) : SubSeq(s, 1, n - 1)[i] = s[1 + i - 1]
    BY <1>1, <1>3, n - 1 \in Int, SubSeqProperties
  <1>6. Len(Front(s)) = n - 1
    BY <1>1, <1>4, <1>5
  <1>7. \A i \in 1..Len(Front(s)) : Front(s)[i] = s[i]
    BY <1>1, <1>4, <1>5, <1>6
  <1> QED
    BY <1>1, <1>2, <1>4, <1>5, <1>6, <1>7 DEF n

\* The invariant holds at the start and no step breaks it.
LEMMA IInvInit == Init => IInv
  <1> SUFFICES ASSUME Init PROVE IInv
    OBVIOUS
  <1> USE NoneAssumption DEF Init
  <1>1. TypeOK
    BY EmptySeq DEF TypeOK, ToolStates, SimStates
  <1>2. Owners /\ Allocated /\ Signalled /\ Simulation /\ Service
    BY DEF Owners, Allocated, Signalled, Simulation, Service, Suspended, Served
  <1>3. Stack
    BY EmptySeq DEF Stack
  <1> QED
    BY <1>1, <1>2, <1>3 DEF IInv

\* One case per action, and under it one step per part of the invariant where
\* the action disturbs several.
LEMMA IInvNext == IInv /\ [Next]_vars => IInv'
  <1> SUFFICES ASSUME IInv, [Next]_vars PROVE IInv'
    OBVIOUS
  <1> USE NoneAssumption DEF IInv, TypeOK, ToolStates, SimStates, toolVars,
          simVars, Suspended, Served
  <1>1. ASSUME NEW t \in Tools, NEW c \in Conds, SuspendCall(t, c)
       PROVE  IInv'
    <2> USE <1>1 DEF SuspendCall
    <2>1. TypeOK'
      BY DEF Owners
    <2>2. Owners'
      BY DEF Owners, Allocated, Stack, Signalled, Simulation, Service
    <2>3. Allocated'
      BY DEF Owners, Allocated, Stack, Signalled, Simulation, Service
    <2>4. Stack'
      BY DEF Owners, Allocated, Stack, Signalled, Simulation, Service
    <2>5. Signalled'
      BY DEF Owners, Allocated, Stack, Signalled, Simulation, Service
    <2>6. Simulation'
      BY DEF Simulation, Service
    <2>7. Service'
      BY DEF Owners, Allocated, Stack, Signalled, Simulation, Service
    <2> QED
      BY <2>1, <2>2, <2>3, <2>4, <2>5, <2>6, <2>7
  <1>2. ASSUME NEW t \in Tools, SuspendPush(t)
       PROVE  IInv'
    <2> USE <1>2 DEF SuspendPush
    <2>1. TypeOK'
      BY DEF Owners
    <2>2. Owners'
      BY DEF Owners, Allocated, Stack, Signalled, Simulation, Service
    <2>3. Allocated'
      BY DEF Owners, Allocated, Stack, Signalled, Simulation, Service
    <2>4. Stack'
      BY DEF Owners, Allocated, Stack, Signalled, Simulation, Service
    <2>5. Signalled'
      BY DEF Owners, Allocated, Stack, Signalled, Simulation, Service
    <2>6. Simulation'
      BY DEF Simulation, Service
    <2>7. Service'
      BY DEF Owners, Allocated, Stack, Signalled, Simulation, Service
    <2> QED
      BY <2>1, <2>2, <2>3, <2>4, <2>5, <2>6, <2>7
  <1>3. ASSUME NEW t \in Tools, SuspendTest(t)
       PROVE  IInv'
    <2> USE <1>3 DEF SuspendTest
    <2>1. TypeOK'
      BY DEF Owners
    <2>2. Owners'
      BY DEF Owners, Allocated, Stack, Signalled, Simulation, Service
    <2>3. Allocated'
      BY DEF Owners, Allocated, Stack, Signalled, Simulation, Service
    <2>4. Stack'
      BY DEF Owners, Allocated, Stack, Signalled, Simulation, Service
    <2>5. Signalled'
      BY DEF Owners, Allocated, Stack, Signalled, Simulation, Service
    <2>6. Simulation'
      BY DEF Simulation, Service
    <2>7. Service'
      BY DEF Owners, Allocated, Stack, Signalled, Simulation, Service
    <2> QED
      BY <2>1, <2>2, <2>3, <2>4, <2>5, <2>6, <2>7
  <1>4. ASSUME NEW t \in Tools, ToolSpurious(t)
       PROVE  IInv'
    BY <1>4 DEF ToolSpurious, Owners, Allocated, Stack, Signalled, Simulation,
       Service
  <1>5. ASSUME NEW t \in Tools, Resume(t)
       PROVE  IInv'
    <2> USE <1>5 DEF Resume
    <2>1. TypeOK'
      BY DEF Owners
    <2>2. Owners'
      BY DEF Owners, Allocated, Stack, Signalled, Simulation, Service
    <2>3. Allocated'
      BY DEF Owners, Allocated, Stack, Signalled, Simulation, Service
    <2>4. Stack'
      BY DEF Owners, Allocated, Stack, Signalled, Simulation, Service
    <2>5. Signalled'
      BY DEF Owners, Allocated, Stack, Signalled, Simulation, Service
    <2>6. Simulation'
      BY DEF Simulation, Service
    <2>7. Service'
      BY DEF Owners, Allocated, Stack, Signalled, Simulation, Service
    <2> QED
      BY <2>1, <2>2, <2>3, <2>4, <2>5, <2>6, <2>7
  <1>6. CASE UpdateCall \/ UpdateBegin
    <2>1. /\ UNCHANGED <<pc, cond, nc, suspended_tools, predicate, core_cond,
                         live, errorstate>>
          /\ sim \in {"game", "hooks"}
          /\ \/ sim' = "hooks" /\ StackMutex' = StackMutex
             \/ sim' = "loop" /\ StackMutex' = TRUE
      BY <1>6 DEF UpdateCall, UpdateBegin
    <2>2. TypeOK'
      BY <2>1
    <2>3. (Owners /\ Allocated)'
      BY <2>1 DEF Owners, Allocated
    <2>4. Stack'
      BY <2>1 DEF Stack
    <2>5. Signalled'
      BY <2>1 DEF Signalled
    <2>6. Simulation'
      BY <2>1 DEF Simulation
    <2>7. Service'
      BY <2>1 DEF Service
    <2> QED
      BY <2>2, <2>3, <2>4, <2>5, <2>6, <2>7
  <1>7. CASE UpdateWake
    <2> DEFINE top == Last(suspended_tools)
    <2>1. /\ Len(suspended_tools) \in Nat \ {0}
          /\ top = suspended_tools[Len(suspended_tools)]
          /\ top \in Conds
          /\ Front(suspended_tools) \in Seq(Conds)
          /\ Len(Front(suspended_tools)) = Len(suspended_tools) - 1
          /\ \A i \in 1..Len(Front(suspended_tools)) :
               Front(suspended_tools)[i] = suspended_tools[i]
      BY <1>7, PopProperties DEF UpdateWake
    <2>2. PICK w \in Tools : cond[w] = top /\ pc[w] \in {"lock", "wait"}
      BY <2>1 DEF Stack
    <2>3. /\ nc = None /\ sim = "loop" /\ ~core_cond /\ StackMutex
          /\ \A t \in Tools : ~Served(t)
      BY <1>7 DEF UpdateWake, Simulation, Service
    <2> HIDE DEF top
    <2>4. /\ nc' = top
          /\ suspended_tools' = Front(suspended_tools)
          /\ predicate' = [predicate EXCEPT ![top] = TRUE]
          /\ sim' = "park"
          /\ core_cond' = FALSE
          /\ UNCHANGED <<cond, StackMutex, live, errorstate>>
      BY <1>7, <2>3 DEF UpdateWake, top
    <2>5. /\ pc' \in [Tools -> ToolStates]
          /\ \A t \in Tools : pc'[t] = IF t = w THEN "lock" ELSE pc[t]
      BY <1>7, <2>2 DEF UpdateWake, Notified, Owners, top
    <2>6. TypeOK'
      BY <2>1, <2>4, <2>5
    <2>7. Owners'
      BY <2>2, <2>4, <2>5 DEF Owners
    <2>8. Allocated'
      BY <2>2, <2>3, <2>4 DEF Allocated
    <2>9. Stack'
      BY <2>1, <2>2, <2>4, <2>5 DEF Stack
    <2>10. Signalled'
      BY <2>1, <2>2, <2>3, <2>4, <2>5 DEF Signalled, Owners
    <2>11. Simulation'
      BY <2>1, <2>3, <2>4 DEF Simulation
    <2>12. Service'
      BY <2>2, <2>3, <2>4, <2>5 DEF Service, Owners
    <2> QED
      BY <2>6, <2>7, <2>8, <2>9, <2>10, <2>11, <2>12
  <1>8. CASE SimSpurious
    BY <1>8 DEF SimSpurious, Owners, Allocated, Stack, Signalled, Simulation,
       Service
  <1>9. CASE UpdateResumed
    <2> USE <1>9 DEF UpdateResumed
    <2>1. TypeOK'
      BY DEF Owners
    <2>2. Owners'
      BY DEF Owners, Allocated, Stack, Signalled, Simulation, Service
    <2>3. Allocated'
      BY DEF Owners, Allocated, Stack, Signalled, Simulation, Service
    <2>4. Stack'
      BY DEF Owners, Allocated, Stack, Signalled, Simulation, Service
    <2>5. Signalled'
      BY DEF Owners, Allocated, Stack, Signalled, Simulation, Service
    <2>6. Simulation'
      BY DEF Simulation, Service
    <2>7. Service'
      BY DEF Owners, Allocated, Stack, Signalled, Simulation, Service
    <2> QED
      BY <2>1, <2>2, <2>3, <2>4, <2>5, <2>6, <2>7
  <1>10. CASE UpdateDelete
    <2> USE <1>10 DEF UpdateDelete
    <2>1. TypeOK'
      BY DEF Owners
    <2>2. Owners'
      BY DEF Owners, Allocated, Stack, Signalled, Simulation, Service
    <2>3. Allocated'
      BY DEF Owners, Allocated, Stack, Signalled, Simulation, Service
    <2>4. Stack'
      BY DEF Owners, Allocated, Stack, Signalled, Simulation, Service
    <2>5. Signalled'
      BY DEF Owners, Allocated, Stack, Signalled, Simulation, Service
    <2>6. Simulation'
      BY DEF Simulation, Service
    <2>7. Service'
      BY DEF Owners, Allocated, Stack, Signalled, Simulation, Service
    <2> QED
      BY <2>1, <2>2, <2>3, <2>4, <2>5, <2>6, <2>7
  <1>11. CASE UpdateEnd
    <2> USE <1>11 DEF UpdateEnd
    <2>1. TypeOK'
      BY DEF Owners
    <2>2. Owners'
      BY DEF Owners, Allocated, Stack, Signalled, Simulation, Service
    <2>3. Allocated'
      BY DEF Owners, Allocated, Stack, Signalled, Simulation, Service
    <2>4. Stack'
      BY DEF Owners, Allocated, Stack, Signalled, Simulation, Service
    <2>5. Signalled'
      BY DEF Owners, Allocated, Stack, Signalled, Simulation, Service
    <2>6. Simulation'
      BY DEF Simulation, Service
    <2>7. Service'
      BY DEF Owners, Allocated, Stack, Signalled, Simulation, Service
    <2> QED
      BY <2>1, <2>2, <2>3, <2>4, <2>5, <2>6, <2>7
  <1>12. CASE Shutdown
    BY <1>12 DEF Shutdown, Owners, Allocated, Stack, Signalled, Simulation,
       Service
  <1>13. CASE UNCHANGED vars
    BY <1>13 DEF vars, Owners, Allocated, Stack, Signalled, Simulation,
       Service
  <1> QED
    BY <1>1, <1>2, <1>3, <1>4, <1>5, <1>6,
       <1>7, <1>8, <1>9, <1>10, <1>11, <1>12, <1>13 DEF Next, ToolNext, SimNext

\* The invariant holds throughout every behaviour.
LEMMA Invariance == Spec => []IInv
  <1> QED
    BY IInvInit, IInvNext, PTL DEF Spec, SafeSpec

-----------------------------------------------------------------------------
\* Every variable keeps its type; in particular every element of
\* suspended_tools is the address of a condition, never None.
THEOREM TypeCorrect == Spec => []TypeOK
  <1>1. IInv => TypeOK
    BY DEF IInv
  <1> QED
    BY <1>1, Invariance, PTL

\* Between the return of Suspend and the call of Resume a tool is alone, for
\* any number of tools: the simulation thread stays in core_cond->Lock().
THEOREM SuspendExcludes == Spec => []MutualExclusion
  <1>1. IInv => MutualExclusion
    BY DEF IInv, MutualExclusion, Service, Served
  <1> QED
    BY <1>1, Invariance, PTL

\* No Core::Cond is used after Update deleted it, and none leaks.
THEOREM ConditionsLiveAsLongAsNeeded == Spec => []CondLifetime
  <1>1. IInv => CondLifetime
    <2> SUFFICES ASSUME IInv PROVE CondLifetime
      OBVIOUS
    <2> DEFINE held == {cond[t] : t \in {u \in Tools : Suspended(u)}}
    <2>1. \A c \in live : c \in held \cup ({nc} \ {None})
      BY NoneAssumption DEF IInv, TypeOK, Owners, Allocated
    <2>2. \A c \in held \cup ({nc} \ {None}) : c \in live
      BY DEF IInv, TypeOK, Owners, Allocated
    <2> QED
      BY <2>1, <2>2 DEF CondLifetime
  <1> QED
    BY <1>1, Invariance, PTL

\* No signal is lost: nobody sleeps on a predicate that is already TRUE, and
\* Update never sleeps without a tool that will wake it.
THEOREM WakeupsArrive == Spec => []NoLostWakeup
  <1>1. IInv => NoLostWakeup
    BY DEF IInv, NoLostWakeup, TypeOK, Owners, Signalled, Simulation, Service,
       Served, Suspended
  <1> QED
    BY <1>1, Invariance, PTL

\* While Update serves the stack, no tool joins it.
THEOREM StackOnlyShrinks == Spec => JoinClosed
  <1>1. IInv /\ [Next]_vars
          => [sim \notin {"game", "hooks"} => Len(suspended_tools') <= Len(suspended_tools)]_vars
    <2> SUFFICES ASSUME IInv, Next, sim \notin {"game", "hooks"}
                 PROVE  Len(suspended_tools') <= Len(suspended_tools)
      BY DEF vars
    <2>1. Len(suspended_tools) \in Nat
      BY LenProperties DEF IInv, TypeOK
    <2>2. CASE UpdateWake
      BY <2>2, PopProperties DEF UpdateWake, IInv, TypeOK
    <2>3. CASE UNCHANGED suspended_tools
      BY <2>1, <2>3
    <2>4. \A t \in Tools : ~SuspendPush(t)
      BY DEF SuspendPush, IInv, Simulation
    <2> QED
      BY <2>2, <2>3, <2>4 DEF Next, ToolNext, SimNext, SuspendCall, SuspendTest,
         ToolSpurious, Resume, UpdateCall, UpdateBegin, SimSpurious, UpdateResumed,
         UpdateDelete, UpdateEnd, Shutdown
  <1> QED
    BY <1>1, Invariance, PTL DEF JoinClosed, Spec, SafeSpec

-----------------------------------------------------------------------------
(* Refinement of the safety part of ActivityLock.                          *)

\* CoreSuspend starts where the activity lock starts.
LEMMA RefinedInit == Init => AL!Init
  BY DEF Init, AL!Init, phaseOf

\* One case per action: which step of the activity lock it is, or that it is
\* none.
LEMMA RefinedNext == IInv /\ [Next]_vars => [AL!Next]_AL!vars
  <1> SUFFICES ASSUME IInv, [Next]_vars PROVE [AL!Next]_AL!vars
    OBVIOUS
  <1>1. /\ pc \in [Tools -> ToolStates] /\ sim \in SimStates
        /\ errorstate \in BOOLEAN
    BY DEF IInv, TypeOK
  <1> USE <1>1 DEF phaseOf, ToolStates, SimStates, toolVars, simVars
  <1>2. CASE UNCHANGED vars
    BY <1>2 DEF vars, AL!vars
  <1>3. ASSUME NEW t \in Tools, NEW c \in Conds, SuspendCall(t, c)
        PROVE  AL!Request(t)
    BY <1>3 DEF SuspendCall, AL!Request
  <1>4. ASSUME NEW t \in Tools, SuspendPush(t)
        PROVE  UNCHANGED AL!vars
    BY <1>4 DEF SuspendPush, AL!vars
  <1>5. ASSUME NEW t \in Tools, SuspendTest(t)
        PROVE  AL!Grant(t) \/ UNCHANGED AL!vars
    <2>1. CASE ~predicate[cond[t]]
      BY <1>5, <2>1 DEF SuspendTest, AL!vars
    <2>2. CASE predicate[cond[t]]
      <3>1. Served(t) /\ pc[t] = "lock"
        BY <1>5, <2>2 DEF SuspendTest, IInv, Signalled, Served, Suspended
      <3>2. /\ sim \in {"park", "woken"}
            /\ \A u \in Tools : pc[u] # "held"
        BY <3>1 DEF IInv, Service, Served
      <3>3. pc' = [pc EXCEPT ![t] = "held"] /\ UNCHANGED <<sim, errorstate>>
        BY <1>5, <2>2 DEF SuspendTest
      <3> QED
        BY <3>1, <3>2, <3>3 DEF AL!Grant, AL!Owners
    <2> QED
      BY <2>1, <2>2
  <1>6. ASSUME NEW t \in Tools, ToolSpurious(t)
        PROVE  UNCHANGED AL!vars
    BY <1>6 DEF ToolSpurious, AL!vars
  <1>7. ASSUME NEW t \in Tools, Resume(t)
        PROVE  AL!Release(t)
    <2>1. sim \in {"park", "woken"}
      BY <1>7 DEF Resume, IInv, Service, Served
    <2> QED
      BY <1>7, <2>1 DEF Resume, AL!Release
  <1>8. ASSUME UpdateBegin
        PROVE  AL!Yield
    BY <1>8 DEF UpdateBegin, AL!Yield
  <1>9. ASSUME UpdateWake
        PROVE  UNCHANGED AL!vars
    <2>1. \A t \in Tools : pc[t] = "wait" => pc'[t] \in {"wait", "lock"}
      BY <1>9 DEF UpdateWake, Notified
    <2>2. \A t \in Tools : pc[t] # "wait" => pc'[t] = pc[t]
      BY <1>9 DEF UpdateWake, Notified
    <2>3. /\ {sim, sim'} \cap {"game", "hooks"} = {}
          /\ errorstate' = errorstate
      BY <1>9 DEF UpdateWake
    <2> QED
      BY <2>1, <2>2, <2>3 DEF AL!vars
  <1>10. CASE UpdateCall \/ SimSpurious \/ UpdateResumed \/ UpdateDelete
    BY <1>10 DEF UpdateCall, SimSpurious, UpdateResumed, UpdateDelete, AL!vars
  <1>11. ASSUME UpdateEnd
        PROVE  AL!Regain
    <2>1. \A t \in Tools : pc[t] # "held"
      BY <1>11 DEF UpdateEnd, IInv, Service, Served
    <2> QED
      BY <1>11, <2>1 DEF UpdateEnd, AL!Regain, AL!Owners
  <1>12. ASSUME Shutdown
        PROVE  AL!Close
    BY <1>12 DEF Shutdown, AL!Close
  <1> QED
    BY <1>2, <1>3, <1>4, <1>5, <1>6, <1>7, <1>8, <1>9, <1>10, <1>11, <1>12
       DEF Next, ToolNext, SimNext, AL!Next

\* Suspend and Resume implement the activity lock: every step of the
\* conditions, the stack and the simulation thread is a step of the lock or
\* leaves it unchanged.  (Its fairness stays with the model checker.)
THEOREM RefinesActivityLock == Spec => AL!Safe
  <1> QED
    BY RefinedInit, RefinedNext, Invariance, PTL DEF Spec, SafeSpec, AL!Safe

=============================================================================
