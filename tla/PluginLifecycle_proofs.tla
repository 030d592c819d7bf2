----------------------- MODULE PluginLifecycle_proofs ------------------------
(***************************************************************************)
(* Safety of PluginLifecycle for any set of plugins, commands and threads: *)
(* the reference counts are exact, a call runs in a mapped library and on  *)
(* a command list that stays, the command table agrees with what is        *)
(* loaded, guards hold, hooks exclude tools, and plugins know the world.   *)
(***************************************************************************)
EXTENDS PluginLifecycle, TLAPS, FiniteSetTheorems

\* Which steps a thread takes, and when it has a plugin in hand.
Where ==
    /\ pc["sim"] \in {"idle", "pass", "yield", "enter", "check", "hook",
                     "leave"}
    /\ \A t \in Watchers : pc[t] \in {"idle", "enter", "check", "hot", "leave"}
    /\ \A t \in Invokers : pc[t] \notin {"pass", "yield", "hook", "hot"}
    /\ \A t \in Invokers \ {"io"} :
         pc[t] \notin Holding \cup {"load", "unload", "waiting", "awake"}
    /\ \A t \in Threads :
         on[t] \in Plugins <=> pc[t] \notin {"idle", "pass", "yield"}

\* load and unload hold the lock of one plugin, the one they are about.
Locked == \A p \in Plugins : mut[p] <=> pc["io"] \in Holding /\ on["io"] = p

\* What the console thread's position in load or unload says of the plugin.
Stage ==
    /\ pc["io"] \in {"open", "init"} => state[on["io"]] = "PS_UNLOADED"
    /\ pc["io"] \in {"register", "shutdown", "drain", "waiting", "awake",
                     "unregister", "close"} => state[on["io"]] = "PS_LOADED"
    /\ pc["io"] = "init" => library[on["io"]]
    /\ pc["io"] \in {"unregister", "close"} => refcount[on["io"]] = 0
    /\ \A p \in Plugins :
         state[p] = "PS_LOADED" => library[p] /\ commands[p] = CmdsOf[p]

\* A call that has found its plugin loaded keeps it loaded.
Calls ==
    \A t \in Threads : pc[t] \in InLibrary =>
        /\ state[on[t]] = "PS_LOADED"
        /\ t \in Callers => cmd[t] \in commands[on[t]]

\* A thread with a reference into a command vector is inside that plugin, and
\* the plugin is loaded: it may neither be unloaded nor loaded anew.
Refs ==
    \A t \in found :
        /\ t \in Callers /\ pc[t] \in Inside
        /\ on[t] \in Plugins /\ state[on[t]] = "PS_LOADED"
        /\ cmd[t] \in commands[on[t]]

\* The command table, also in the middle of load and unload.
Table ==
    /\ BelongsExact
    /\ pc["io"] = "close" => \A c \in Commands : belongs[c] # on["io"]

\* The activity lock and the program counters agree.
Owning ==
    /\ \A t \in Invokers :
         /\ phase[t] = "waiting" <=> pc[t] \in {"suspend", "ask"}
         /\ phase[t] = "holding" <=> pc[t] \in {"guard", "own"}
         /\ phase[t] = "holding" => game = "yielded"
    /\ \A t, u \in Invokers :
         phase[t] = "holding" /\ phase[u] = "holding" => t = u
    /\ game = "yielded" <=> pc["sim"] = "yield"

\* A guarded command's function runs only after its guard.
Guards ==
    /\ \A t \in Invokers :
         /\ pc[t] \in {"run", "ask"} => cmd[t] \notin Guarded
         /\ pc[t] \in {"suspend", "guard"} => cmd[t] \in Guarded
    /\ GuardHolds

\* A plugin that does not know whether a world is loaded will be told before
\* any other hook of it runs.
Starting(p) == pc["io"] = "init" /\ on["io"] = p

WillBeTold(p) ==
    \/ pc["sim"] = "idle" /\ world # last_world_data_ptr
    \/ /\ "world" \in hooks
       /\ \/ p \in todo
          \/ /\ on["sim"] = p
             /\ \/ pc["sim"] = "enter"
                \/ pc["sim"] = "check" /\ state[p] = "PS_LOADED"

Knowing ==
    /\ pc["sim"] # "idle" => world = last_world_data_ptr
    /\ pc["sim"] \in {"idle", "yield"} => hooks = {}
    /\ \A p \in Plugins :
         state[p] = "PS_LOADED" \/ Starting(p)
         => knows[p] = world \/ WillBeTold(p)

IInv ==
    /\ TypeOK
    /\ Where
    /\ Locked
    /\ RefcountExact
    /\ Stage
    /\ Calls
    /\ Table
    /\ Owning
    /\ Guards
    /\ Knowing

-----------------------------------------------------------------------------
\* The threads that hold a reference on a plugin: lock_add is behind them,
\* lock_sub ahead.
Users(p) == {t \in Threads : on[t] = p /\ pc[t] \in Inside}

\* There are no more of them than threads.
LEMMA AtMostAll ==
    ASSUME NEW S \in SUBSET Threads
    PROVE  IsFiniteSet(S) /\ Cardinality(S) \in 0..Cardinality(Threads)
  <1>1. IsFiniteSet(Threads)
    BY ThreadsAssumption
  <1>2. IsFiniteSet(S) /\ Cardinality(S) <= Cardinality(Threads)
    BY <1>1, FS_Subset
  <1>3. Cardinality(S) \in Nat /\ Cardinality(Threads) \in Nat
    BY <1>1, <1>2, FS_CardinalityType
  <1> QED
    BY <1>2, <1>3

\* A reference that is counted is held: with the count at 0 nobody is inside.
LEMMA NobodyInside ==
    ASSUME RefcountExact, NEW p \in Plugins, refcount[p] = 0
    PROVE  \A t \in Threads : on[t] = p => pc[t] \notin Inside
  <1>1. Users(p) \in SUBSET Threads
    BY DEF Users
  <1>2. Cardinality(Users(p)) = 0
    BY DEF RefcountExact, Users
  <1>3. IsFiniteSet(Users(p))
    BY <1>1, AtMostAll
  <1>4. Users(p) = {}
    BY <1>2, <1>3, FS_EmptySet
  <1> QED
    BY <1>4 DEF Users

\* A step that leaves the counts, and who is inside, alone.
LEMMA SameReferences ==
    ASSUME RefcountExact, refcount' = refcount,
           \A t \in Threads, p \in Plugins :
             on'[t] = p /\ pc'[t] \in Inside <=> on[t] = p /\ pc[t] \in Inside
    PROVE  RefcountExact'
  <1>1. \A p \in Plugins : {t \in Threads : on'[t] = p /\ pc'[t] \in Inside}
                           = {t \in Threads : on[t] = p /\ pc[t] \in Inside}
    OBVIOUS
  <1> QED
    BY <1>1 DEF RefcountExact

\* lock_add, of a thread that is not inside: one user more, and one counted.
LEMMA OneMore ==
    ASSUME TypeOK, RefcountExact, NEW t \in Threads, NEW q \in Plugins,
           on[t] = q, pc[t] \notin Inside, Enter(t)
    PROVE  /\ refcount' \in [Plugins -> 0..Cardinality(Threads)]
           /\ RefcountExact'
  <1>1. /\ pc' = [pc EXCEPT ![t] = "check"]
        /\ on' = on
        /\ refcount' = [refcount EXCEPT ![q] = refcount[q] + 1]
    BY DEF Enter, Goto
  <1>2. /\ pc \in [Threads -> States]
        /\ refcount \in [Plugins -> 0..Cardinality(Threads)]
    BY DEF TypeOK
  <1>3. \A p \in Plugins : /\ Users(p) \in SUBSET Threads
                           /\ Users(p)' \in SUBSET Threads
    BY DEF Users
  <1>4. Users(q)' = Users(q) \cup {t}
    BY <1>1, <1>2 DEF Users, Inside
  <1>5. \A p \in Plugins \ {q} : Users(p)' = Users(p)
    BY <1>1, <1>2 DEF Users
  <1>6. t \notin Users(q)
    BY DEF Users
  <1>7. IsFiniteSet(Users(q))
    BY <1>3, AtMostAll
  <1>8. Cardinality(Users(q) \cup {t}) = Cardinality(Users(q)) + 1
    BY <1>6, <1>7, FS_AddElement
  <1>9. \A p \in Plugins : refcount[p] = Cardinality(Users(p))
    BY DEF RefcountExact, Users
  <1>10. \A p \in Plugins : refcount'[p] = Cardinality(Users(p)')
    BY <1>1, <1>2, <1>4, <1>5, <1>8, <1>9
  <1>11. \A p \in Plugins : Cardinality(Users(p)') \in 0..Cardinality(Threads)
    BY <1>3, AtMostAll
  <1>12. refcount' \in [Plugins -> 0..Cardinality(Threads)]
    BY <1>1, <1>2, <1>10, <1>11
  <1>13. RefcountExact'
    BY <1>10 DEF RefcountExact, Users
  <1> QED
    BY <1>12, <1>13

\* lock_sub, of a thread that is inside: one user less, and one counted.
LEMMA OneLess ==
    ASSUME TypeOK, RefcountExact, NEW t \in Threads, NEW q \in Plugins,
           on[t] = q, Leave(t)
    PROVE  /\ refcount' \in [Plugins -> 0..Cardinality(Threads)]
           /\ RefcountExact'
           /\ refcount[q] # 0
  <1>1. /\ pc' = [u \in Threads |->
                    IF u = t THEN IF t = "sim" THEN "pass" ELSE "idle"
                    ELSE IF pc[u] = "waiting" /\ on[u] = q THEN "awake"
                    ELSE pc[u]]
        /\ on' = [on EXCEPT ![t] = None]
        /\ refcount' = [refcount EXCEPT ![q] = refcount[q] - 1]
        /\ pc[t] = "leave"
    BY DEF Leave
  <1>2. /\ pc \in [Threads -> States]
        /\ on \in [Threads -> Plugins \cup {None}]
        /\ refcount \in [Plugins -> 0..Cardinality(Threads)]
    BY DEF TypeOK
  <1>3. \A p \in Plugins : /\ Users(p) \in SUBSET Threads
                           /\ Users(p)' \in SUBSET Threads
    BY DEF Users
  <1>4. Users(q)' = Users(q) \ {t}
    <2>1. on'[t] # q
      BY <1>1, <1>2, PluginsAssumption
    <2>2. ASSUME NEW u \in Threads, u # t
          PROVE  /\ on'[u] = on[u]
                 /\ pc'[u] \in Inside <=> pc[u] \in Inside
      BY <1>1, <1>2, <2>2 DEF Inside
    <2> QED
      BY <2>1, <2>2 DEF Users
  <1>5. \A p \in Plugins \ {q} : Users(p)' = Users(p)
    BY <1>1, <1>2, PluginsAssumption DEF Users, Inside
  <1>6. t \in Users(q)
    BY <1>1 DEF Users, Inside
  <1>7. IsFiniteSet(Users(q))
    BY <1>3, AtMostAll
  <1>8. Cardinality(Users(q) \ {t}) = Cardinality(Users(q)) - 1
    BY <1>6, <1>7, FS_RemoveElement
  <1>9. \A p \in Plugins : refcount[p] = Cardinality(Users(p))
    BY DEF RefcountExact, Users
  <1>10. \A p \in Plugins : refcount'[p] = Cardinality(Users(p)')
    <2>1. refcount'[q] = refcount[q] - 1
      BY <1>1, <1>2
    <2>2. \A p \in Plugins \ {q} : refcount'[p] = refcount[p]
      BY <1>1, <1>2
    <2>3. refcount'[q] = Cardinality(Users(q)')
      BY <2>1, <1>4, <1>8, <1>9
    <2> QED
      BY <2>2, <2>3, <1>5, <1>9
  <1>11. \A p \in Plugins : Cardinality(Users(p)') \in 0..Cardinality(Threads)
    BY <1>3, AtMostAll
  <1>12. refcount' \in [Plugins -> 0..Cardinality(Threads)]
    BY <1>1, <1>2, <1>10, <1>11
  <1>13. RefcountExact'
    BY <1>10 DEF RefcountExact, Users
  <1>14. refcount[q] # 0
    BY <1>1, <1>6, NobodyInside DEF Users
  <1> QED
    BY <1>12, <1>13, <1>14

\* One case per action, and under it one step per part of the invariant.
LEMMA IInvNext == IInv /\ [Next]_vars => IInv'
  <1> SUFFICES ASSUME IInv, [Next]_vars PROVE IInv'
    OBVIOUS
  <1> USE PluginsAssumption, ThreadsAssumption DEF IInv, pluginVars, refVars,
          threadVars, callVars, unloadVars, simVars, lockVars, gameVars, Goto, IoReturns,
          Threads, Callers

  <1>1. ASSUME NEW p \in Plugins, LoadCall(p) PROVE IInv'
    <2> USE <1>1 DEF LoadCall
    <2>1. TypeOK'
      BY DEF TypeOK, AL!TypeOK, States, Inside, Holding, Where, Stage
    <2>2. Where' /\ Locked'
      BY DEF Where, TypeOK, Inside, Holding, Table, Locked
    <2>3. RefcountExact'
      BY SameReferences DEF TypeOK, Where, Inside, Holding
    <2>4. Stage' /\ Calls'
      BY DEF Stage, TypeOK, Where, Holding, Calls, InLibrary, Known
    <2>5. Table' /\ Owning' /\ Guards'
      BY DEF Table, BelongsExact, TypeOK, Where, Stage, Owning, AL!TypeOK,
         Guards, GuardHolds
    <2>6. Knowing'
      BY DEF Knowing, WillBeTold, Starting, TypeOK, Where, Stage, Locked, Pass
    <2> QED
      BY <2>1, <2>2, <2>3, <2>4, <2>5, <2>6
  <1>2. ASSUME LoadLock PROVE IInv'
    <2> USE <1>2 DEF LoadLock
    <2>1. TypeOK'
      <3>1. on["io"] \in Plugins
        BY DEF Where
      <3>2. \/ pc' = [pc EXCEPT !["io"] = "open"]
            \/ pc' = [pc EXCEPT !["io"] = "idle"]
        BY <3>1
      <3>3. (pc \in [Threads -> States])'
        BY <3>2 DEF TypeOK, States, Inside, Holding
      <3>4. (mut \in [Plugins -> BOOLEAN])'
        BY <3>1 DEF TypeOK
      <3>5. (on \in [Threads -> Plugins \cup {None}])'
        BY DEF TypeOK
      <3> QED
        BY <3>3, <3>4, <3>5 DEF TypeOK, AL!TypeOK
    <2>2. Where' /\ Locked'
      BY DEF Where, TypeOK, Inside, Holding, Table, Locked
    <2>3. RefcountExact'
      BY SameReferences DEF TypeOK, Where, Inside, Holding
    <2>4. Stage' /\ Calls'
      BY DEF Stage, TypeOK, Where, Holding, Calls, InLibrary, Known
    <2>5. Table' /\ Guards'
      BY DEF Table, BelongsExact, TypeOK, Where, Stage, Guards, GuardHolds,
         Owning
    <2>6. Owning'
      <3>1. \A t \in Invokers :
              pc'[t] \in {"suspend", "ask"} <=> pc[t] \in {"suspend", "ask"}
        BY DEF TypeOK
      <3>2. \A t \in Invokers :
              pc'[t] \in {"guard", "own"} <=> pc[t] \in {"guard", "own"}
        BY DEF TypeOK
      <3>3. pc'["sim"] = pc["sim"]
        BY DEF TypeOK
      <3> QED
        BY <3>1, <3>2, <3>3 DEF Owning
    <2>7. Knowing'
      BY DEF Knowing, WillBeTold, Starting, TypeOK, Where, Stage, Locked, Pass
    <2> QED
      BY <2>1, <2>2, <2>3, <2>4, <2>5, <2>6, <2>7
  <1>3. ASSUME LoadOpen PROVE IInv'
    <2> USE <1>3 DEF LoadOpen
    <2>1. TypeOK'
      <3>1. on["io"] \in Plugins
        BY DEF Where
      <3>2. (state \in [Plugins -> {"PS_UNLOADED", "PS_LOADED", "PS_BROKEN"}])'
        BY <3>1 DEF TypeOK, AL!TypeOK, States, Inside, Holding
      <3>3. (library \in [Plugins -> BOOLEAN])'
        BY <3>1 DEF TypeOK, AL!TypeOK, States, Inside, Holding
      <3>4. (mut \in [Plugins -> BOOLEAN])'
        BY <3>1 DEF TypeOK, AL!TypeOK, States, Inside, Holding
      <3>5. (pc \in [Threads -> States])'
        BY <3>1 DEF TypeOK, AL!TypeOK, States, Inside, Holding
      <3>6. (on \in [Threads -> Plugins \cup {None}])'
        BY <3>1 DEF TypeOK, AL!TypeOK, States, Inside, Holding
      <3>7. (knows \in [Plugins -> BOOLEAN])'
        BY <3>1 DEF TypeOK, AL!TypeOK, States, Inside, Holding
      <3> QED
        BY <3>2, <3>3, <3>4, <3>5, <3>6, <3>7 DEF TypeOK, AL!TypeOK
    <2>2. Where' /\ Locked'
      BY DEF Where, TypeOK, Inside, Holding, Table, Locked
    <2>3. RefcountExact'
      BY SameReferences DEF TypeOK, Where, Inside, Holding
    <2>4. Stage'
      BY DEF Stage, TypeOK, Where, Holding
    <2>7. Calls'
      <3>1. \A t \in Threads : pc'[t] \in InLibrary =>
              pc[t] \in InLibrary /\ on'[t] = on[t] /\ on[t] # on["io"]
        BY DEF Calls, TypeOK, Where, InLibrary, Stage
      <3>2. /\ commands' = commands /\ cmd' = cmd
            /\ \A p \in Plugins \ {on["io"]} : state'[p] = state[p]
        BY DEF TypeOK
      <3> QED
        BY <3>1, <3>2 DEF Calls, Where, InLibrary
    <2>5. Table' /\ Owning' /\ Guards'
      BY DEF Table, BelongsExact, TypeOK, Where, Stage, Owning, AL!TypeOK,
         Guards, GuardHolds
    <2>6. Knowing'
      BY DEF Knowing, WillBeTold, Starting, TypeOK, Where, Stage, Locked, Pass
    <2> QED
      BY <2>1, <2>2, <2>3, <2>4, <2>5, <2>6, <2>7
  <1>4. ASSUME LoadInit PROVE IInv'
    <2> USE <1>4 DEF LoadInit
    <2>1. TypeOK'
      <3>1. on["io"] \in Plugins
        BY DEF Where
      <3>2. (state \in [Plugins -> {"PS_UNLOADED", "PS_LOADED", "PS_BROKEN"}])'
        BY <3>1 DEF TypeOK, AL!TypeOK, States, Inside, Holding
      <3>3. (library \in [Plugins -> BOOLEAN])'
        BY <3>1 DEF TypeOK, AL!TypeOK, States, Inside, Holding
      <3>4. (commands \in [Plugins -> SUBSET Commands])'
        BY <3>1 DEF TypeOK, AL!TypeOK, States, Inside, Holding
      <3>5. (mut \in [Plugins -> BOOLEAN])'
        BY <3>1 DEF TypeOK, AL!TypeOK, States, Inside, Holding
      <3>6. (pc \in [Threads -> States])'
        BY <3>1 DEF TypeOK, AL!TypeOK, States, Inside, Holding
      <3>7. (on \in [Threads -> Plugins \cup {None}])'
        BY <3>1 DEF TypeOK, AL!TypeOK, States, Inside, Holding
      <3> QED
        BY <3>2, <3>3, <3>4, <3>5, <3>6, <3>7 DEF TypeOK, AL!TypeOK
    <2>2. Where' /\ Locked'
      BY DEF Where, TypeOK, Inside, Holding, Table, Locked
    <2>3. RefcountExact'
      BY SameReferences DEF TypeOK, Where, Inside, Holding
    <2>4. Stage'
      BY DEF Stage, TypeOK, Where, Holding
    <2>5. Calls'
      <3>1. \A t \in Threads : pc'[t] \in InLibrary =>
              pc[t] \in InLibrary /\ on'[t] = on[t] /\ on[t] # on["io"]
        BY DEF Calls, TypeOK, Where, InLibrary, Stage
      <3>2. /\ cmd' = cmd
            /\ \A p \in Plugins \ {on["io"]} :
                 state'[p] = state[p] /\ commands'[p] = commands[p]
        BY DEF TypeOK
      <3> QED
        BY <3>1, <3>2 DEF Calls, Where, InLibrary
    <2>6. Table' /\ Owning' /\ Guards'
      BY DEF Table, BelongsExact, TypeOK, Where, Stage, Owning, AL!TypeOK,
         Guards, GuardHolds
    <2>7. Knowing'
      BY DEF Knowing, WillBeTold, Starting, TypeOK, Where, Stage, Locked, Pass
    <2> QED
      BY <2>1, <2>2, <2>3, <2>4, <2>5, <2>6, <2>7
  <1>5. ASSUME LoadRegister PROVE IInv'
    <2> USE <1>5 DEF LoadRegister
    <2>1. TypeOK'
      BY DEF TypeOK, AL!TypeOK, States, Inside, Holding, Where, Stage
    <2>2. Where' /\ Locked'
      BY DEF Where, TypeOK, Inside, Holding, Table, Locked
    <2>3. RefcountExact'
      BY SameReferences DEF TypeOK, Where, Inside, Holding
    <2>4. Stage' /\ Calls'
      BY DEF Stage, TypeOK, Where, Holding, Calls, InLibrary, Known
    <2>5. Table' /\ Owning' /\ Guards'
      BY DEF Table, BelongsExact, TypeOK, Where, Stage, Owning, AL!TypeOK,
         Guards, GuardHolds
    <2>6. Knowing'
      BY DEF Knowing, WillBeTold, Starting, TypeOK, Where, Stage, Locked, Pass
    <2> QED
      BY <2>1, <2>2, <2>3, <2>4, <2>5, <2>6
  <1>6. ASSUME NEW p \in Plugins, NEW re \in BOOLEAN, UnloadCall(p, re)
        PROVE  IInv'
    <2> USE <1>6 DEF UnloadCall
    <2>1. TypeOK'
      BY DEF TypeOK, AL!TypeOK, States, Inside, Holding, Where, Stage
    <2>2. Where' /\ Locked'
      BY DEF Where, TypeOK, Inside, Holding, Table, Locked
    <2>3. RefcountExact'
      BY SameReferences DEF TypeOK, Where, Inside, Holding
    <2>4. Stage' /\ Calls'
      BY DEF Stage, TypeOK, Where, Holding, Calls, InLibrary, Known
    <2>5. Table' /\ Owning' /\ Guards'
      BY DEF Table, BelongsExact, TypeOK, Where, Stage, Owning, AL!TypeOK,
         Guards, GuardHolds
    <2>6. Knowing'
      BY DEF Knowing, WillBeTold, Starting, TypeOK, Where, Stage, Locked, Pass
    <2> QED
      BY <2>1, <2>2, <2>3, <2>4, <2>5, <2>6
  <1>7. ASSUME UnloadLock PROVE IInv'
    <2> USE <1>7 DEF UnloadLock
    <2>1. TypeOK'
      <3>1. on["io"] \in Plugins
        BY DEF Where
      <3>2. \/ pc' = [pc EXCEPT !["io"] = "shutdown"]
            \/ pc' = [pc EXCEPT !["io"] = "idle"]
        BY <3>1
      <3>3. (pc \in [Threads -> States])'
        BY <3>2 DEF TypeOK, States, Inside, Holding
      <3>4. (mut \in [Plugins -> BOOLEAN])'
        BY <3>1 DEF TypeOK
      <3>5. (on \in [Threads -> Plugins \cup {None}])'
        BY DEF TypeOK
      <3> QED
        BY <3>3, <3>4, <3>5 DEF TypeOK, AL!TypeOK
    <2>2. Where'
      BY DEF Where, TypeOK, Inside, Holding
    <2>7. Locked'
      BY DEF Where, TypeOK, Holding, Locked
    <2>3. RefcountExact'
      BY SameReferences DEF TypeOK, Where, Inside, Holding
    <2>4. Stage' /\ Calls'
      BY DEF Stage, TypeOK, Where, Holding, Calls, InLibrary, Known
    <2>5. Table' /\ Owning' /\ Guards'
      BY DEF Table, BelongsExact, TypeOK, Where, Stage, Owning, AL!TypeOK,
         Guards, GuardHolds
    <2>6. Knowing'
      BY DEF Knowing, WillBeTold, Starting, TypeOK, Where, Stage, Locked, Pass
    <2> QED
      BY <2>1, <2>2, <2>3, <2>4, <2>5, <2>6, <2>7
  <1>8. ASSUME UnloadShutdown PROVE IInv'
    <2> USE <1>8 DEF UnloadShutdown
    <2>1. TypeOK'
      BY DEF TypeOK, AL!TypeOK, States, Inside, Holding, Where, Stage
    <2>2. Where' /\ Locked'
      BY DEF Where, TypeOK, Inside, Holding, Table, Locked
    <2>3. RefcountExact'
      BY SameReferences DEF TypeOK, Where, Inside, Holding
    <2>4. Stage' /\ Calls'
      BY DEF Stage, TypeOK, Where, Holding, Calls, InLibrary, Known
    <2>5. Table' /\ Owning' /\ Guards'
      BY DEF Table, BelongsExact, TypeOK, Where, Stage, Owning, AL!TypeOK,
         Guards, GuardHolds
    <2>6. Knowing'
      BY DEF Knowing, WillBeTold, Starting, TypeOK, Where, Stage, Locked, Pass
    <2> QED
      BY <2>1, <2>2, <2>3, <2>4, <2>5, <2>6
  <1>9. ASSUME UnloadDrain PROVE IInv'
    <2> USE <1>9 DEF UnloadDrain
    <2>1. TypeOK'
      <3>1. on["io"] \in Plugins
        BY DEF Where
      <3>2. (mut \in [Plugins -> BOOLEAN])'
        BY <3>1 DEF TypeOK, AL!TypeOK, States, Inside, Holding
      <3>3. (pc \in [Threads -> States])'
        BY <3>1 DEF TypeOK, AL!TypeOK, States, Inside, Holding
      <3> QED
        BY <3>2, <3>3 DEF TypeOK, AL!TypeOK
    <2>2. Where' /\ Locked'
      BY DEF Where, TypeOK, Inside, Holding, Table, Locked
    <2>3. RefcountExact'
      BY SameReferences DEF TypeOK, Where, Inside, Holding
    <2>4. Stage' /\ Calls'
      BY DEF Stage, TypeOK, Where, Holding, Calls, InLibrary, Known
    <2>5. Table' /\ Owning' /\ Guards'
      BY DEF Table, BelongsExact, TypeOK, Where, Stage, Owning, AL!TypeOK,
         Guards, GuardHolds
    <2>6. Knowing'
      BY DEF Knowing, WillBeTold, Starting, TypeOK, Where, Stage, Locked, Pass
    <2> QED
      BY <2>1, <2>2, <2>3, <2>4, <2>5, <2>6
  <1>10. ASSUME UnloadSpurious PROVE IInv'
    <2> USE <1>10 DEF UnloadSpurious
    <2>1. TypeOK'
      BY DEF TypeOK, AL!TypeOK, States, Inside, Holding, Where, Stage
    <2>2. Where' /\ Locked'
      BY DEF Where, TypeOK, Inside, Holding, Table, Locked
    <2>3. RefcountExact'
      BY SameReferences DEF TypeOK, Where, Inside, Holding
    <2>4. Stage' /\ Calls'
      BY DEF Stage, TypeOK, Where, Holding, Calls, InLibrary, Known
    <2>5. Table' /\ Owning' /\ Guards'
      BY DEF Table, BelongsExact, TypeOK, Where, Stage, Owning, AL!TypeOK,
         Guards, GuardHolds
    <2>6. Knowing'
      BY DEF Knowing, WillBeTold, Starting, TypeOK, Where, Stage, Locked, Pass
    <2> QED
      BY <2>1, <2>2, <2>3, <2>4, <2>5, <2>6
  <1>11. ASSUME UnloadAwake PROVE IInv'
    <2> USE <1>11 DEF UnloadAwake
    <2>1. TypeOK'
      BY DEF TypeOK, AL!TypeOK, States, Inside, Holding, Where, Stage
    <2>2. Where' /\ Locked'
      BY DEF Where, TypeOK, Inside, Holding, Table, Locked
    <2>3. RefcountExact'
      BY SameReferences DEF TypeOK, Where, Inside, Holding
    <2>4. Stage' /\ Calls'
      BY DEF Stage, TypeOK, Where, Holding, Calls, InLibrary, Known
    <2>5. Table' /\ Owning' /\ Guards'
      BY DEF Table, BelongsExact, TypeOK, Where, Stage, Owning, AL!TypeOK,
         Guards, GuardHolds
    <2>6. Knowing'
      BY DEF Knowing, WillBeTold, Starting, TypeOK, Where, Stage, Locked, Pass
    <2> QED
      BY <2>1, <2>2, <2>3, <2>4, <2>5, <2>6
  <1>12. ASSUME UnloadUnregister PROVE IInv'
    <2> USE <1>12 DEF UnloadUnregister
    <2>1. TypeOK'
      BY DEF TypeOK, AL!TypeOK, States, Inside, Holding, Where, Stage
    <2>2. Where' /\ Locked'
      BY DEF Where, TypeOK, Inside, Holding, Table, Locked
    <2>3. RefcountExact'
      BY SameReferences DEF TypeOK, Where, Inside, Holding
    <2>4. Stage' /\ Calls'
      BY DEF Stage, TypeOK, Where, Holding, Calls, InLibrary, Known
    <2>5. Table' /\ Owning' /\ Guards'
      BY DEF Table, BelongsExact, TypeOK, Where, Stage, Owning, AL!TypeOK,
         Guards, GuardHolds
    <2>6. Knowing'
      BY DEF Knowing, WillBeTold, Starting, TypeOK, Where, Stage, Locked, Pass
    <2> QED
      BY <2>1, <2>2, <2>3, <2>4, <2>5, <2>6
  <1>13. ASSUME UnloadClose PROVE IInv'
    <2> USE <1>13 DEF UnloadClose
    <2>a. on["io"] \in Plugins /\ refcount[on["io"]] = 0
      BY DEF Where, Stage
    <2>b. \A t \in Threads : on[t] = on["io"] => pc[t] \notin Inside
      BY <2>a, NobodyInside
    <2>1. TypeOK'
      <3>1. on["io"] \in Plugins
        BY DEF Where
      <3>2. (state \in [Plugins -> {"PS_UNLOADED", "PS_LOADED", "PS_BROKEN"}])'
        BY <3>1 DEF TypeOK, AL!TypeOK, States, Inside, Holding
      <3>3. (library \in [Plugins -> BOOLEAN])'
        BY <3>1 DEF TypeOK, AL!TypeOK, States, Inside, Holding
      <3>4. (mut \in [Plugins -> BOOLEAN])'
        BY <3>1 DEF TypeOK, AL!TypeOK, States, Inside, Holding
      <3>5. (pc \in [Threads -> States])'
        BY <3>1 DEF TypeOK, AL!TypeOK, States, Inside, Holding
      <3>6. (on \in [Threads -> Plugins \cup {None}])'
        BY <3>1 DEF TypeOK, AL!TypeOK, States, Inside, Holding
      <3> QED
        BY <3>2, <3>3, <3>4, <3>5, <3>6 DEF TypeOK, AL!TypeOK
    <2>2. Where' /\ Locked'
      BY DEF Where, TypeOK, Inside, Holding, Table, Locked
    <2>3. RefcountExact'
      BY SameReferences DEF TypeOK, Where, Inside, Holding
    <2>4. Stage'
      BY DEF Stage, TypeOK, Where, Holding
    <2>5. Calls'
      <3>1. "io" \in Threads /\ pc'["io"] \notin InLibrary
        BY DEF TypeOK, InLibrary
      <3>2. ASSUME NEW t \in Threads, pc'[t] \in InLibrary
            PROVE  /\ state'[on'[t]] = "PS_LOADED"
                   /\ t \in Callers => cmd'[t] \in commands'[on'[t]]
        <4>1. t # "io" /\ pc'[t] = pc[t] /\ on'[t] = on[t]
          BY <3>1, <3>2 DEF TypeOK
        <4>2. on[t] # on["io"]
          BY <2>b, <3>2, <4>1 DEF Inside, InLibrary
        <4>3. state'[on[t]] = state[on[t]]
          BY <4>2 DEF TypeOK
        <4> QED
          BY <3>2, <4>1, <4>3 DEF Calls
      <3> QED
        BY <3>2 DEF Calls
    <2>6. Table' /\ Owning' /\ Guards'
      BY DEF Table, BelongsExact, TypeOK, Where, Stage, Owning, AL!TypeOK,
         Guards, GuardHolds
    <2>7. Knowing'
      BY DEF Knowing, WillBeTold, Starting, TypeOK, Where, Stage, Locked, Pass
    <2> QED
      BY <2>1, <2>2, <2>3, <2>4, <2>5, <2>6, <2>7
  <1>14. ASSUME NEW t \in Callers, NEW c \in Commands, Lookup(t, c) PROVE IInv'
    <2> USE <1>14 DEF Lookup
    <2>1. TypeOK'
      BY DEF TypeOK, AL!TypeOK, States, Inside, Holding, Where, Stage
    <2>2. Where' /\ Locked'
      BY DEF Where, TypeOK, Inside, Holding, Table, Locked
    <2>3. RefcountExact'
      BY SameReferences DEF TypeOK, Where, Inside, Holding
    <2>4. Stage' /\ Calls'
      BY DEF Stage, TypeOK, Where, Holding, Calls, InLibrary, Known
    <2>5. Table' /\ Owning' /\ Guards'
      BY DEF Table, BelongsExact, TypeOK, Where, Stage, Owning, AL!TypeOK,
         Guards, GuardHolds
    <2>6. Knowing'
      BY DEF Knowing, WillBeTold, Starting, TypeOK, Where, Stage, Locked, Pass
    <2> QED
      BY <2>1, <2>2, <2>3, <2>4, <2>5, <2>6
  <1>15. ASSUME NEW t \in Threads, Enter(t) PROVE IInv'
    <2> USE <1>15 DEF Enter
    <2>a. on[t] \in Plugins /\ pc[t] \notin Inside
      BY DEF Where, Inside
    <2>b. /\ refcount' \in [Plugins -> 0..Cardinality(Threads)]
          /\ RefcountExact'
      BY <2>a, OneMore
    <2>c. \A p \in Plugins : refcount'[p] # refcount[p] => ~mut[p]
      BY <2>a DEF TypeOK
    <2>1. TypeOK'
      BY <2>a, <2>b DEF TypeOK, AL!TypeOK, States, Inside, Holding
    <2>2. Where' /\ Locked'
      BY DEF Where, TypeOK, Inside, Holding, Table, Locked
    <2>3. RefcountExact'
      BY <2>b
    <2>4. Stage'
      BY <2>c DEF Stage, TypeOK, Where, Locked, Holding
    <2>5. Calls'
      BY DEF Calls, TypeOK, Where, InLibrary, Stage, Known
    <2>6. Table' /\ Owning' /\ Guards'
      BY DEF Table, BelongsExact, TypeOK, Where, Stage, Owning, AL!TypeOK,
         Guards, GuardHolds
    <2>7. Knowing'
      <3>1. pc'["sim"] # "idle" => pc["sim"] # "idle"
        BY DEF TypeOK
      <3>2. \A p \in Plugins : Starting(p)' <=> Starting(p)
        BY DEF Starting, TypeOK
      <3>3. ASSUME NEW p \in Plugins, WillBeTold(p),
                   state[p] = "PS_LOADED" \/ Starting(p)
            PROVE  WillBeTold(p)'
        <4>1. CASE t # "sim"
          BY <3>3, <4>1 DEF WillBeTold, TypeOK
        <4>2. CASE t = "sim" /\ on["sim"] # p
          BY <3>3, <4>2 DEF WillBeTold, TypeOK
        <4>3. CASE t = "sim" /\ on["sim"] = p
          <5>1. state[p] = "PS_LOADED"
            BY <3>3, <4>3 DEF Starting, Locked, Holding
          <5> QED
            BY <3>3, <4>3, <5>1 DEF WillBeTold, TypeOK
        <4> QED
          BY <4>1, <4>2, <4>3
      <3> QED
        BY <3>1, <3>2, <3>3 DEF Knowing
    <2> QED
      BY <2>1, <2>2, <2>3, <2>4, <2>5, <2>6, <2>7
  <1>16. ASSUME NEW t \in Threads, Leave(t) PROVE IInv'
    <2> USE <1>16 DEF Leave
    <2>a. on[t] \in Plugins
      BY DEF Where
    <2>b. /\ refcount' \in [Plugins -> 0..Cardinality(Threads)]
          /\ RefcountExact'
          /\ refcount[on[t]] # 0
      BY <2>a, OneLess
    <2>1. TypeOK'
      <3>1. (pc \in [Threads -> States])'
        BY DEF TypeOK, States, Inside, Holding
      <3>2. (on \in [Threads -> Plugins \cup {None}])'
        BY DEF TypeOK
      <3>3. (cmd \in [Threads -> Commands \cup {None}])'
        BY DEF TypeOK
      <3> QED
        BY <2>b, <3>1, <3>2, <3>3 DEF TypeOK, AL!TypeOK
    <2>2. Where' /\ Locked'
      BY DEF Where, TypeOK, Inside, Holding, Table, Locked
    <2>3. RefcountExact'
      BY <2>b
    <2>4. Stage'
      <3>1. pc'["io"] \in {"unregister", "close"} =>
              refcount'[on'["io"]] = refcount[on["io"]] /\ on'["io"] = on["io"]
        BY <2>a, <2>b DEF Stage, TypeOK, Where, Holding
      <3> QED
        BY <2>b, <3>1 DEF Stage, TypeOK, Where, Holding
    <2>5. Calls'
      BY DEF Calls, TypeOK, Where, InLibrary, Stage, Known
    <2>6. Table' /\ Owning' /\ Guards'
      BY DEF Table, BelongsExact, TypeOK, Where, Stage, Owning, AL!TypeOK,
         Guards, GuardHolds
    <2>7. Knowing'
      BY DEF Knowing, WillBeTold, Starting, TypeOK, Where, Stage, Locked, Pass
    <2> QED
      BY <2>1, <2>2, <2>3, <2>4, <2>5, <2>6, <2>7
  <1>17. ASSUME NEW t \in Invokers, InvokeCheck(t) PROVE IInv'
    <2> USE <1>17 DEF InvokeCheck, AL!Request
    <2>1. TypeOK'
      <3>1. on[t] \in Plugins
        BY DEF Where
      <3>2. (pc \in [Threads -> States])'
        BY <3>1 DEF TypeOK, AL!TypeOK, States, Inside, Holding
      <3>3. (AL!TypeOK)'
        BY <3>1 DEF TypeOK, AL!TypeOK, States, Inside, Holding
      <3> QED
        BY <3>2, <3>3 DEF TypeOK, AL!TypeOK
    <2>2. Where' /\ Locked'
      BY DEF Where, TypeOK, Inside, Holding, Table, Locked
    <2>3. RefcountExact'
      BY SameReferences DEF TypeOK, Where, Inside, Holding
    <2>4. Stage' /\ Calls'
      BY DEF Stage, TypeOK, Where, Holding, Calls, InLibrary, Known
    <2>5. Table' /\ Owning' /\ Guards'
      BY DEF Table, BelongsExact, TypeOK, Where, Stage, Owning, AL!TypeOK,
         Guards, GuardHolds
    <2>6. Knowing'
      BY DEF Knowing, WillBeTold, Starting, TypeOK, Where, Stage, Locked, Pass
    <2> QED
      BY <2>1, <2>2, <2>3, <2>4, <2>5, <2>6
  <1>18. ASSUME NEW t \in Invokers, Suspended(t) PROVE IInv'
    <2> USE <1>18 DEF Suspended, AL!Grant, AL!Owners
    <2>1. TypeOK'
      BY DEF TypeOK, AL!TypeOK, States, Inside, Holding, Where, Stage
    <2>2. Where' /\ Locked'
      BY DEF Where, TypeOK, Inside, Holding, Table, Locked
    <2>3. RefcountExact'
      BY SameReferences DEF TypeOK, Where, Inside, Holding
    <2>4. Stage' /\ Calls'
      BY DEF Stage, TypeOK, Where, Holding, Calls, InLibrary, Known
    <2>5. Table' /\ Owning' /\ Guards'
      BY DEF Table, BelongsExact, TypeOK, Where, Stage, Owning, AL!TypeOK,
         Guards, GuardHolds
    <2>6. Knowing'
      BY DEF Knowing, WillBeTold, Starting, TypeOK, Where, Stage, Locked, Pass
    <2> QED
      BY <2>1, <2>2, <2>3, <2>4, <2>5, <2>6
  <1>19. ASSUME NEW t \in Invokers, InvokeGuard(t) PROVE IInv'
    <2> USE <1>19 DEF InvokeGuard, AL!Release
    <2>1. TypeOK'
      <3>1. on[t] \in Plugins
        BY DEF Where
      <3>2. (pc \in [Threads -> States])'
        BY <3>1 DEF TypeOK, AL!TypeOK, States, Inside, Holding
      <3>3. (AL!TypeOK)'
        BY <3>1 DEF TypeOK, AL!TypeOK, States, Inside, Holding
      <3> QED
        BY <3>2, <3>3 DEF TypeOK, AL!TypeOK
    <2>2. Where' /\ Locked'
      BY DEF Where, TypeOK, Inside, Holding, Table, Locked
    <2>3. RefcountExact'
      BY SameReferences DEF TypeOK, Where, Inside, Holding
    <2>4. Stage' /\ Calls'
      BY DEF Stage, TypeOK, Where, Holding, Calls, InLibrary, Known
    <2>5. Table' /\ Owning' /\ Guards'
      BY DEF Table, BelongsExact, TypeOK, Where, Stage, Owning, AL!TypeOK,
         Guards, GuardHolds
    <2>6. Knowing'
      BY DEF Knowing, WillBeTold, Starting, TypeOK, Where, Stage, Locked, Pass
    <2> QED
      BY <2>1, <2>2, <2>3, <2>4, <2>5, <2>6
  <1>20. ASSUME NEW t \in Invokers, FunctionSuspends(t) PROVE IInv'
    <2> USE <1>20 DEF FunctionSuspends, AL!Request
    <2>1. TypeOK'
      BY DEF TypeOK, AL!TypeOK, States, Inside, Holding, Where, Stage
    <2>2. Where' /\ Locked'
      BY DEF Where, TypeOK, Inside, Holding, Table, Locked
    <2>3. RefcountExact'
      BY SameReferences DEF TypeOK, Where, Inside, Holding
    <2>4. Stage' /\ Calls'
      BY DEF Stage, TypeOK, Where, Holding, Calls, InLibrary, Known
    <2>5. Table' /\ Owning' /\ Guards'
      BY DEF Table, BelongsExact, TypeOK, Where, Stage, Owning, AL!TypeOK,
         Guards, GuardHolds
    <2>6. Knowing'
      BY DEF Knowing, WillBeTold, Starting, TypeOK, Where, Stage, Locked, Pass
    <2> QED
      BY <2>1, <2>2, <2>3, <2>4, <2>5, <2>6
  <1>21. ASSUME NEW t \in Invokers, FunctionResumes(t) PROVE IInv'
    <2> USE <1>21 DEF FunctionResumes, AL!Release
    <2>1. TypeOK'
      BY DEF TypeOK, AL!TypeOK, States, Inside, Holding, Where, Stage
    <2>2. Where' /\ Locked'
      BY DEF Where, TypeOK, Inside, Holding, Table, Locked
    <2>3. RefcountExact'
      BY SameReferences DEF TypeOK, Where, Inside, Holding
    <2>4. Stage' /\ Calls'
      BY DEF Stage, TypeOK, Where, Holding, Calls, InLibrary, Known
    <2>5. Table' /\ Owning' /\ Guards'
      BY DEF Table, BelongsExact, TypeOK, Where, Stage, Owning, AL!TypeOK,
         Guards, GuardHolds
    <2>6. Knowing'
      BY DEF Knowing, WillBeTold, Starting, TypeOK, Where, Stage, Locked, Pass
    <2> QED
      BY <2>1, <2>2, <2>3, <2>4, <2>5, <2>6
  <1>22. ASSUME NEW t \in Invokers, FunctionReturns(t) PROVE IInv'
    <2> USE <1>22 DEF FunctionReturns
    <2>1. TypeOK'
      BY DEF TypeOK, AL!TypeOK, States, Inside, Holding, Where, Stage
    <2>2. Where' /\ Locked'
      BY DEF Where, TypeOK, Inside, Holding, Table, Locked
    <2>3. RefcountExact'
      BY SameReferences DEF TypeOK, Where, Inside, Holding
    <2>4. Stage' /\ Calls'
      BY DEF Stage, TypeOK, Where, Holding, Calls, InLibrary, Known
    <2>5. Table' /\ Owning' /\ Guards'
      BY DEF Table, BelongsExact, TypeOK, Where, Stage, Owning, AL!TypeOK,
         Guards, GuardHolds
    <2>6. Knowing'
      BY DEF Knowing, WillBeTold, Starting, TypeOK, Where, Stage, Locked, Pass
    <2> QED
      BY <2>1, <2>2, <2>3, <2>4, <2>5, <2>6
  <1>23. ASSUME NEW t \in Watchers, HotkeyCheck(t) PROVE IInv'
    <2> USE <1>23 DEF HotkeyCheck
    <2>1. TypeOK'
      <3>1. on[t] \in Plugins
        BY DEF Where
      <3>2. (pc \in [Threads -> States])'
        BY <3>1 DEF TypeOK, AL!TypeOK, States, Inside, Holding
      <3> QED
        BY <3>2 DEF TypeOK, AL!TypeOK
    <2>2. Where' /\ Locked'
      BY DEF Where, TypeOK, Inside, Holding, Table, Locked
    <2>3. RefcountExact'
      BY SameReferences DEF TypeOK, Where, Inside, Holding
    <2>4. Stage' /\ Calls'
      BY DEF Stage, TypeOK, Where, Holding, Calls, InLibrary, Known
    <2>5. Table' /\ Owning' /\ Guards'
      BY DEF Table, BelongsExact, TypeOK, Where, Stage, Owning, AL!TypeOK,
         Guards, GuardHolds
    <2>6. Knowing'
      BY DEF Knowing, WillBeTold, Starting, TypeOK, Where, Stage, Locked, Pass
    <2> QED
      BY <2>1, <2>2, <2>3, <2>4, <2>5, <2>6
  <1>24. ASSUME NEW t \in Watchers, HotkeyGuardReturns(t) PROVE IInv'
    <2> USE <1>24 DEF HotkeyGuardReturns
    <2>1. TypeOK'
      BY DEF TypeOK, AL!TypeOK, States, Inside, Holding, Where, Stage
    <2>2. Where' /\ Locked'
      BY DEF Where, TypeOK, Inside, Holding, Table, Locked
    <2>3. RefcountExact'
      BY SameReferences DEF TypeOK, Where, Inside, Holding
    <2>4. Stage' /\ Calls'
      BY DEF Stage, TypeOK, Where, Holding, Calls, InLibrary, Known
    <2>5. Table' /\ Owning' /\ Guards'
      BY DEF Table, BelongsExact, TypeOK, Where, Stage, Owning, AL!TypeOK,
         Guards, GuardHolds
    <2>6. Knowing'
      BY DEF Knowing, WillBeTold, Starting, TypeOK, Where, Stage, Locked, Pass
    <2> QED
      BY <2>1, <2>2, <2>3, <2>4, <2>5, <2>6
  <1>25. ASSUME GameRuns PROVE IInv'
    <2> USE <1>25 DEF GameRuns
    <2>1. TypeOK'
      BY DEF TypeOK, AL!TypeOK, States, Inside, Holding, Where, Stage
    <2>2. Where' /\ Locked'
      BY DEF Where, TypeOK, Inside, Holding, Table, Locked
    <2>3. RefcountExact'
      BY SameReferences DEF TypeOK, Where, Inside, Holding
    <2>4. Stage' /\ Calls'
      BY DEF Stage, TypeOK, Where, Holding, Calls, InLibrary, Known
    <2>5. Table' /\ Owning' /\ Guards'
      BY DEF Table, BelongsExact, TypeOK, Where, Stage, Owning, AL!TypeOK,
         Guards, GuardHolds
    <2>6. Knowing'
      BY DEF Knowing, WillBeTold, Starting, TypeOK, Where, Stage, Locked, Pass
    <2> QED
      BY <2>1, <2>2, <2>3, <2>4, <2>5, <2>6
  <1>26. ASSUME UpdateBegin PROVE IInv'
    <2> USE <1>26 DEF UpdateBegin
    <2>1. TypeOK'
      BY DEF TypeOK, AL!TypeOK, States, Inside, Holding, Where, Stage
    <2>2. Where' /\ Locked'
      BY DEF Where, TypeOK, Inside, Holding, Table, Locked
    <2>3. RefcountExact'
      BY SameReferences DEF TypeOK, Where, Inside, Holding
    <2>4. Stage' /\ Calls'
      BY DEF Stage, TypeOK, Where, Holding, Calls, InLibrary, Known
    <2>5. Table' /\ Owning' /\ Guards'
      BY DEF Table, BelongsExact, TypeOK, Where, Stage, Owning, AL!TypeOK,
         Guards, GuardHolds
    <2>6. Knowing'
      <3>1. /\ world' = last_world_data_ptr'
            /\ pc["sim"] = "idle"
        OBVIOUS
      <3>2. \A p \in Plugins : Starting(p)' <=> Starting(p)
        BY DEF Starting, TypeOK
      <3>3. \A p \in Plugins : state[p] = "PS_LOADED" \/ Starting(p) =>
              knows[p] = world \/ world # last_world_data_ptr
        BY <3>1 DEF Knowing, WillBeTold
      <3>4. \A p \in Plugins : world # last_world_data_ptr =>
                               "world" \in hooks' /\ p \in todo'
        OBVIOUS
      <3> QED
        BY <3>1, <3>2, <3>3, <3>4 DEF Knowing, WillBeTold, TypeOK
    <2> QED
      BY <2>1, <2>2, <2>3, <2>4, <2>5, <2>6
  <1>27. ASSUME NEW p \in Plugins, HookCall(p) PROVE IInv'
    <2> USE <1>27 DEF HookCall
    <2>1. TypeOK'
      BY DEF TypeOK, AL!TypeOK, States, Inside, Holding, Where, Stage
    <2>2. Where' /\ Locked'
      BY DEF Where, TypeOK, Inside, Holding, Table, Locked
    <2>3. RefcountExact'
      BY SameReferences DEF TypeOK, Where, Inside, Holding
    <2>4. Stage' /\ Calls'
      BY DEF Stage, TypeOK, Where, Holding, Calls, InLibrary, Known
    <2>5. Table' /\ Owning' /\ Guards'
      BY DEF Table, BelongsExact, TypeOK, Where, Stage, Owning, AL!TypeOK,
         Guards, GuardHolds
    <2>6. Knowing'
      BY DEF Knowing, WillBeTold, Starting, TypeOK, Where, Stage, Locked, Pass
    <2> QED
      BY <2>1, <2>2, <2>3, <2>4, <2>5, <2>6
  <1>28. ASSUME HookCheck PROVE IInv'
    <2> USE <1>28 DEF HookCheck
    <2>1. TypeOK'
      <3>1. on["sim"] \in Plugins
        BY DEF Where
      <3>2. (pc \in [Threads -> States])'
        BY <3>1 DEF TypeOK, AL!TypeOK, States, Inside, Holding
      <3>3. (knows \in [Plugins -> BOOLEAN])'
        BY <3>1 DEF TypeOK, AL!TypeOK, States, Inside, Holding
      <3> QED
        BY <3>2, <3>3 DEF TypeOK, AL!TypeOK
    <2>2. Where' /\ Locked'
      BY DEF Where, TypeOK, Inside, Holding, Table, Locked
    <2>3. RefcountExact'
      BY SameReferences DEF TypeOK, Where, Inside, Holding
    <2>4. Stage' /\ Calls'
      BY DEF Stage, TypeOK, Where, Holding, Calls, InLibrary, Known
    <2>5. Table' /\ Owning' /\ Guards'
      BY DEF Table, BelongsExact, TypeOK, Where, Stage, Owning, AL!TypeOK,
         Guards, GuardHolds
    <2>6. Knowing'
      BY DEF Knowing, WillBeTold, Starting, TypeOK, Where, Stage, Locked, Pass
    <2> QED
      BY <2>1, <2>2, <2>3, <2>4, <2>5, <2>6
  <1>29. ASSUME HookReturns PROVE IInv'
    <2> USE <1>29 DEF HookReturns
    <2>1. TypeOK'
      BY DEF TypeOK, AL!TypeOK, States, Inside, Holding, Where, Stage
    <2>2. Where' /\ Locked'
      BY DEF Where, TypeOK, Inside, Holding, Table, Locked
    <2>3. RefcountExact'
      BY SameReferences DEF TypeOK, Where, Inside, Holding
    <2>4. Stage' /\ Calls'
      BY DEF Stage, TypeOK, Where, Holding, Calls, InLibrary, Known
    <2>5. Table' /\ Owning' /\ Guards'
      BY DEF Table, BelongsExact, TypeOK, Where, Stage, Owning, AL!TypeOK,
         Guards, GuardHolds
    <2>6. Knowing'
      BY DEF Knowing, WillBeTold, Starting, TypeOK, Where, Stage, Locked, Pass
    <2> QED
      BY <2>1, <2>2, <2>3, <2>4, <2>5, <2>6
  <1>30. ASSUME PassEnds PROVE IInv'
    <2> USE <1>30 DEF PassEnds
    <2>1. TypeOK'
      BY DEF TypeOK, AL!TypeOK, States, Inside, Holding, Where, Stage
    <2>2. Where' /\ Locked'
      BY DEF Where, TypeOK, Inside, Holding, Table, Locked
    <2>3. RefcountExact'
      BY SameReferences DEF TypeOK, Where, Inside, Holding
    <2>4. Stage' /\ Calls'
      BY DEF Stage, TypeOK, Where, Holding, Calls, InLibrary, Known
    <2>5. Table' /\ Owning' /\ Guards'
      BY DEF Table, BelongsExact, TypeOK, Where, Stage, Owning, AL!TypeOK,
         Guards, GuardHolds
    <2>6. Knowing'
      BY DEF Knowing, WillBeTold, Starting, TypeOK, Where, Stage, Locked, Pass
    <2> QED
      BY <2>1, <2>2, <2>3, <2>4, <2>5, <2>6
  <1>31. ASSUME UpdateYields PROVE IInv'
    <2> USE <1>31 DEF UpdateYields, AL!Yield
    <2>1. TypeOK'
      BY DEF TypeOK, AL!TypeOK, States, Inside, Holding, Where, Stage
    <2>2. Where' /\ Locked'
      BY DEF Where, TypeOK, Inside, Holding, Table, Locked
    <2>3. RefcountExact'
      BY SameReferences DEF TypeOK, Where, Inside, Holding
    <2>4. Stage' /\ Calls'
      BY DEF Stage, TypeOK, Where, Holding, Calls, InLibrary, Known
    <2>5. Table' /\ Owning' /\ Guards'
      BY DEF Table, BelongsExact, TypeOK, Where, Stage, Owning, AL!TypeOK,
         Guards, GuardHolds
    <2>6. Knowing'
      BY DEF Knowing, WillBeTold, Starting, TypeOK, Where, Stage, Locked, Pass
    <2> QED
      BY <2>1, <2>2, <2>3, <2>4, <2>5, <2>6
  <1>32. ASSUME UpdateReturns PROVE IInv'
    <2> USE <1>32 DEF UpdateReturns, AL!Regain, AL!Owners
    <2>1. TypeOK'
      BY DEF TypeOK, AL!TypeOK, States, Inside, Holding, Where, Stage
    <2>2. Where' /\ Locked'
      BY DEF Where, TypeOK, Inside, Holding, Table, Locked
    <2>3. RefcountExact'
      BY SameReferences DEF TypeOK, Where, Inside, Holding
    <2>4. Stage' /\ Calls'
      BY DEF Stage, TypeOK, Where, Holding, Calls, InLibrary, Known
    <2>5. Table' /\ Owning' /\ Guards'
      BY DEF Table, BelongsExact, TypeOK, Where, Stage, Owning, AL!TypeOK,
         Guards, GuardHolds
    <2>6. Knowing'
      BY DEF Knowing, WillBeTold, Starting, TypeOK, Where, Stage, Locked, Pass
    <2> QED
      BY <2>1, <2>2, <2>3, <2>4, <2>5, <2>6
  <1>33. CASE UNCHANGED vars
    <2> USE <1>33 DEF vars
    <2>1. TypeOK'
      BY DEF TypeOK, AL!TypeOK
    <2>2. Where' /\ Locked'
      BY DEF Where, Locked
    <2>3. RefcountExact'
      BY SameReferences
    <2>4. Stage' /\ Calls'
      BY DEF Stage, Calls
    <2>5. Table' /\ Owning' /\ Guards'
      BY DEF Table, BelongsExact, Owning, Guards, GuardHolds
    <2>6. Knowing'
      BY DEF Knowing, WillBeTold, Starting
    <2> QED
      BY <2>1, <2>2, <2>3, <2>4, <2>5, <2>6
  <1> QED
    BY <1>1, <1>2, <1>3, <1>4, <1>5, <1>6, <1>7, <1>8, <1>9, <1>10, <1>11,
       <1>12, <1>13, <1>14, <1>15, <1>16, <1>17, <1>18, <1>19, <1>20,
       <1>21, <1>22, <1>23, <1>24, <1>25, <1>26, <1>27, <1>28, <1>29,
       <1>30, <1>31, <1>32, <1>33
       DEF Next, LoadNext, UnloadNext, CallNext, InvokeNext, SimNext

-----------------------------------------------------------------------------
\* A step after which the threads that hold a reference are where they were,
\* in plugins and on commands that the step leaves alone.
LEMMA RefsStay ==
    ASSUME Refs, found' \subseteq found,
           \A t \in found' :
             /\ on'[t] = on[t] /\ cmd'[t] = cmd[t] /\ pc'[t] \in Inside
             /\ state'[on[t]] = state[on[t]]
             /\ commands'[on[t]] = commands[on[t]]
    PROVE  Refs'
  <1> QED
    BY DEF Refs

\* load and unload touch plugins in which nobody is: one that is not loaded, or
\* one whose references are drained.
LEMMA RefsNext == IInv /\ Refs /\ [Next]_vars => Refs'
  <1> SUFFICES ASSUME IInv, Refs, [Next]_vars PROVE Refs'
    OBVIOUS
  <1> USE PluginsAssumption, ThreadsAssumption DEF pluginVars, refVars,
          threadVars, callVars, unloadVars, simVars, lockVars, gameVars, Goto,
          IoReturns, Threads, Callers
  <1>0. /\ TypeOK /\ Where /\ Stage /\ RefcountExact
        /\ pc \in [Threads -> States] /\ on \in [Threads -> Plugins \cup {None}]
        /\ cmd \in [Threads -> Commands \cup {None}]
        /\ found \subseteq Callers /\ "io" \in Threads
        /\ \A t \in found : pc[t] \in Inside
    BY DEF IInv, TypeOK, Refs
  <1>1. ASSUME NEW p \in Plugins, LoadCall(p) PROVE Refs'
    <2>1. /\ found' = found /\ state' = state /\ commands' = commands
          /\ \A u \in found : /\ on'[u] = on[u] /\ cmd'[u] = cmd[u]
                             /\ pc'[u] \in Inside
      BY <1>0, <1>1 DEF LoadCall, Inside
    <2> QED
      BY <2>1, RefsStay
  <1>2. ASSUME LoadLock PROVE Refs'
    <2>1. /\ found' = found /\ state' = state /\ commands' = commands
          /\ \A u \in found : /\ on'[u] = on[u] /\ cmd'[u] = cmd[u]
                             /\ pc'[u] \in Inside
      BY <1>0, <1>2 DEF LoadLock, Inside
    <2> QED
      BY <2>1, RefsStay
  <1>3. ASSUME LoadOpen PROVE Refs'
    <2>1. \A t \in found : on[t] # on["io"] /\ t # "io"
      BY <1>0, <1>3 DEF Stage, Refs, LoadOpen, Inside
    <2>2. /\ found' = found /\ cmd' = cmd
          /\ \A t \in found : pc'[t] = pc[t] /\ on'[t] = on[t]
      BY <1>0, <1>3, <2>1 DEF LoadOpen
    <2>3. \A t \in found : /\ state'[on[t]] = state[on[t]]
                          /\ commands'[on[t]] = commands[on[t]]
      BY <1>0, <1>3, <2>1 DEF LoadOpen, TypeOK, Refs
    <2> QED
      BY <1>0, <2>2, <2>3, RefsStay
  <1>4. ASSUME LoadInit PROVE Refs'
    <2>1. \A t \in found : on[t] # on["io"] /\ t # "io"
      BY <1>0, <1>4 DEF Stage, Refs, LoadInit, Inside
    <2>2. /\ found' = found /\ cmd' = cmd
          /\ \A t \in found : pc'[t] = pc[t] /\ on'[t] = on[t]
      BY <1>0, <1>4, <2>1 DEF LoadInit
    <2>3. \A t \in found : /\ state'[on[t]] = state[on[t]]
                          /\ commands'[on[t]] = commands[on[t]]
      BY <1>0, <1>4, <2>1 DEF LoadInit, TypeOK, Refs
    <2> QED
      BY <1>0, <2>2, <2>3, RefsStay
  <1>5. ASSUME LoadRegister PROVE Refs'
    <2>1. /\ found' = found /\ state' = state /\ commands' = commands
          /\ \A u \in found : /\ on'[u] = on[u] /\ cmd'[u] = cmd[u]
                             /\ pc'[u] \in Inside
      BY <1>0, <1>5 DEF LoadRegister, Inside
    <2> QED
      BY <2>1, RefsStay
  <1>6. ASSUME NEW p \in Plugins, NEW re \in BOOLEAN, UnloadCall(p, re) PROVE Refs'
    <2>1. /\ found' = found /\ state' = state /\ commands' = commands
          /\ \A u \in found : /\ on'[u] = on[u] /\ cmd'[u] = cmd[u]
                             /\ pc'[u] \in Inside
      BY <1>0, <1>6 DEF UnloadCall, Inside
    <2> QED
      BY <2>1, RefsStay
  <1>7. ASSUME UnloadLock PROVE Refs'
    <2>1. /\ found' = found /\ state' = state /\ commands' = commands
          /\ \A u \in found : /\ on'[u] = on[u] /\ cmd'[u] = cmd[u]
                             /\ pc'[u] \in Inside
      BY <1>0, <1>7 DEF UnloadLock, Inside
    <2> QED
      BY <2>1, RefsStay
  <1>8. ASSUME UnloadShutdown PROVE Refs'
    <2>1. /\ found' = found /\ state' = state /\ commands' = commands
          /\ \A u \in found : /\ on'[u] = on[u] /\ cmd'[u] = cmd[u]
                             /\ pc'[u] \in Inside
      BY <1>0, <1>8 DEF UnloadShutdown, Inside
    <2> QED
      BY <2>1, RefsStay
  <1>9. ASSUME UnloadDrain PROVE Refs'
    <2>1. /\ found' = found /\ state' = state /\ commands' = commands
          /\ \A u \in found : /\ on'[u] = on[u] /\ cmd'[u] = cmd[u]
                             /\ pc'[u] \in Inside
      BY <1>0, <1>9 DEF UnloadDrain, Inside
    <2> QED
      BY <2>1, RefsStay
  <1>10. ASSUME UnloadSpurious PROVE Refs'
    <2>1. /\ found' = found /\ state' = state /\ commands' = commands
          /\ \A u \in found : /\ on'[u] = on[u] /\ cmd'[u] = cmd[u]
                             /\ pc'[u] \in Inside
      BY <1>0, <1>10 DEF UnloadSpurious, Inside
    <2> QED
      BY <2>1, RefsStay
  <1>11. ASSUME UnloadAwake PROVE Refs'
    <2>1. /\ found' = found /\ state' = state /\ commands' = commands
          /\ \A u \in found : /\ on'[u] = on[u] /\ cmd'[u] = cmd[u]
                             /\ pc'[u] \in Inside
      BY <1>0, <1>11 DEF UnloadAwake, Inside
    <2> QED
      BY <2>1, RefsStay
  <1>12. ASSUME UnloadUnregister PROVE Refs'
    <2>1. /\ found' = found /\ state' = state /\ commands' = commands
          /\ \A u \in found : /\ on'[u] = on[u] /\ cmd'[u] = cmd[u]
                             /\ pc'[u] \in Inside
      BY <1>0, <1>12 DEF UnloadUnregister, Inside
    <2> QED
      BY <2>1, RefsStay
  <1>13. ASSUME UnloadClose PROVE Refs'
    <2>0. on["io"] \in Plugins /\ refcount[on["io"]] = 0
      BY <1>0, <1>13 DEF Where, Stage, UnloadClose
    <2>1. \A t \in found : on[t] # on["io"] /\ t # "io"
      BY <1>0, <1>13, <2>0, NobodyInside DEF UnloadClose, Inside
    <2>2. /\ found' = found /\ cmd' = cmd /\ commands' = commands
          /\ \A t \in found : pc'[t] = pc[t] /\ on'[t] = on[t]
      BY <1>0, <1>13, <2>1 DEF UnloadClose
    <2>3. \A t \in found : state'[on[t]] = state[on[t]]
      BY <1>0, <1>13, <2>1 DEF UnloadClose, TypeOK, Refs
    <2> QED
      BY <1>0, <2>2, <2>3, RefsStay
  <1>14. ASSUME NEW t \in Callers, NEW c \in Commands, Lookup(t, c) PROVE Refs'
    <2>1. /\ found' = found /\ state' = state /\ commands' = commands
          /\ \A u \in found : /\ on'[u] = on[u] /\ cmd'[u] = cmd[u]
                             /\ pc'[u] \in Inside
      BY <1>0, <1>14 DEF Lookup, Inside
    <2> QED
      BY <2>1, RefsStay
  <1>15. ASSUME NEW t \in Threads, Enter(t) PROVE Refs'
    <2>1. /\ found' = found /\ state' = state /\ commands' = commands
          /\ \A u \in found : /\ on'[u] = on[u] /\ cmd'[u] = cmd[u]
                             /\ pc'[u] \in Inside
      BY <1>0, <1>15 DEF Enter, Inside
    <2> QED
      BY <2>1, RefsStay
  <1>16. ASSUME NEW t \in Threads, Leave(t) PROVE Refs'
    <2>1. found' = found \ {t} /\ state' = state /\ commands' = commands
      BY <1>16 DEF Leave
    <2>2. \A u \in found' : pc'[u] = pc[u] /\ on'[u] = on[u] /\ cmd'[u] = cmd[u]
      BY <1>0, <1>16, <2>1 DEF Leave, Inside
    <2> QED
      BY <1>0, <2>1, <2>2, RefsStay
  <1>17. ASSUME NEW t \in Invokers, InvokeCheck(t) PROVE Refs'
    <2>1. /\ found' = IF Known(t) THEN found \cup {t} ELSE found
          /\ on' = on /\ cmd' = cmd /\ state' = state /\ commands' = commands
      BY <1>17 DEF InvokeCheck
    <2>4. \E l \in Inside : pc' = [pc EXCEPT ![t] = l]
      BY <1>17 DEF InvokeCheck, Inside
    <2>2. \A u \in Threads : pc'[u] = pc[u] \/ (u = t /\ pc'[u] \in Inside)
      BY <1>0, <2>4
    <2>3. on[t] \in Plugins
      BY <1>0, <1>17 DEF Where, InvokeCheck
    <2>5. \A u \in found : on[u] \in Plugins /\ state[on[u]] = "PS_LOADED"
                          /\ u \in Callers /\ cmd[u] \in commands[on[u]]
      BY DEF Refs
    <2>6. \A u \in found' : u \in found \/ (u = t /\ Known(t))
      BY <2>1
    <2>7. \A u \in found' : pc'[u] \in Inside
      BY <1>0, <1>17, <2>2, <2>4, <2>6
    <2> QED
      BY <2>1, <2>3, <2>5, <2>6, <2>7 DEF Refs, Known
  <1>18. ASSUME NEW t \in Invokers, Suspended(t) PROVE Refs'
    <2>1. /\ found' = found /\ state' = state /\ commands' = commands
          /\ \A u \in found : /\ on'[u] = on[u] /\ cmd'[u] = cmd[u]
                             /\ pc'[u] \in Inside
      BY <1>0, <1>18 DEF Suspended, Inside
    <2> QED
      BY <2>1, RefsStay
  <1>19. ASSUME NEW t \in Invokers, InvokeGuard(t) PROVE Refs'
    <2>1. /\ found' = found /\ state' = state /\ commands' = commands
          /\ \A u \in found : /\ on'[u] = on[u] /\ cmd'[u] = cmd[u]
                             /\ pc'[u] \in Inside
      BY <1>0, <1>19 DEF InvokeGuard, Inside
    <2> QED
      BY <2>1, RefsStay
  <1>20. ASSUME NEW t \in Invokers, FunctionSuspends(t) PROVE Refs'
    <2>1. /\ found' = found /\ state' = state /\ commands' = commands
          /\ \A u \in found : /\ on'[u] = on[u] /\ cmd'[u] = cmd[u]
                             /\ pc'[u] \in Inside
      BY <1>0, <1>20 DEF FunctionSuspends, Inside
    <2> QED
      BY <2>1, RefsStay
  <1>21. ASSUME NEW t \in Invokers, FunctionResumes(t) PROVE Refs'
    <2>1. /\ found' = found /\ state' = state /\ commands' = commands
          /\ \A u \in found : /\ on'[u] = on[u] /\ cmd'[u] = cmd[u]
                             /\ pc'[u] \in Inside
      BY <1>0, <1>21 DEF FunctionResumes, Inside
    <2> QED
      BY <2>1, RefsStay
  <1>22. ASSUME NEW t \in Invokers, FunctionReturns(t) PROVE Refs'
    <2>1. /\ found' = found /\ state' = state /\ commands' = commands
          /\ \A u \in found : /\ on'[u] = on[u] /\ cmd'[u] = cmd[u]
                             /\ pc'[u] \in Inside
      BY <1>0, <1>22 DEF FunctionReturns, Inside
    <2> QED
      BY <2>1, RefsStay
  <1>23. ASSUME NEW t \in Watchers, HotkeyCheck(t) PROVE Refs'
    <2>1. /\ found' = IF Known(t) THEN found \cup {t} ELSE found
          /\ on' = on /\ cmd' = cmd /\ state' = state /\ commands' = commands
      BY <1>23 DEF HotkeyCheck
    <2>4. \E l \in Inside : pc' = [pc EXCEPT ![t] = l]
      BY <1>23 DEF HotkeyCheck, Inside
    <2>2. \A u \in Threads : pc'[u] = pc[u] \/ (u = t /\ pc'[u] \in Inside)
      BY <1>0, <2>4
    <2>3. on[t] \in Plugins
      BY <1>0, <1>23 DEF Where, HotkeyCheck
    <2>5. \A u \in found : on[u] \in Plugins /\ state[on[u]] = "PS_LOADED"
                          /\ u \in Callers /\ cmd[u] \in commands[on[u]]
      BY DEF Refs
    <2>6. \A u \in found' : u \in found \/ (u = t /\ Known(t))
      BY <2>1
    <2>7. \A u \in found' : pc'[u] \in Inside
      BY <1>0, <1>23, <2>2, <2>4, <2>6
    <2> QED
      BY <2>1, <2>3, <2>5, <2>6, <2>7 DEF Refs, Known
  <1>24. ASSUME NEW t \in Watchers, HotkeyGuardReturns(t) PROVE Refs'
    <2>1. /\ found' = found /\ state' = state /\ commands' = commands
          /\ \A u \in found : /\ on'[u] = on[u] /\ cmd'[u] = cmd[u]
                             /\ pc'[u] \in Inside
      BY <1>0, <1>24 DEF HotkeyGuardReturns, Inside
    <2> QED
      BY <2>1, RefsStay
  <1>25. ASSUME GameRuns PROVE Refs'
    BY <1>0, <1>25, RefsStay DEF GameRuns
  <1>26. ASSUME UpdateBegin PROVE Refs'
    <2>1. /\ found' = found /\ state' = state /\ commands' = commands
          /\ \A u \in found : /\ on'[u] = on[u] /\ cmd'[u] = cmd[u]
                             /\ pc'[u] \in Inside
      BY <1>0, <1>26 DEF UpdateBegin, Inside
    <2> QED
      BY <2>1, RefsStay
  <1>27. ASSUME NEW p \in Plugins, HookCall(p) PROVE Refs'
    <2>1. /\ found' = found /\ state' = state /\ commands' = commands
          /\ \A u \in found : /\ on'[u] = on[u] /\ cmd'[u] = cmd[u]
                             /\ pc'[u] \in Inside
      BY <1>0, <1>27 DEF HookCall, Inside
    <2> QED
      BY <2>1, RefsStay
  <1>28. ASSUME HookCheck PROVE Refs'
    <2>1. /\ found' = found /\ state' = state /\ commands' = commands
          /\ \A u \in found : /\ on'[u] = on[u] /\ cmd'[u] = cmd[u]
                             /\ pc'[u] \in Inside
      BY <1>0, <1>28 DEF HookCheck, Inside
    <2> QED
      BY <2>1, RefsStay
  <1>29. ASSUME HookReturns PROVE Refs'
    <2>1. /\ found' = found /\ state' = state /\ commands' = commands
          /\ \A u \in found : /\ on'[u] = on[u] /\ cmd'[u] = cmd[u]
                             /\ pc'[u] \in Inside
      BY <1>0, <1>29 DEF HookReturns, Inside
    <2> QED
      BY <2>1, RefsStay
  <1>30. ASSUME PassEnds PROVE Refs'
    BY <1>0, <1>30, RefsStay DEF PassEnds
  <1>31. ASSUME UpdateYields PROVE Refs'
    <2>1. /\ found' = found /\ state' = state /\ commands' = commands
          /\ \A u \in found : /\ on'[u] = on[u] /\ cmd'[u] = cmd[u]
                             /\ pc'[u] \in Inside
      BY <1>0, <1>31 DEF UpdateYields, Inside
    <2> QED
      BY <2>1, RefsStay
  <1>32. ASSUME UpdateReturns PROVE Refs'
    <2>1. /\ found' = found /\ state' = state /\ commands' = commands
          /\ \A u \in found : /\ on'[u] = on[u] /\ cmd'[u] = cmd[u]
                             /\ pc'[u] \in Inside
      BY <1>0, <1>32 DEF UpdateReturns, Inside
    <2> QED
      BY <2>1, RefsStay
  <1>33. CASE UNCHANGED vars
    BY <1>0, <1>33, RefsStay DEF vars
  <1> QED
    BY <1>1, <1>2, <1>3, <1>4, <1>5, <1>6, <1>7, <1>8, <1>9, <1>10,
       <1>11, <1>12, <1>13, <1>14, <1>15, <1>16, <1>17, <1>18, <1>19,
       <1>20, <1>21, <1>22, <1>23, <1>24, <1>25, <1>26, <1>27, <1>28,
       <1>29, <1>30, <1>31, <1>32, <1>33
       DEF Next, LoadNext, UnloadNext, CallNext, InvokeNext, SimNext

-----------------------------------------------------------------------------
\* The constructor leaves each command with the plugin that has it: no two
\* plugins share one, so the choice is forced.
LEMMA IInvInit == Init => IInv
  <1> SUFFICES ASSUME Init PROVE IInv
    OBVIOUS
  <1> USE PluginsAssumption, ThreadsAssumption DEF Threads, Callers
  <1>1. PICK ok \in SUBSET Plugins :
          /\ state = [p \in Plugins |->
                        IF p \in ok THEN "PS_LOADED" ELSE "PS_BROKEN"]
          /\ library = [p \in Plugins |-> p \in ok]
          /\ commands = [p \in Plugins |-> IF p \in ok THEN CmdsOf[p] ELSE {}]
          /\ belongs = [c \in Commands |->
                          IF \E p \in ok : c \in CmdsOf[p]
                          THEN CHOOSE p \in ok : c \in CmdsOf[p] ELSE None]
    BY DEF Init
  <1>2. /\ mut = [p \in Plugins |-> FALSE]
        /\ refcount = [p \in Plugins |-> 0]
        /\ pc = [t \in Threads |-> "idle"]
        /\ on = [t \in Threads |-> None]
        /\ cmd = [t \in Threads |-> None]
        /\ found = {}
        /\ hooks = {}
        /\ phase = [t \in Invokers |-> "idle"] /\ game = "running"
        /\ screen = FALSE /\ world = FALSE /\ last_world_data_ptr = FALSE
        /\ knows = [p \in Plugins |-> FALSE]
    BY DEF Init, AL!Init
  <1>3. \A c \in Commands, p \in ok : c \in CmdsOf[p] => belongs[c] = p
    BY <1>1
  <1>4. \A c \in Commands :
          \/ belongs[c] = None
          \/ belongs[c] \in ok /\ c \in CmdsOf[belongs[c]]
    BY <1>1
  <1>5. TypeOK
    <2>1. /\ state \in [Plugins -> {"PS_UNLOADED", "PS_LOADED", "PS_BROKEN"}]
          /\ library \in [Plugins -> BOOLEAN]
          /\ commands \in [Plugins -> SUBSET Commands]
      BY <1>1
    <2>2. belongs \in [Commands -> Plugins \cup {None}]
      BY <1>1, <1>4
    <2>3. refcount \in [Plugins -> 0..Cardinality(Threads)]
      BY <1>2, AtMostAll, FS_CardinalityType
    <2>4. pc \in [Threads -> States] /\ mut \in [Plugins -> BOOLEAN]
      BY <1>2 DEF States
    <2>5. /\ on \in [Threads -> Plugins \cup {None}]
          /\ cmd \in [Threads -> Commands \cup {None}]
          /\ found \subseteq Callers
          /\ knows \in [Plugins -> BOOLEAN]
      BY <1>2
    <2>6. /\ reloading \in BOOLEAN /\ shutdown_cr \in BOOLEAN
          /\ todo \subseteq Plugins
          /\ hooks \subseteq {"world", "screen", "update"}
          /\ AL!TypeOK
          /\ {world, last_world_data_ptr, screen, top_viewscreen}
               \subseteq BOOLEAN
      BY DEF Init, AL!Init, AL!TypeOK
    <2> QED
      BY <2>1, <2>2, <2>3, <2>4, <2>5, <2>6 DEF TypeOK
  <1>6. Where /\ Locked
    BY <1>2 DEF Where, Locked, Holding
  <1>7. RefcountExact
    <2>1. \A p \in Plugins :
            {t \in Threads : on[t] = p /\ pc[t] \in Inside} = {}
      BY <1>2 DEF Inside
    <2>2. Cardinality({}) = 0
      BY FS_EmptySet
    <2> QED
      BY <1>2, <2>1, <2>2 DEF RefcountExact
  <1>8. Stage /\ Calls
    BY <1>1, <1>2 DEF Stage, Calls, InLibrary
  <1>9. Table
    BY <1>1, <1>2, <1>3, <1>4 DEF Table, BelongsExact
  <1>10. Owning /\ Guards
    BY <1>2 DEF Owning, Guards, GuardHolds
  <1>11. Knowing
    BY <1>2 DEF Knowing
  <1> QED
    BY <1>5, <1>6, <1>7, <1>8, <1>9, <1>10, <1>11 DEF IInv

\* The invariant holds in every reachable state, with or without fairness.
LEMMA Invariance == Spec => []IInv
  <1> QED
    BY IInvInit, IInvNext, PTL DEF Spec, SafeSpec

LEMMA RefsInvariant == Spec => []Refs
  <1>1. Init => Refs
    BY DEF Init, Refs
  <1> QED
    BY <1>1, RefsNext, IInvInit, IInvNext, PTL DEF Spec, SafeSpec

-----------------------------------------------------------------------------
\* Every variable keeps its type: a count never falls below 0 nor passes the
\* number of threads, though lock_sub decrements it unchecked.
THEOREM TypeCorrect == Spec => []TypeOK
  <1>1. IInv => TypeOK
    BY DEF IInv
  <1> QED
    BY <1>1, Invariance, PTL

\* RefLock: however many calls overlap, and on whichever path each of them
\* leaves, the count of a plugin is the number of threads inside it.
THEOREM RefcountsExact == Spec => []RefcountExact
  <1>1. IInv => RefcountExact
    BY DEF IInv
  <1> QED
    BY <1>1, Invariance, PTL

\* Plugin::unload, load: no thread runs code of a library that is not mapped.
THEOREM NoCallIntoClosed == Spec => []NoCallIntoClosedLibrary
  <1>1. IInv => NoCallIntoClosedLibrary
    <2> SUFFICES ASSUME IInv PROVE NoCallIntoClosedLibrary
      OBVIOUS
    <2>1. \A t \in Threads : pc[t] \in InLibrary => on[t] \in Plugins
      BY DEF IInv, Where, InLibrary
    <2>2. on["io"] \in Plugins \/ pc["io"] \notin {"init", "shutdown"}
      BY ThreadsAssumption DEF IInv, Where, Threads, Callers
    <2> QED
      BY <2>1, <2>2 DEF IInv, NoCallIntoClosedLibrary, Calls, Stage
  <1> QED
    BY <1>1, Invariance, PTL

\* Plugin::invoke, can_invoke_hotkey: the reference into the command vector is
\* good from the look-up to lock_sub, the function's return and the reading of
\* cmd.usage included: the command is in the vector, and plugin_init, which
\* clears the vector even when it fills it alike, is not running.
THEOREM CommandRefsValid == Spec => []CommandRefValid
  <1>1. IInv /\ Refs => CommandRefValid
    <2> SUFFICES ASSUME IInv, Refs, NEW t \in found
                 PROVE  /\ cmd[t] \in commands[on[t]]
                        /\ ~(pc["io"] = "init" /\ on["io"] = on[t])
      BY DEF CommandRefValid
    <2>1. cmd[t] \in commands[on[t]] /\ state[on[t]] = "PS_LOADED"
      BY DEF Refs
    <2>2. pc["io"] = "init" => state[on["io"]] = "PS_UNLOADED"
      BY DEF IInv, Stage
    <2> QED
      BY <2>1, <2>2
  <1> QED
    BY <1>1, Invariance, RefsInvariant, PTL

\* registerCommands, unregisterCommands: the table names what is loaded, and
\* outside load and unload it names all of it.
THEOREM TableExact == Spec => []BelongsExact
  <1>1. IInv => BelongsExact
    BY DEF IInv, Table
  <1> QED
    BY <1>1, Invariance, PTL

\* Plugin::invoke: a guarded command's function runs on a screen its guard
\* accepts, since the game is suspended from the guard to the end.
THEOREM GuardsHold == Spec => []GuardHolds
  <1>1. IInv => GuardHolds
    BY DEF IInv, Guards
  <1> QED
    BY <1>1, Invariance, PTL

\* Core::Update: a plugin's hook never runs while a tool owns the game.
THEOREM HooksAlone == Spec => []HooksExcludeTools
  <1>1. IInv => HooksExcludeTools
    BY DEF IInv, Owning, HooksExcludeTools
  <1> QED
    BY <1>1, Invariance, PTL

\* Core::Update: no hook but the announcement itself finds a plugin that has
\* not been told of the world that is loaded.
THEOREM WorldsKnown == Spec => []WorldKnown
  <1>1. IInv => WorldKnown
    <2> SUFFICES ASSUME IInv, pc["sim"] = "hook", Pass # "world"
                 PROVE  knows[on["sim"]] = world
      BY DEF WorldKnown
    <2>1. "sim" \in Threads
      BY DEF Threads
    <2>2. on["sim"] \in Plugins
      BY <2>1 DEF IInv, Where
    <2>3. state[on["sim"]] = "PS_LOADED"
      BY <2>1 DEF IInv, Calls, InLibrary
    <2>4. "world" \notin hooks
      BY DEF Pass
    <2> QED
      BY <2>2, <2>3, <2>4 DEF IInv, Knowing, WillBeTold
  <1> QED
    BY <1>1, Invariance, PTL
=============================================================================
