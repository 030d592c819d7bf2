--------------------------- MODULE Console_proofs ---------------------------
(***************************************************************************)
(* Safety of Console: the type invariant and TerminalKept.                 *)
(***************************************************************************)
EXTENDS Console, TLAPS

\* The console thread is in Core's loop or a plugin's, and the hotkey thread in
\* a plugin's or in none.
Places ==
    /\ place["io"] \in {"core", "plugin"}
    /\ at["io"] # "idle"
    /\ at["io"] = "ended" => place["io"] = "core"
    /\ place["hk"] \in {"plugin", "none"}
    /\ at["hk"] = "idle" => place["hk"] = "none"
    /\ place["hk"] = "none" => at["hk"] \in {"idle", "writing"}

\* A call is counted for each thread that is in a plugin's loop.
Calling(t) == IF place[t] = "plugin" THEN 1 ELSE 0

Counted == calls = Calling("io") + Calling("hk")

\* A stream write in a prompt is alone, and holds the terminal as it was found.
Held ==
    ~clash /\ Writing =>
      /\ ~(at["io"] = "writing" /\ at["hk"] = "writing")
      /\ con.state = "con_lineedit"
      /\ ~con.rawmode
      /\ con.termios = "cooked"
      /\ con.orig_termios = "cooked"

\* A step in which no stream write begins or ends.
SameWriters == \A u \in Threads : at'[u] = "writing" <=> at[u] = "writing"

IInv ==
    /\ TypeOK
    /\ Places
    /\ Counted
    /\ TerminalKept
    /\ Held

-----------------------------------------------------------------------------
\* A step of Private leaves a console behind.
LEMMA ConsoleOperations ==
    ASSUME NEW c \in Consoles
    PROVE  /\ Enabled(c) \in Consoles
           /\ Disabled(c) \in Consoles
           /\ Unclaimed(c) \in Consoles
           /\ [Enabled(c) EXCEPT !.state = "con_lineedit"] \in Consoles
  BY DEF Consoles, Modes, Enabled, Disabled, Unclaimed

\* Printing leaves a console a console.
LEMMA PrintedConsole ==
    ASSUME NEW c \in Consoles
    PROVE  Printed(c) \in Consoles
  BY ConsoleOperations DEF Printed

\* Init establishes the invariant.
LEMMA IInvInit == Init => IInv
  <1> SUFFICES ASSUME Init PROVE IInv
    OBVIOUS
  <1>1. TypeOK
    <2>1. con \in Consoles
      BY DEF Init, Consoles, Modes
    <2>2. /\ at \in [Threads ->
               {"idle", "call", "reading", "relock", "returned", "writing", "ended"}]
          /\ place \in [Threads -> {"core", "plugin", "none"}]
          /\ ret \in [Threads -> Results]
      BY DEF Init, Results, Threads
    <2>3. calls \in 0..2
      BY DEF Init
    <2> QED
      BY <2>1, <2>2, <2>3 DEF Init, TypeOK
  <1>2. Places /\ Counted
    BY DEF Init, Places, Counted, Calling, Threads
  <1>3. TerminalKept /\ Held
    BY DEF Init, TerminalKept, Held, Writing, Threads
  <1> QED
    BY <1>1, <1>2, <1>3 DEF IInv

-----------------------------------------------------------------------------
\* A thread that moves between places that count the same, and neither ends
\* nor begins to be idle or to write, keeps the bookkeeping.
LEMMA Moves ==
    ASSUME IInv, NEW t \in Threads, NEW where,
           at[t] \notin {"idle", "writing", "ended"},
           where \in {"call", "reading", "relock", "returned"},
           Goto(t, where), UNCHANGED <<place, calls>>
    PROVE  /\ at' \in [Threads ->
               {"idle", "call", "reading", "relock", "returned", "writing", "ended"}]
           /\ Places' /\ Counted'
           /\ SameWriters
  <1> USE DEF IInv, TypeOK, Threads
  <1>1. at' \in [Threads ->
               {"idle", "call", "reading", "relock", "returned", "writing", "ended"}]
    BY DEF Goto
  <1>2. Places'
    BY DEF Goto, Places
  <1>3. Counted'
    BY DEF Counted, Calling
  <1>4. SameWriters
    BY DEF Goto, SameWriters
  <1> QED
    BY <1>1, <1>2, <1>3, <1>4

\* Steps that leave the terminal alone leave what holds of it alone.
LEMMA TerminalAlone ==
    ASSUME TerminalKept, Held, UNCHANGED <<con, clash>>, SameWriters
    PROVE  TerminalKept' /\ Held'
  BY DEF TerminalKept, Held, Writing, SameWriters, Threads

\* The halves of a prompt.
LEMMA PromptingKeeps ==
    ASSUME IInv, NEW t \in Threads, Prompting(t) \/ ReadKey(t)
    PROVE  IInv'
  <1> USE DEF IInv
  <1>1. CASE LineeditGone(t)
    <2>1. Goto(t, "returned") /\ Places' /\ Counted' /\ SameWriters
      BY <1>1, Moves DEF LineeditGone, Return
    <2>2. TypeOK'
      BY <1>1, <2>1, Moves DEF LineeditGone, Return, TypeOK, Results
    <2>3. TerminalKept' /\ Held'
      BY <1>1, <2>1, TerminalAlone DEF LineeditGone
    <2> QED
      BY <2>1, <2>2, <2>3
  <1>2. CASE LineeditTaken(t)
    <2>1. Goto(t, "returned") /\ Places' /\ Counted'
      BY <1>2, Moves DEF LineeditTaken, Return
    <2>2. TypeOK'
      BY <1>2, <2>1, Moves, ConsoleOperations
         DEF LineeditTaken, Return, TypeOK, Results
    <2>3. TerminalKept' /\ Held'
      BY <1>2 DEF LineeditTaken, TerminalKept, Held
    <2> QED
      BY <2>1, <2>2, <2>3
  <1>3. CASE Lineedit(t)
    <2>1. Goto(t, "reading") /\ Places' /\ Counted' /\ SameWriters
      BY <1>3, Moves DEF Lineedit
    <2>2. TypeOK'
      BY <1>3, <2>1, Moves, ConsoleOperations DEF Lineedit, TypeOK
    <2>3. TerminalKept' /\ Held'
      BY <1>3, <2>1 DEF Lineedit, TerminalKept, Held, Writing, SameWriters,
                        Threads, Enabled, TypeOK, Consoles
    <2> QED
      BY <2>1, <2>2, <2>3
  <1>4. CASE ReadExit(t) \/ ReadKey(t)
    <2>1. Goto(t, "relock") /\ Places' /\ Counted' /\ SameWriters
      BY <1>4, Moves DEF ReadExit, ReadKey
    <2>2. TypeOK'
      BY <1>4, <2>1, Moves DEF ReadExit, ReadKey, TypeOK, Results
    <2>3. TerminalKept' /\ Held'
      BY <1>4, <2>1, TerminalAlone DEF ReadExit, ReadKey
    <2> QED
      BY <2>1, <2>2, <2>3
  <1>5. CASE PromptEnds(t)
    <2>1. Goto(t, "returned") /\ Places' /\ Counted' /\ SameWriters
      BY <1>5, Moves DEF PromptEnds
    <2>2. TypeOK'
      BY <1>5, <2>1, Moves, ConsoleOperations DEF PromptEnds, TypeOK
    <2>3. TerminalKept' /\ Held'
      BY <1>5, <2>1 DEF PromptEnds, TerminalKept, Held, Writing, SameWriters,
                        Threads, Disabled, Unclaimed, TypeOK, Consoles
    <2> QED
      BY <2>1, <2>2, <2>3
  <1> QED
    BY <1>1, <1>2, <1>3, <1>4, <1>5 DEF Prompting

\* Loops: of the console thread, and of a plugin.
LEMMA LoopsKeep ==
    ASSUME IInv, NEW t \in Threads,
           \/ IoEnds \/ IoGoesOn
           \/ EnterPlugin(t) \/ PluginGoesOn(t) \/ LeavePlugin(t)
    PROVE  IInv'
  <1> USE DEF IInv, Threads
  <1>1. CASE IoEnds
    <2>1. TypeOK'
      BY <1>1 DEF IoEnds, Goto, TypeOK
    <2>2. Places' /\ Counted'
      BY <1>1 DEF IoEnds, Goto, TypeOK, Places, Counted, Calling
    <2>3. SameWriters
      BY <1>1 DEF IoEnds, Goto, TypeOK, SameWriters
    <2>4. TerminalKept' /\ Held'
      BY <1>1, <2>3, TerminalAlone DEF IoEnds
    <2> QED
      BY <2>1, <2>2, <2>4
  <1>2. CASE IoGoesOn \/ PluginGoesOn(t)
    <2>1. PICK u \in Threads : at[u] = "returned" /\ Goto(u, "call")
      BY <1>2 DEF IoGoesOn, PluginGoesOn
    <2>2. UNCHANGED <<con, inited, exit_pipe, place, ret, calls, main, clash>>
      BY <1>2 DEF IoGoesOn, PluginGoesOn
    <2>3. TypeOK' /\ Places' /\ Counted' /\ SameWriters
      BY <2>1, <2>2, Moves DEF TypeOK
    <2>4. TerminalKept' /\ Held'
      BY <2>2, <2>3, TerminalAlone
    <2> QED
      BY <2>3, <2>4
  <1>3. CASE EnterPlugin(t)
    <2>1. Places' /\ Counted'
      BY <1>3 DEF EnterPlugin, Goto, TypeOK, Places, Counted, Calling
    <2>2. TypeOK'
      BY <1>3, <2>1 DEF EnterPlugin, Goto, TypeOK, Counted, Calling
    <2>3. SameWriters
      BY <1>3 DEF EnterPlugin, Goto, TypeOK, SameWriters
    <2>4. TerminalKept' /\ Held'
      BY <1>3, <2>3, TerminalAlone DEF EnterPlugin
    <2> QED
      BY <2>1, <2>2, <2>4
  <1>4. CASE LeavePlugin(t)
    <2>1. Places' /\ Counted'
      BY <1>4 DEF LeavePlugin, Goto, TypeOK, Places, Counted, Calling
    <2>2. TypeOK'
      BY <1>4, <2>1 DEF LeavePlugin, Goto, TypeOK, Results, Counted, Calling
    <2>3. SameWriters
      BY <1>4 DEF LeavePlugin, Goto, TypeOK, SameWriters
    <2>4. TerminalKept' /\ Held'
      BY <1>4, <2>3, TerminalAlone DEF LeavePlugin
    <2> QED
      BY <2>1, <2>2, <2>4
  <1> QED
    BY <1>1, <1>2, <1>3, <1>4

\* Output, of vprint in one step and of a stream in two.
LEMMA OutputKeeps ==
    ASSUME IInv, NEW t \in Threads, Vprint \/ StreamBegins(t) \/ StreamEnds(t)
    PROVE  IInv'
  <1> USE DEF IInv, Threads
  <1>1. CASE Vprint
    <2>1. TypeOK'
      BY <1>1, PrintedConsole DEF Vprint, TypeOK
    <2>2. Places' /\ Counted'
      BY <1>1 DEF Vprint, Places, Counted, Calling
    <2>3. TerminalKept' /\ Held'
      BY <1>1 DEF Vprint, TerminalKept, Held, Writing, Printed, Enabled,
                  Disabled, TypeOK, Consoles
    <2> QED
      BY <2>1, <2>2, <2>3
  <1>2. CASE StreamBegins(t)
    <2>1. TypeOK'
      BY <1>2, ConsoleOperations DEF StreamBegins, Goto, TypeOK
    <2>2. Places' /\ Counted'
      BY <1>2 DEF StreamBegins, Goto, TypeOK, Places, Counted, Calling
    <2>3. at'[t] = "writing" /\ \A u \in Threads : u # t => at'[u] = at[u]
      BY <1>2 DEF StreamBegins, Goto, TypeOK
    <2>4. TerminalKept' /\ Held'
      BY <1>2, <2>3 DEF StreamBegins, TerminalKept, Held, Writing, Disabled,
                        TypeOK, Consoles
    <2> QED
      BY <2>1, <2>2, <2>4
  <1>3. CASE StreamEnds(t)
    <2>1. TypeOK'
      BY <1>3, ConsoleOperations DEF StreamEnds, Goto, TypeOK
    <2>2. Places' /\ Counted'
      BY <1>3 DEF StreamEnds, Goto, TypeOK, Places, Counted, Calling
    <2>3. at'[t] # "writing" /\ \A u \in Threads : u # t => at'[u] = at[u]
      BY <1>3 DEF StreamEnds, Goto, TypeOK
    <2>4. ASSUME ~clash PROVE ~Writing' /\ con.state = "con_lineedit"
                              /\ ~con.rawmode /\ con.termios = "cooked"
      <3>1. Writing /\ at[t] = "writing"
        BY <1>3 DEF StreamEnds, Writing
      <3>2. \A u \in Threads : u # t => at[u] # "writing"
        BY <2>4, <3>1 DEF Held
      <3> QED
        BY <2>3, <2>4, <3>1, <3>2 DEF Writing, Held
    <2>5. con' = [con EXCEPT !.rawmode = TRUE, !.termios = "raw",
                             !.orig_termios = con.termios] /\ clash' = clash
      BY <1>3 DEF StreamEnds, Enabled
    <2>6. TerminalKept' /\ Held'
      BY <2>4, <2>5 DEF TerminalKept, Held, TypeOK, Consoles
    <2> QED
      BY <2>1, <2>2, <2>6
  <1> QED
    BY <1>1, <1>2, <1>3

\* Core::Shutdown.
LEMMA ShutdownKeeps ==
    ASSUME IInv, Shutdown \/ DeletePlugMgr \/ ConsoleShutdown
    PROVE  IInv'
  <1> USE DEF IInv
  <1>1. Places' /\ Counted'
    BY DEF Shutdown, DeletePlugMgr, ConsoleShutdown, Places, Counted, Calling
  <1>2. SameWriters
    BY DEF Shutdown, DeletePlugMgr, ConsoleShutdown, SameWriters
  <1>3. CASE Shutdown \/ DeletePlugMgr
    <2>1. TypeOK'
      BY <1>3 DEF Shutdown, DeletePlugMgr, TypeOK
    <2>2. TerminalKept' /\ Held'
      BY <1>2, <1>3, TerminalAlone DEF Shutdown, DeletePlugMgr
    <2> QED
      BY <1>1, <2>1, <2>2
  <1>4. CASE ConsoleShutdown
    <2>1. TypeOK'
      BY <1>4, ConsoleOperations, PrintedConsole DEF ConsoleShutdown, TypeOK
    <2>2. TerminalKept' /\ Held'
      BY <1>4 DEF ConsoleShutdown, TerminalKept, Held, Writing, Printed,
                  Enabled, Disabled, TypeOK, Consoles
    <2> QED
      BY <1>1, <2>1, <2>2
  <1> QED
    BY <1>3, <1>4

\* Every step keeps the invariant.
LEMMA IInvNext == IInv /\ [Next]_vars => IInv'
  <1> SUFFICES ASSUME IInv, [Next]_vars PROVE IInv'
    OBVIOUS
  <1>1. CASE UNCHANGED vars
    BY <1>1 DEF vars, IInv, TypeOK, Places, Counted, Calling, TerminalKept,
                Held, Writing
  <1>2. CASE Next
    <2>1. CASE \E t \in Threads : Prompting(t) \/ ReadKey(t)
      BY <2>1, PromptingKeeps
    <2>2. CASE \/ IoEnds \/ IoGoesOn
               \/ \E t \in Threads :
                    EnterPlugin(t) \/ PluginGoesOn(t) \/ LeavePlugin(t)
      BY <2>2, LoopsKeep DEF Threads
    <2>3. CASE Vprint \/ \E t \in Threads : StreamBegins(t) \/ StreamEnds(t)
      BY <2>3, OutputKeeps DEF Threads
    <2>4. CASE Shutdown \/ DeletePlugMgr \/ ConsoleShutdown
      BY <2>4, ShutdownKeeps
    <2> QED
      BY <1>2, <2>1, <2>2, <2>3, <2>4 DEF Next, IoNext, Threads
  <1> QED
    BY <1>1, <1>2

-----------------------------------------------------------------------------
\* The invariant holds in every state.
THEOREM Invariance == Spec => []IInv
  BY IInvInit, IInvNext, PTL DEF Spec

\* Every variable keeps its type; in particular the count of calls into plugins
\* on which Shutdown waits is never below zero.
THEOREM TypeCorrect == Spec => []TypeOK
  <1>1. IInv => TypeOK
    BY DEF IInv
  <1> QED
    BY <1>1, Invariance, PTL

\* The terminal is raw exactly during a prompt, and its own mode is restored,
\* unless two have used it at once (lineedit, vprint, Console::shutdown).
THEOREM TerminalIsKept == Spec => []TerminalKept
  <1>1. IInv => TerminalKept
    BY DEF IInv
  <1> QED
    BY <1>1, Invariance, PTL
=============================================================================
