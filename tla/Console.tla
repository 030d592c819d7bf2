------------------------------ MODULE Console ------------------------------
(***************************************************************************)
(* The terminal and who has it (Console-linux.cpp): the console thread     *)
(* reads command lines (fIOthread), plugins prompt on it and on the hotkey *)
(* thread, everybody prints, and Core::Shutdown closes it.                 *)
(*                                                                         *)
(* wlock covers every call of Console but the wait for a key, so a call,   *)
(* and each half of lineedit around that wait, is one step.  What is       *)
(* written with << goes to Private::sync, which does not take the lock:    *)
(* that is two steps.  Keys that edit the line, its text and the history   *)
(* are left out.                                                           *)
(***************************************************************************)
EXTENDS Integers

VARIABLES
    con,            \* Private: state, rawmode, orig_termios, and the terminal
    inited,         \* Console::inited
    exit_pipe,      \* "open" or "closed", its writing end
    at,             \* at[t]: where thread t is
    place,          \* place[t]: whose loop it is in
    ret,            \* ret[t]: what lineedit returned, or is to return
    calls,          \* refcounts of the plugins
    main,           \* the main thread
    clash           \* auxiliary: two have used the terminal at once

vars == <<con, inited, exit_pipe, at, place, ret, calls, main, clash>>

Threads == {"io", "hk"}

Modes == {"cooked", "raw"}

Consoles == [state : {"con_unclaimed", "con_lineedit"}, rawmode : BOOLEAN,
             termios : Modes, orig_termios : Modes]

\* What lineedit returns: -1 after ctrl-c or when there is a prompt already, -2
\* when the console is shut down, else the line.
Results == {"line", "-1", "-2"}

TypeOK ==
    /\ con \in Consoles
    /\ inited \in BOOLEAN
    /\ exit_pipe \in {"open", "closed"}
    /\ at \in [Threads ->
               {"idle", "call", "reading", "relock", "returned", "writing", "ended"}]
    /\ place \in [Threads -> {"core", "plugin", "none"}]
    /\ ret \in [Threads -> Results]
    /\ calls \in 0..2
    /\ main \in {"running", "plugins", "console", "done"}
    /\ clash \in BOOLEAN

\* Console::init is over, and the console thread runs the lines of dfhack.init.
Init ==
    /\ con = [state |-> "con_unclaimed", rawmode |-> FALSE,
              termios |-> "cooked", orig_termios |-> "cooked"]
    /\ inited = TRUE
    /\ exit_pipe = "open"
    /\ at = [t \in Threads |-> IF t = "io" THEN "returned" ELSE "idle"]
    /\ place = [t \in Threads |-> IF t = "io" THEN "core" ELSE "none"]
    /\ ret = [t \in Threads |-> "line"]
    /\ calls = 0
    /\ main = "running"
    /\ clash = FALSE

-----------------------------------------------------------------------------
(* Private.                                                                *)

\* enable_raw saves whatever mode the terminal is in.
Enabled(c) == [c EXCEPT !.rawmode = TRUE, !.termios = "raw",
                        !.orig_termios = c.termios]

Disabled(c) == IF c.rawmode
               THEN [c EXCEPT !.rawmode = FALSE, !.termios = c.orig_termios]
               ELSE c

\* vprint: in the middle of a prompt the terminal is cooked for the text.
Printed(c) == IF c.state = "con_lineedit" THEN Enabled(Disabled(c)) ELSE c

Unclaimed(c) == [c EXCEPT !.state = "con_unclaimed"]

\* A stream write has begun and not ended.
Writing == \E t \in Threads : at[t] = "writing"

Goto(t, where) == at' = [at EXCEPT ![t] = where]

Return(t, r) ==
    /\ Goto(t, "returned")
    /\ ret' = [ret EXCEPT ![t] = r]

-----------------------------------------------------------------------------
(* lineedit.                                                               *)

\* "if(inited)"
LineeditGone(t) ==
    /\ at[t] = "call" /\ ~inited
    /\ Return(t, "-2")
    /\ UNCHANGED <<con, inited, exit_pipe, place, calls, main, clash>>

\* The terminal is claimed before the test whether somebody has it.
LineeditTaken(t) ==
    /\ at[t] = "call" /\ inited
    /\ con.state = "con_lineedit"
    /\ con' = Enabled(con)
    /\ Return(t, "-1")
    /\ clash' = TRUE
    /\ UNCHANGED <<inited, exit_pipe, place, calls, main>>

\* The prompt is there, and wlock is released for the wait.
Lineedit(t) ==
    /\ at[t] = "call" /\ inited
    /\ con.state = "con_unclaimed"
    /\ con' = [Enabled(con) EXCEPT !.state = "con_lineedit"]
    /\ Goto(t, "reading")
    /\ clash' = (clash \/ Writing)
    /\ UNCHANGED <<inited, exit_pipe, place, ret, calls, main>>

\* A key comes: enter, or ctrl-c.
ReadKey(t) ==
    /\ at[t] = "reading" /\ exit_pipe = "open"
    /\ Goto(t, "relock")
    /\ \E r \in {"line", "-1"} : ret' = [ret EXCEPT ![t] = r]
    /\ UNCHANGED <<con, inited, exit_pipe, place, calls, main, clash>>

\* select returns for the exit pipe, whatever keys there are.
ReadExit(t) ==
    /\ at[t] = "reading" /\ exit_pipe = "closed"
    /\ Goto(t, "relock")
    /\ ret' = [ret EXCEPT ![t] = "-2"]
    /\ UNCHANGED <<con, inited, exit_pipe, place, calls, main, clash>>

\* The mode is left for the next prompt.
BugPromptEnds(t) ==
    /\ at[t] = "relock"
    /\ con' = Unclaimed(con)
    /\ Goto(t, "returned")
    /\ clash' = (clash \/ Writing)
    /\ UNCHANGED <<inited, exit_pipe, place, ret, calls, main>>

\* prompt_loop has wlock again and returns; lineedit gives the terminal back.
PromptEnds(t) ==
    /\ at[t] = "relock"
    /\ con' = Disabled(Unclaimed(con))
    /\ Goto(t, "returned")
    /\ clash' = (clash \/ Writing)
    /\ UNCHANGED <<inited, exit_pipe, place, ret, calls, main>>

-----------------------------------------------------------------------------
(* The console thread.                                                     *)

\* fIOthread: -2 ends it; after -1 and after a command it prompts again.
IoEnds ==
    /\ at["io"] = "returned" /\ place["io"] = "core"
    /\ ret["io"] = "-2"
    /\ Goto("io", "ended")
    /\ UNCHANGED <<con, inited, exit_pipe, place, ret, calls, main, clash>>

IoGoesOn ==
    /\ at["io"] = "returned" /\ place["io"] = "core"
    /\ ret["io"] # "-2"
    /\ Goto("io", "call")
    /\ UNCHANGED <<con, inited, exit_pipe, place, ret, calls, main, clash>>

-----------------------------------------------------------------------------
(* Plugins that prompt.                                                    *)

\* A command enters a loop of prompts (tiletypes, liquids, mode; dfusion and
\* lua also on the hotkey thread).  Calls into plugins that are gone are
\* PluginLifecycle's.
EnterPlugin(t) ==
    /\ \/ /\ at[t] = "returned" /\ place[t] = "core" /\ ret[t] = "line"
       \/ /\ at[t] = "idle"
    /\ main \in {"running", "plugins"}
    /\ Goto(t, "call")
    /\ place' = [place EXCEPT ![t] = "plugin"]
    /\ calls' = calls + 1
    /\ UNCHANGED <<con, inited, exit_pipe, ret, main, clash>>

\* The plugin returns after every line.
BugPluginGoesOn(t) ==
    /\ at[t] = "returned" /\ place[t] = "plugin"
    /\ Goto(t, "call")
    /\ calls' = calls - 1
    /\ UNCHANGED <<con, inited, exit_pipe, place, ret, main, clash>>

\* What lineedit returns is not looked at, or is not -1 (liquids).
PluginGoesOn(t) ==
    /\ at[t] = "returned" /\ place[t] = "plugin"
    /\ Goto(t, "call")
    /\ UNCHANGED <<con, inited, exit_pipe, place, ret, calls, main, clash>>

\* The line is the one that ends the loop, or -1 ends it (liquids).  The
\* command that called the plugin may go on to write.
LeavePlugin(t) ==
    /\ at[t] = "returned" /\ place[t] = "plugin" /\ ret[t] \in {"line", "-1"}
    /\ Goto(t, IF t = "io" THEN "returned" ELSE "idle")
    /\ ret' = [ret EXCEPT ![t] = "line"]
    /\ place' = [place EXCEPT ![t] = IF t = "io" THEN "core" ELSE "none"]
    /\ calls' = calls - 1
    /\ UNCHANGED <<con, inited, exit_pipe, main, clash>>

-----------------------------------------------------------------------------
(* Output.                                                                 *)

\* con.print and the like, of any thread.
Vprint ==
    /\ inited
    /\ con.state = "con_lineedit"
    /\ con' = Printed(con)
    /\ clash' = (clash \/ Writing)
    /\ UNCHANGED <<inited, exit_pipe, at, place, ret, calls, main>>

\* con << text, of a command of either thread that is not in lineedit itself:
\* Private::sync, up to the text of a vprint that has found a prompt.
StreamBegins(t) ==
    /\ \/ at[t] = "idle"
       \/ at[t] = "returned" /\ (place[t] = "core" => ret[t] = "line")
    /\ con.state = "con_lineedit"
    /\ con' = Disabled(con)
    /\ Goto(t, "writing")
    /\ clash' = (clash \/ Writing)
    /\ UNCHANGED <<inited, exit_pipe, place, ret, calls, main>>

\* It is made raw again, and the command goes on.
StreamEnds(t) ==
    /\ at[t] = "writing"
    /\ con' = Enabled(con)
    /\ Goto(t, IF place[t] = "none" THEN "idle" ELSE "returned")
    /\ UNCHANGED <<inited, exit_pipe, place, ret, calls, main, clash>>

-----------------------------------------------------------------------------
(* Core::Shutdown.                                                         *)

Shutdown ==
    /\ main = "running"
    /\ main' = "plugins"
    /\ UNCHANGED <<con, inited, exit_pipe, at, place, ret, calls, clash>>

\* delete plug_mgr: every plugin is unloaded, which waits for its calls.
DeletePlugMgr ==
    /\ main = "plugins" /\ calls = 0
    /\ main' = "console"
    /\ UNCHANGED <<con, inited, exit_pipe, at, place, ret, calls, clash>>

\* The reader is not told.
BugConsoleShutdown ==
    /\ main = "console"
    /\ con' = Printed(Disabled(con))
    /\ inited' = FALSE
    /\ main' = "done"
    /\ clash' = (clash \/ Writing)
    /\ UNCHANGED <<exit_pipe, at, place, ret, calls>>

\* Console::shutdown: its newline makes the terminal of a prompt raw again.
ConsoleShutdown ==
    /\ main = "console"
    /\ con' = Printed(Disabled(con))
    /\ inited' = FALSE
    /\ exit_pipe' = "closed"
    /\ main' = "done"
    /\ clash' = (clash \/ Writing)
    /\ UNCHANGED <<at, place, ret, calls>>

-----------------------------------------------------------------------------
Prompting(t) ==
    LineeditGone(t) \/ LineeditTaken(t) \/ Lineedit(t) \/ ReadExit(t)
        \/ PromptEnds(t)

IoNext == Prompting("io") \/ IoEnds \/ IoGoesOn \/ StreamEnds("io")

Next ==
    \/ IoNext
    \/ Prompting("hk")
    \/ \E t \in Threads :
         \/ ReadKey(t) \/ EnterPlugin(t) \/ PluginGoesOn(t) \/ LeavePlugin(t)
         \/ StreamBegins(t) \/ StreamEnds(t)
    \/ Vprint
    \/ Shutdown \/ DeletePlugMgr \/ ConsoleShutdown

\* The console thread goes on unless it waits for a key.
Spec == Init /\ [][Next]_vars /\ WF_vars(IoNext)

-----------------------------------------------------------------------------
(* Properties.                                                             *)

\* The terminal is raw exactly while there is a prompt, and the mode that will
\* be restored is the one DFHack found, through prints, shutdown and one
\* prompt after another - unless a stream write or a second prompt has clashed
\* with another use of the terminal (lineedit, vprint, shutdown).
TerminalKept ==
    ~clash /\ ~Writing =>
      /\ con.rawmode = (con.state = "con_lineedit")
      /\ con.termios = IF con.rawmode THEN "raw" ELSE "cooked"
      /\ con.orig_termios = "cooked"

\* After Core::Shutdown the console thread ends, also out of a prompt, and has
\* given the terminal back (Console::shutdown, read_char, fIOthread).
ConsoleEnds ==
    main = "done" ~>
      at["io"] = "ended" /\ (clash \/ Writing \/ con.termios = "cooked")
=============================================================================
