------------------------------- MODULE Hotkeys -------------------------------
(***************************************************************************)
(* From a key press to a command (Core.cpp): the console thread edits the  *)
(* key bindings, the game's input thread selects the first applicable      *)
(* binding of a pressed key and leaves its command line in a one-place     *)
(* mailbox, and the hotkey thread takes it from there and runs it.  All    *)
(* three meet in HotkeyMutex, which Core::Init creates after it has        *)
(* started the console thread, already busy with dfhack.init.              *)
(*                                                                         *)
(* Whether a binding applies is can_invoke_hotkey's answer, which depends  *)
(* on the screen and on the plugins loaded (PluginLifecycle): here it is   *)
(* any.                                                                    *)
(***************************************************************************)
EXTENDS Naturals, Sequences, SequencesExt, Sublists

CONSTANTS
    Keys,           \* key symbols
    FKeys,          \* those among F1..F8, which have the game's own hotkeys
    Mods,           \* sets of modifiers
    CmdLines,       \* command lines
    Empty,          \* a command line without a word in it
    Lists           \* the lists of command lines typed after a key

ASSUME HotkeysAssumption ==
    /\ FKeys \subseteq Keys
    /\ Empty \notin CmdLines
    /\ Lists \subseteq Seq(CmdLines \cup {Empty})

VARIABLES
    init,           \* how far Core::Init is
    HotkeyMutex,    \* "null", "free" or "input" (SelectHotkey keeps it)
    crashed,        \* a thread has used HotkeyMutex before it was created
    io,             \* the keybinding command under way on the console thread
    key_bindings,   \* key_bindings[k]: a vector; its last element goes first
    hotkey_states,  \* the keys that are down
    input,          \* where the input thread is in SelectHotkey
    hotkey_set, hotkey_cmd,     \* the mailbox
    hk              \* what the hotkey thread does

initVars == <<init, crashed>>
boxVars == <<hotkey_set, hotkey_cmd>>
vars == <<init, HotkeyMutex, crashed, io, key_bindings, hotkey_states, input,
          hotkey_set, hotkey_cmd, hk>>

Bindings == [modifiers : Mods, cmdline : CmdLines]

\* How far Core::Init is, after the plugins are loaded.  The console thread
\* starts first; SDL_Event ignores every event until "started".
InitSteps == <<"StartIO", "NewHotkeyMutex", "StartHK", "Start", "started">>

NoCommand == [op |-> "none"]

\* A keybinding command: left is how many of its lines are still to be added.
IoCommands ==
    [op : {"clear", "set", "add"}, key : Keys, mod : Mods,
     lines : Lists, cleared : BOOLEAN, left : Nat]

Idle == [at |-> "idle"]

InputStates ==
    {Idle} \cup [at : {"lock"}, key : Keys, mod : Mods]
           \cup [at : {"scan"}, key : Keys, mod : Mods, i : Nat]
           \cup [at : {"set"}, cmd : CmdLines \cup {Empty}]

TypeOK ==
    /\ init \in 1..Len(InitSteps)
    /\ HotkeyMutex \in {"null", "free", "input"}
    /\ crashed \in BOOLEAN
    /\ io \in IoCommands \cup {NoCommand}
    /\ key_bindings \in [Keys -> Seq(Bindings)]
    /\ hotkey_states \subseteq Keys
    /\ input \in InputStates
    /\ hotkey_set \in BOOLEAN
    /\ hotkey_cmd \in CmdLines \cup {Empty}
    /\ hk \in {"none", "lock", "wait"} \cup CmdLines

Init ==
    /\ init = 1
    /\ HotkeyMutex = "null"
    /\ crashed = FALSE
    /\ io = NoCommand
    /\ key_bindings = [k \in Keys |-> <<>>]
    /\ hotkey_states = {}
    /\ input = Idle
    /\ hotkey_set = FALSE /\ hotkey_cmd = Empty
    /\ hk = "none"

\* The rest of Init, step by step.
InitStep ==
    /\ ~crashed
    /\ init < Len(InitSteps)
    /\ init' = init + 1
    /\ HotkeyMutex' = IF InitSteps[init] = "NewHotkeyMutex" THEN "free"
                                                           ELSE HotkeyMutex
    /\ hk' = IF InitSteps[init] = "StartHK" THEN "lock" ELSE hk
    /\ UNCHANGED <<crashed, io, key_bindings, hotkey_states, input, boxVars>>

Started == InitSteps[init] = "started"

-----------------------------------------------------------------------------
BindingsWith(m) == [modifiers : {m}, cmdline : CmdLines]

Found(bindings, k, m) == Keep(bindings[k], BindingsWith(m))

\* What keybinding list prints: the binding that goes first, first.
ListKeyBindings(bindings, k, m) ==
    LET found == Found(bindings, k, m)
        n == Len(found)
    IN [i \in 1..n |-> found[n + 1 - i].cmdline]

\* The command goes on with the line before, unless that was the first or one
\* that AddKeyBinding refuses.
NextLine ==
    io' = IF io.left = 1 \/ io.lines[io.left] = Empty
          THEN NoCommand ELSE [io EXCEPT !.left = @ - 1]

-----------------------------------------------------------------------------
(* Mistakes: variants of the steps below that no specification here uses.  *)
(* Each is a plausible bug in Core.cpp that one of the properties catches. *)

\* ClearKeyBindings erases only the first match.
BugClearOne ==
    /\ io # NoCommand
    /\ HotkeyMutex = "free"
    /\ ~io.cleared
    /\ key_bindings' = [key_bindings EXCEPT
                          ![io.key] = RemoveFirstMatch(@, LAMBDA b : b.modifiers = io.mod)]
    /\ io' = IF io.op = "clear" THEN NoCommand ELSE [io EXCEPT !.cleared = TRUE]
    /\ UNCHANGED <<initVars, HotkeyMutex, hotkey_states, input, boxVars, hk>>

\* ClearKeyBindings takes no lock.
BugClearUnlocked ==
    /\ io # NoCommand
    /\ ~io.cleared
    /\ key_bindings' = [key_bindings EXCEPT
                          ![io.key] = Drop(@, BindingsWith(io.mod))]
    /\ io' = IF io.op = "clear" THEN NoCommand ELSE [io EXCEPT !.cleared = TRUE]
    /\ UNCHANGED <<initVars, HotkeyMutex, hotkey_states, input, boxVars, hk>>

\* setHotkeyCmd notifies nobody.
BugNoNotify ==
    /\ input.at = "set"
    /\ HotkeyMutex = "free"
    /\ hotkey_set' = TRUE
    /\ hotkey_cmd' = input.cmd
    /\ input' = Idle
    /\ UNCHANGED <<initVars, HotkeyMutex, io, key_bindings, hotkey_states, hk>>

\* SelectHotkey scans past the first element of the vector.
BugScanPast ==
    /\ input.at = "scan"
    /\ input' = [input EXCEPT !.i = @ - 1]
    /\ UNCHANGED <<initVars, HotkeyMutex, io, key_bindings, hotkey_states,
                   boxVars, hk>>

-----------------------------------------------------------------------------
(* The console thread: keybinding clear, set and add.                      *)

KeybindingCommand(op, k, m, lines) ==
    /\ init > 1
    /\ io = NoCommand
    /\ op = "clear" <=> lines = <<>>
    /\ io' = [op |-> op, key |-> k, mod |-> m, lines |-> lines,
              cleared |-> op = "add", left |-> Len(lines)]
    /\ UNCHANGED <<initVars, HotkeyMutex, key_bindings, hotkey_states, input,
                   boxVars, hk>>

\* lock_guard on a HotkeyMutex that is not there yet: the process dies, in a
\* state where no other thread has started.
IoCrash ==
    /\ ~crashed
    /\ io # NoCommand
    /\ HotkeyMutex = "null"
    /\ crashed' = TRUE
    /\ UNCHANGED <<init, HotkeyMutex, io, key_bindings, hotkey_states, input,
                   boxVars, hk>>

ClearKeyBindings ==
    /\ io # NoCommand
    /\ HotkeyMutex = "free"
    /\ ~io.cleared
    /\ key_bindings' = [key_bindings EXCEPT
                          ![io.key] = Drop(@, BindingsWith(io.mod))]
    /\ io' = IF io.op = "clear" THEN NoCommand ELSE [io EXCEPT !.cleared = TRUE]
    /\ UNCHANGED <<initVars, HotkeyMutex, hotkey_states, input, boxVars, hk>>

\* AddKeyBinding of the last line that is left; a duplicate stays where it is.
AddKeyBinding ==
    /\ io # NoCommand
    /\ HotkeyMutex = "free"
    /\ io.cleared
    /\ LET line == io.lines[io.left]
           binding == [modifiers |-> io.mod, cmdline |-> line]
       IN key_bindings' =
            IF line = Empty \/ Contains(key_bindings[io.key], binding)
            THEN key_bindings
            ELSE [key_bindings EXCEPT ![io.key] = Append(@, binding)]
    /\ NextLine
    /\ UNCHANGED <<initVars, HotkeyMutex, hotkey_states, input, boxVars, hk>>

-----------------------------------------------------------------------------
(* The input thread: SDL_Event, SelectHotkey, setHotkeyCmd.                *)

\* A key held down repeats its press; only the first one counts.
KeyDown(k, m) ==
    /\ Started
    /\ input = Idle
    /\ k \notin hotkey_states
    /\ hotkey_states' = hotkey_states \cup {k}
    /\ input' = [at |-> "lock", key |-> k, mod |-> m]
    /\ UNCHANGED <<initVars, HotkeyMutex, io, key_bindings, boxVars, hk>>

KeyUp(k) ==
    /\ Started
    /\ input = Idle
    /\ k \in hotkey_states
    /\ hotkey_states' = hotkey_states \ {k}
    /\ UNCHANGED <<initVars, HotkeyMutex, io, key_bindings, input, boxVars, hk>>

\* SelectHotkey starts at the end of the vector ...
SelectLock ==
    /\ input.at = "lock"
    /\ HotkeyMutex = "free"
    /\ HotkeyMutex' = "input"
    /\ input' = [at |-> "scan", key |-> input.key, mod |-> input.mod,
                 i |-> Len(key_bindings[input.key])]
    /\ UNCHANGED <<initVars, io, key_bindings, hotkey_states, boxVars, hk>>

\* ... passes over other modifiers and over what CanInvokeHotkey refuses ...
SelectNext ==
    /\ input.at = "scan"
    /\ input.i > 0
    /\ input' = [input EXCEPT !.i = @ - 1]
    /\ UNCHANGED <<initVars, HotkeyMutex, io, key_bindings, hotkey_states,
                   boxVars, hk>>

Selected(next) ==
    /\ HotkeyMutex' = "free"
    /\ input' = next
    /\ UNCHANGED <<initVars, io, key_bindings, hotkey_states, boxVars, hk>>

ToMailbox(cmd) == [at |-> "set", cmd |-> cmd]

\* ... takes the first that applies ...
SelectBinding ==
    /\ input.at = "scan"
    /\ input.i > 0
    /\ key_bindings[input.key][input.i].modifiers = input.mod
    /\ Selected(ToMailbox(key_bindings[input.key][input.i].cmdline))

\* ... or else the game's own hotkey of that key, if it has one and the screen
\* allows.  Its name may be blanks; when it is "", nothing comes of the press.
SelectGameHotkey ==
    /\ input.at = "scan"
    /\ input.i = 0
    /\ \/ Selected(Idle)
       \/ /\ input.key \in FKeys
          /\ \E name \in CmdLines \cup {Empty} : Selected(ToMailbox(name))

\* ncurses_wgetch, in text mode: the name of the game's hotkey as it is.
CursesKey(name) ==
    /\ Started
    /\ FKeys # {}
    /\ input = Idle
    /\ input' = ToMailbox(name)
    /\ UNCHANGED <<initVars, HotkeyMutex, io, key_bindings, hotkey_states,
                   boxVars, hk>>

\* The mailbox has one place: what was in it is gone.
SetHotkeyCmd ==
    /\ input.at = "set"
    /\ HotkeyMutex = "free"
    /\ hotkey_set' = TRUE
    /\ hotkey_cmd' = input.cmd
    /\ input' = Idle
    /\ hk' = IF hk = "wait" THEN "lock" ELSE hk         \* notify_all
    /\ UNCHANGED <<initVars, HotkeyMutex, io, key_bindings, hotkey_states>>

-----------------------------------------------------------------------------
(* The hotkey thread: fHKthread and getHotkeyCmd.                          *)

GetHotkeyCmd ==
    /\ hk = "lock"
    /\ HotkeyMutex = "free"
    /\ \/ /\ hotkey_set
          /\ hotkey_set' = FALSE
          /\ hotkey_cmd' = Empty
          /\ hk' = IF hotkey_cmd = Empty THEN "lock" ELSE hotkey_cmd
       \/ /\ ~hotkey_set
          /\ hk' = "wait"
          /\ UNCHANGED boxVars
    /\ UNCHANGED <<initVars, HotkeyMutex, io, key_bindings, hotkey_states, input>>

HkSpurious ==
    /\ hk = "wait"
    /\ hk' = "lock"
    /\ UNCHANGED <<initVars, HotkeyMutex, io, key_bindings, hotkey_states,
                   input, boxVars>>

\* InvokeCommand returns.
CommandReturns ==
    /\ hk \in CmdLines
    /\ hk' = "lock"
    /\ UNCHANGED <<initVars, HotkeyMutex, io, key_bindings, hotkey_states,
                   input, boxVars>>

-----------------------------------------------------------------------------
IoNext ==
    \/ \E op \in {"clear", "set", "add"}, k \in Keys, m \in Mods, lines \in Lists :
         KeybindingCommand(op, k, m, lines)
    \/ IoCrash \/ ClearKeyBindings \/ AddKeyBinding

InputNext ==
    \/ \E k \in Keys, m \in Mods : KeyDown(k, m)
    \/ \E k \in Keys : KeyUp(k)
    \/ SelectLock \/ SelectNext \/ SelectBinding \/ SelectGameHotkey
    \/ \E name \in CmdLines \cup {Empty} : CursesKey(name)
    \/ SetHotkeyCmd

HkNext == GetHotkeyCmd \/ HkSpurious \/ CommandReturns

Next == InitStep \/ IoNext \/ InputNext \/ HkNext

\* Init and a scan go on, a command returns, and a thread that keeps asking
\* for HotkeyMutex, free again and again, gets it.  Nobody has to press a key.
Fairness ==
    /\ WF_vars(InitStep)
    /\ WF_vars(SelectNext \/ SelectBinding \/ SelectGameHotkey)
    /\ WF_vars(CommandReturns)
    /\ SF_vars(ClearKeyBindings \/ AddKeyBinding)
    /\ SF_vars(SelectLock \/ SetHotkeyCmd)
    /\ SF_vars(GetHotkeyCmd)

SafeSpec == Init /\ [][Next]_vars

Spec == SafeSpec /\ Fairness

-----------------------------------------------------------------------------
(* Properties.                                                             *)

\* SelectHotkey asks plugins in the middle of its scan, for as long as they
\* take; the vector it scans stays as it is meanwhile.
ScanSeesOneTable ==
    [][input.at = "scan" =>
         UNCHANGED key_bindings /\ input.i <= Len(key_bindings[input.key])]_vars

Complete(op) ==
    /\ io # NoCommand /\ io' = NoCommand
    /\ io.op = op
    /\ Empty \notin ToSet(io.lines) /\ IsInjective(io.lines)

\* keybinding set takes the mutex once to clear and once for every line it
\* adds.  Whatever is pressed in between, at its end its lines are the
\* bindings of its key, "earlier items within one command" first, and those of
\* other keys and modifiers are as they were.
SetBindsExactly ==
    [][/\ Complete("set") =>
            ListKeyBindings(key_bindings', io.key, io.mod) = io.lines
       /\ \A k \in Keys, m \in Mods :
            io = NoCommand \/ <<k, m>> # <<io.key, io.mod>>
            => ListKeyBindings(key_bindings', k, m)
                 = ListKeyBindings(key_bindings, k, m)]_vars

\* A hotkey that reaches the mailbox is taken from it, or a newer one has
\* replaced it.
NewestHotkeyTaken ==
    \A c \in CmdLines :
        (hotkey_set /\ hotkey_cmd = c)
            ~> (~hotkey_set \/ hotkey_cmd # c)

\* dfhack.init may bind keys from its first line: a thread that uses
\* HotkeyMutex finds it.
HotkeyMutexReady == ~crashed
=============================================================================
