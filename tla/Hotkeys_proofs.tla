--------------------------- MODULE Hotkeys_proofs ---------------------------
(***************************************************************************)
(* Proofs about the key bindings and the mailbox: types, the scan of       *)
(* SelectHotkey sees one table, and keybinding set binds its lines and     *)
(* touches no other, for any keys, modifiers and command lines.            *)
(***************************************************************************)
EXTENDS Hotkeys, Sublists_proofs

-----------------------------------------------------------------------------
(* The invariant.                                                          *)

\* Nobody but the console thread is there before HotkeyMutex is.
Starting ==
    /\ HotkeyMutex = "null" <=> init <= 2
    /\ input # Idle => Started

\* A scan holds HotkeyMutex and stays within the vector.
Scanning ==
    /\ input.at = "scan" <=> HotkeyMutex = "input"
    /\ input.at = "scan" => input.i <= Len(key_bindings[input.key])

\* A command has lines to add, unless it is clear.
Working ==
    io # NoCommand =>
      /\ io.left <= Len(io.lines)
      /\ io.op = "clear" <=> io.lines = <<>>
      /\ io.op = "clear" => ~io.cleared
      /\ io.cleared => io.left >= 1
      /\ ~io.cleared => io.left = Len(io.lines)

Distinct(lines) == Empty \notin ToSet(lines) /\ IsInjective(lines)

\* What keybinding set has bound so far: its lines from the last on.
Bound(found) ==
    /\ Len(found) = Len(io.lines) - io.left
    /\ \A i \in 1 .. Len(io.lines) - io.left :
         found[i] = [modifiers |-> io.mod, cmdline |-> io.lines[Len(io.lines) + 1 - i]]

Adding ==
    io # NoCommand /\ io.op = "set" /\ io.cleared /\ Distinct(io.lines) =>
      Bound(Found(key_bindings, io.key, io.mod))

IInv ==
    /\ TypeOK
    /\ Starting
    /\ Scanning
    /\ Working
    /\ Adding

-----------------------------------------------------------------------------
(* Types of what a step looks at.                                          *)

LEMMA StepsOfInit ==
    /\ Len(InitSteps) = 5
    /\ InitSteps[1] = "StartIO" /\ InitSteps[2] = "NewHotkeyMutex"
    /\ InitSteps[3] = "StartHK" /\ InitSteps[4] = "Start"
    /\ InitSteps[5] = "started"
  BY DEF InitSteps

\* A command under way.
LEMMA CommandType ==
    ASSUME TypeOK, io # NoCommand
    PROVE  /\ io \in IoCommands
           /\ io.op \in {"clear", "set", "add"} /\ io.key \in Keys /\ io.mod \in Mods
           /\ io.lines \in Seq(CmdLines \cup {Empty})
           /\ io.cleared \in BOOLEAN /\ io.left \in Nat
  BY HotkeysAssumption DEF TypeOK, IoCommands

\* A scan under way.
LEMMA ScanType ==
    ASSUME TypeOK, input.at = "scan"
    PROVE  /\ input \in [at : {"scan"}, key : Keys, mod : Mods, i : Nat]
           /\ input.key \in Keys /\ input.mod \in Mods /\ input.i \in Nat
           /\ key_bindings[input.key] \in Seq(Bindings)
  BY DEF TypeOK, InputStates, Idle

\* A press that waits for HotkeyMutex, first for the scan, then for the mailbox.
LEMMA LockType ==
    ASSUME TypeOK, input.at = "lock"
    PROVE  /\ input \in [at : {"lock"}, key : Keys, mod : Mods]
           /\ input.key \in Keys /\ input.mod \in Mods
           /\ key_bindings[input.key] \in Seq(Bindings)
  BY DEF TypeOK, InputStates, Idle

LEMMA SetType ==
    ASSUME TypeOK, input.at = "set"
    PROVE  input.cmd \in CmdLines \cup {Empty}
  BY DEF TypeOK, InputStates, Idle

-----------------------------------------------------------------------------
(* Steps that leave the command and the bindings alone.                    *)

LEMMA SameBindings ==
    ASSUME IInv, UNCHANGED <<io, key_bindings>>
    PROVE  Working' /\ Adding'
  <1>1. io' = io /\ key_bindings' = key_bindings
    OBVIOUS
  <1>2. Working'
    BY <1>1 DEF IInv, Working
  <1>3. Adding'
    BY <1>1 DEF IInv, Adding, Bound
  <1> QED
    BY <1>2, <1>3

LEMMA InitStepKeeps ==
    ASSUME IInv, InitStep
    PROVE  IInv'
  <1>1. init \in 1 .. 4 /\ init' = init + 1
    BY StepsOfInit DEF InitStep, IInv, TypeOK
  <1>2. input = Idle /\ input' = Idle
    BY <1>1, StepsOfInit DEF IInv, Starting, Started, InitStep
  <1>3. TypeOK'
    BY <1>1, StepsOfInit DEF InitStep, IInv, TypeOK, boxVars
  <1>4. HotkeyMutex' = IF init = 2 THEN "free" ELSE HotkeyMutex
    <2>1. init = 1 \/ init = 2 \/ init = 3 \/ init = 4
      BY <1>1
    <2> QED
      BY <2>1, StepsOfInit DEF InitStep
  <1>5. Starting'
    BY <1>1, <1>2, <1>4 DEF IInv, Starting
  <1>6. Scanning'
    <2>1. input.at # "scan" /\ HotkeyMutex # "input"
      BY <1>2 DEF IInv, Scanning, Idle
    <2> QED
      BY <1>2, <1>4, <2>1 DEF Scanning
  <1>7. Working' /\ Adding'
    BY SameBindings DEF InitStep
  <1> QED
    BY <1>3, <1>5, <1>6, <1>7 DEF IInv

LEMMA IoCrashKeeps ==
    ASSUME IInv, IoCrash
    PROVE  IInv'
  <1>1. UNCHANGED <<init, HotkeyMutex, io, key_bindings, hotkey_states, input,
                    boxVars, hk>> /\ crashed' = TRUE
    BY DEF IoCrash
  <1>2. TypeOK'
    BY <1>1 DEF IInv, TypeOK, boxVars
  <1>3. Starting' /\ Scanning'
    BY <1>1 DEF IInv, Starting, Scanning, Started
  <1>4. Working' /\ Adding'
    BY <1>1, SameBindings
  <1> QED
    BY <1>2, <1>3, <1>4 DEF IInv

\* The input thread outside the scan, from Idle or back to it.
LEMMA KeyDownKeeps ==
    ASSUME IInv, NEW k \in Keys, NEW m \in Mods, KeyDown(k, m)
    PROVE  IInv'
  <1>1. input = Idle /\ input' = [at |-> "lock", key |-> k, mod |-> m] /\ Started
        /\ hotkey_states' = hotkey_states \cup {k}
        /\ UNCHANGED <<initVars, HotkeyMutex, io, key_bindings, boxVars, hk>>
    BY DEF KeyDown
  <1>2. TypeOK'
    BY <1>1 DEF IInv, TypeOK, boxVars, initVars, InputStates
  <1>3. Starting' /\ Scanning'
    BY <1>1 DEF IInv, Starting, Scanning, Started, Idle, initVars
  <1>4. Working' /\ Adding'
    BY <1>1, SameBindings
  <1> QED
    BY <1>2, <1>3, <1>4 DEF IInv

LEMMA KeyUpKeeps ==
    ASSUME IInv, NEW k \in Keys, KeyUp(k)
    PROVE  IInv'
  <1>1. hotkey_states' = hotkey_states \ {k}
        /\ UNCHANGED <<initVars, HotkeyMutex, io, key_bindings, input, boxVars, hk>>
    BY DEF KeyUp
  <1>2. TypeOK'
    BY <1>1 DEF IInv, TypeOK, boxVars, initVars
  <1>3. Starting' /\ Scanning'
    BY <1>1 DEF IInv, Starting, Scanning, Started, initVars
  <1>4. Working' /\ Adding'
    BY <1>1, SameBindings
  <1> QED
    BY <1>2, <1>3, <1>4 DEF IInv

LEMMA CursesKeyKeeps ==
    ASSUME IInv, NEW name \in CmdLines \cup {Empty}, CursesKey(name)
    PROVE  IInv'
  <1>1. input = Idle /\ input' = [at |-> "set", cmd |-> name] /\ Started
        /\ UNCHANGED <<initVars, HotkeyMutex, io, key_bindings, hotkey_states,
                       boxVars, hk>>
    BY DEF CursesKey, ToMailbox
  <1>2. TypeOK'
    BY <1>1 DEF IInv, TypeOK, boxVars, initVars, InputStates
  <1>3. Starting' /\ Scanning'
    BY <1>1 DEF IInv, Starting, Scanning, Started, Idle, initVars
  <1>4. Working' /\ Adding'
    BY <1>1, SameBindings
  <1> QED
    BY <1>2, <1>3, <1>4 DEF IInv

LEMMA SetHotkeyCmdKeeps ==
    ASSUME IInv, SetHotkeyCmd
    PROVE  IInv'
  <1>1. /\ input.at = "set" /\ HotkeyMutex = "free"
        /\ hotkey_set' = TRUE /\ hotkey_cmd' = input.cmd /\ input' = Idle
        /\ hk' = IF hk = "wait" THEN "lock" ELSE hk
        /\ UNCHANGED <<initVars, HotkeyMutex, io, key_bindings, hotkey_states>>
    BY DEF SetHotkeyCmd
  <1>2. input.cmd \in CmdLines \cup {Empty}
    BY <1>1, SetType DEF IInv
  <1>3. TypeOK'
    BY <1>1, <1>2 DEF IInv, TypeOK, initVars, InputStates
  <1>4. Starting' /\ Scanning'
    BY <1>1 DEF IInv, Starting, Scanning, Idle, initVars
  <1>5. Working' /\ Adding'
    BY <1>1, SameBindings
  <1> QED
    BY <1>3, <1>4, <1>5 DEF IInv

LEMMA SelectLockKeeps ==
    ASSUME IInv, SelectLock
    PROVE  IInv'
  <1>1. /\ input.at = "lock" /\ HotkeyMutex = "free" /\ HotkeyMutex' = "input"
        /\ input' = [at |-> "scan", key |-> input.key, mod |-> input.mod,
                     i |-> Len(key_bindings[input.key])]
        /\ UNCHANGED <<initVars, io, key_bindings, hotkey_states, boxVars, hk>>
    BY DEF SelectLock
  <1>2. input.key \in Keys /\ input.mod \in Mods /\ Len(key_bindings[input.key]) \in Nat
    BY <1>1, LockType DEF IInv
  <1>3. TypeOK'
    BY <1>1, <1>2 DEF IInv, TypeOK, boxVars, initVars, InputStates
  <1>4. Starting'
    BY <1>1 DEF IInv, Starting, Started, Idle, initVars
  <1>5. Scanning'
    BY <1>1, <1>2 DEF Scanning
  <1>6. Working' /\ Adding'
    BY <1>1, SameBindings
  <1> QED
    BY <1>3, <1>4, <1>5, <1>6 DEF IInv

LEMMA SelectNextKeeps ==
    ASSUME IInv, SelectNext
    PROVE  IInv'
  <1>1. /\ input.at = "scan" /\ input.i > 0
        /\ input' = [input EXCEPT !.i = @ - 1]
        /\ UNCHANGED <<initVars, HotkeyMutex, io, key_bindings, hotkey_states,
                       boxVars, hk>>
    BY DEF SelectNext
  <1>2. /\ input \in [at : {"scan"}, key : Keys, mod : Mods, i : Nat]
        /\ input.i \in Nat /\ Len(key_bindings[input.key]) \in Nat
    BY <1>1, ScanType DEF IInv
  <1>3. /\ input' \in [at : {"scan"}, key : Keys, mod : Mods, i : Nat]
        /\ input'.at = "scan" /\ input'.key = input.key /\ input'.i = input.i - 1
    BY <1>1, <1>2
  <1>4. TypeOK'
    BY <1>1, <1>3 DEF IInv, TypeOK, boxVars, initVars, InputStates
  <1>5. Starting'
    BY <1>1 DEF IInv, Starting, Started, Idle, initVars
  <1>6. Scanning'
    BY <1>1, <1>2, <1>3 DEF IInv, Scanning
  <1>7. Working' /\ Adding'
    BY <1>1, SameBindings
  <1> QED
    BY <1>4, <1>5, <1>6, <1>7 DEF IInv

\* The scan ends, with nothing or with a command for the mailbox.
LEMMA SelectedKeeps ==
    ASSUME IInv, input.at = "scan", NEW next, Selected(next),
           next = Idle \/ \E cmd \in CmdLines \cup {Empty} : next = ToMailbox(cmd)
    PROVE  IInv'
  <1>1. /\ HotkeyMutex' = "free" /\ input' = next
        /\ UNCHANGED <<initVars, io, key_bindings, hotkey_states, boxVars, hk>>
    BY DEF Selected
  <1>2. next \in InputStates /\ next.at # "scan"
    BY DEF InputStates, ToMailbox, Idle
  <1>3. TypeOK'
    BY <1>1, <1>2 DEF IInv, TypeOK, boxVars, initVars
  <1>4. Starting'
    <2>1. input # Idle /\ HotkeyMutex = "input"
      BY DEF IInv, Scanning, Idle
    <2> QED
      BY <1>1, <2>1 DEF IInv, Starting, Started, initVars
  <1>5. Scanning'
    BY <1>1, <1>2 DEF Scanning
  <1>6. Working' /\ Adding'
    BY <1>1, SameBindings
  <1> QED
    BY <1>3, <1>4, <1>5, <1>6 DEF IInv

LEMMA SelectBindingKeeps ==
    ASSUME IInv, SelectBinding
    PROVE  IInv'
  <1>1. /\ input.at = "scan" /\ input.i > 0
        /\ Selected(ToMailbox(key_bindings[input.key][input.i].cmdline))
    BY DEF SelectBinding
  <1>2. /\ input.i \in Nat /\ key_bindings[input.key] \in Seq(Bindings)
        /\ input.i <= Len(key_bindings[input.key])
    BY <1>1, ScanType DEF IInv, Scanning
  <1>3. key_bindings[input.key][input.i] \in Bindings
    BY <1>1, <1>2
  <1>4. key_bindings[input.key][input.i].cmdline \in CmdLines \cup {Empty}
    BY <1>3 DEF Bindings
  <1> QED
    BY <1>1, <1>4, SelectedKeeps

LEMMA SelectGameHotkeyKeeps ==
    ASSUME IInv, SelectGameHotkey
    PROVE  IInv'
  <1>1. input.at = "scan"
    BY DEF SelectGameHotkey
  <1>2. CASE Selected(Idle)
    BY <1>1, <1>2, SelectedKeeps
  <1>3. CASE \E name \in CmdLines \cup {Empty} : Selected(ToMailbox(name))
    BY <1>1, <1>3, SelectedKeeps
  <1> QED
    BY <1>2, <1>3 DEF SelectGameHotkey

\* The hotkey thread.
LEMMA HkKeeps ==
    ASSUME IInv, HkNext
    PROVE  IInv'
  <1>1. UNCHANGED <<initVars, HotkeyMutex, io, key_bindings, hotkey_states, input>>
    BY DEF HkNext, GetHotkeyCmd, HkSpurious, CommandReturns
  <1>2. /\ hotkey_set' \in BOOLEAN /\ hotkey_cmd' \in CmdLines \cup {Empty}
        /\ hk' \in {"none", "lock", "wait"} \cup CmdLines
    BY DEF HkNext, GetHotkeyCmd, HkSpurious, CommandReturns, IInv, TypeOK, boxVars
  <1>3. TypeOK'
    BY <1>1, <1>2 DEF IInv, TypeOK, initVars
  <1>4. Starting' /\ Scanning'
    BY <1>1 DEF IInv, Starting, Scanning, Started, initVars
  <1>5. Working' /\ Adding'
    BY <1>1, SameBindings
  <1> QED
    BY <1>3, <1>4, <1>5 DEF IInv

-----------------------------------------------------------------------------
(* The keybinding commands.                                                *)

LEMMA KeybindingCommandKeeps ==
    ASSUME IInv, NEW op \in {"clear", "set", "add"}, NEW k \in Keys, NEW m \in Mods,
           NEW lines \in Lists, KeybindingCommand(op, k, m, lines)
    PROVE  IInv'
  <1>1. /\ io = NoCommand /\ (op = "clear" <=> lines = <<>>)
        /\ io' = [op |-> op, key |-> k, mod |-> m, lines |-> lines,
                  cleared |-> (op = "add"), left |-> Len(lines)]
        /\ UNCHANGED <<initVars, HotkeyMutex, key_bindings, hotkey_states, input,
                       boxVars, hk>>
    BY DEF KeybindingCommand
  <1>2. lines \in Seq(CmdLines \cup {Empty}) /\ Len(lines) \in Nat
    BY HotkeysAssumption
  <1>3. io' \in IoCommands
    BY <1>1, <1>2 DEF IoCommands
  <1>4. /\ io'.op = op /\ io'.lines = lines /\ io'.left = Len(lines)
        /\ (io'.cleared <=> op = "add")
    BY <1>1
  <1>5. TypeOK'
    BY <1>1, <1>3 DEF IInv, TypeOK, boxVars, initVars
  <1>6. Starting' /\ Scanning'
    BY <1>1 DEF IInv, Starting, Scanning, Started, initVars
  <1>7. Working'
    <2>1. op = "add" => Len(lines) >= 1
      BY <1>1, <1>2
    <2> QED
      BY <1>1, <1>2, <1>4, <2>1 DEF Working
  <1>8. Adding'
    BY <1>4 DEF Adding
  <1> QED
    BY <1>5, <1>6, <1>7, <1>8 DEF IInv

\* Bindings with other modifiers are other bindings.
LEMMA OtherModifiers ==
    ASSUME NEW m, NEW n, m # n
    PROVE  BindingsWith(m) \cap BindingsWith(n) = {}
  BY DEF BindingsWith

\* ClearKeyBindings leaves none with its modifiers, and the others as they are.
LEMMA Cleared ==
    ASSUME IInv, ClearKeyBindings
    PROVE  /\ key_bindings' \in [Keys -> Seq(Bindings)]
           /\ Found(key_bindings', io.key, io.mod) = <<>>
           /\ \A k \in Keys, m \in Mods : <<k, m>> # <<io.key, io.mod>> =>
                Found(key_bindings', k, m) = Found(key_bindings, k, m)
  <1>1. PICK key, mod, s, d :
          /\ key = io.key /\ mod = io.mod /\ s = key_bindings[key]
          /\ d = Drop(s, BindingsWith(mod))
    OBVIOUS
  <1>2. /\ key_bindings' = [key_bindings EXCEPT ![key] = d]
        /\ key \in Keys /\ key_bindings \in [Keys -> Seq(Bindings)]
    BY <1>1, CommandType DEF ClearKeyBindings, IInv, TypeOK
  <1>3. s \in Seq(Bindings)
    BY <1>1, <1>2
  <1>4. d \in Seq(Bindings)
    BY <1>1, <1>3, Dropped
  <1>5. key_bindings' \in [Keys -> Seq(Bindings)]
    BY <1>2, <1>4
  <1>6. key_bindings'[key] = d /\ \A k \in Keys : k # key => key_bindings'[k] = key_bindings[k]
    BY <1>2
  <1>7. Found(key_bindings', key, mod) = <<>>
    <2>1. Keep(Drop(s, BindingsWith(mod)), BindingsWith(mod)) = <<>>
      BY <1>3, DroppedNotKept
    <2> QED
      BY <1>1, <1>6, <2>1 DEF Found
  <1>8. ASSUME NEW k \in Keys, NEW m \in Mods, <<k, m>> # <<key, mod>>
        PROVE  Found(key_bindings', k, m) = Found(key_bindings, k, m)
    <2>1. CASE k # key
      BY <1>6, <2>1 DEF Found
    <2>2. CASE k = key
      <3>1. m # mod
        BY <1>8, <2>2
      <3>2. BindingsWith(m) \cap BindingsWith(mod) = {}
        BY <3>1, OtherModifiers
      <3>3. Keep(Drop(s, BindingsWith(mod)), BindingsWith(m)) = Keep(s, BindingsWith(m))
        BY <1>3, <3>2, KeptOfDropped
      <3> QED
        BY <1>1, <1>6, <2>2, <3>3 DEF Found
    <2> QED
      BY <2>1, <2>2
  <1> QED
    BY <1>1, <1>5, <1>7, <1>8

\* AddKeyBinding appends a binding that is not there, and leaves the others as
\* they are.
LEMMA Added ==
    ASSUME IInv, AddKeyBinding
    PROVE  /\ key_bindings' \in [Keys -> Seq(Bindings)]
           /\ \A k \in Keys, m \in Mods : <<k, m>> # <<io.key, io.mod>> =>
                Found(key_bindings', k, m) = Found(key_bindings, k, m)
  <1>1. PICK key, mod, line, binding, s :
          /\ key = io.key /\ mod = io.mod /\ line = io.lines[io.left]
          /\ binding = [modifiers |-> mod, cmdline |-> line]
          /\ s = key_bindings[key]
    OBVIOUS
  <1>2. key \in Keys /\ mod \in Mods /\ key_bindings \in [Keys -> Seq(Bindings)]
    BY <1>1, CommandType DEF AddKeyBinding, IInv, TypeOK
  <1>3. s \in Seq(Bindings)
    BY <1>1, <1>2
  <1>4. CASE key_bindings' = key_bindings
    BY <1>2, <1>4 DEF Found
  <1>5. CASE key_bindings' # key_bindings
    <2>1. line # Empty /\ key_bindings' = [key_bindings EXCEPT ![key] = Append(s, binding)]
      BY <1>1, <1>5 DEF AddKeyBinding
    <2>2. binding \in Bindings
      <3>1. /\ io.lines \in Seq(CmdLines \cup {Empty})
            /\ io.left \in Nat /\ io.left >= 1 /\ io.left <= Len(io.lines)
        BY CommandType DEF AddKeyBinding, IInv, Working
      <3>2. line \in CmdLines
        BY <1>1, <2>1, <3>1
      <3> QED
        BY <1>1, <1>2, <3>2 DEF Bindings
    <2>3. Append(s, binding) \in Seq(Bindings)
      BY <1>3, <2>2
    <2>4. key_bindings' \in [Keys -> Seq(Bindings)]
      BY <1>2, <2>1, <2>3
    <2>5. ASSUME NEW k \in Keys, NEW m \in Mods, <<k, m>> # <<key, mod>>
          PROVE  Found(key_bindings', k, m) = Found(key_bindings, k, m)
      <3>1. CASE k # key
        BY <1>2, <2>1, <3>1 DEF Found
      <3>2. CASE k = key
        <4>1. binding \notin BindingsWith(m)
          BY <1>1, <2>5, <3>2 DEF BindingsWith
        <4>2. Keep(Append(s, binding), BindingsWith(m)) = Keep(s, BindingsWith(m))
          BY <1>3, <2>2, <4>1, KeptBeforeAppended
        <4> QED
          BY <1>1, <1>2, <2>1, <3>2, <4>2 DEF Found
      <3> QED
        BY <3>1, <3>2
    <2> QED
      BY <1>1, <2>4, <2>5
  <1> QED
    BY <1>4, <1>5

\* What keybinding set has bound grows by the line it adds.
LEMMA AddedBound ==
    ASSUME IInv, AddKeyBinding, io.op = "set", Distinct(io.lines)
    PROVE  /\ io.lines[io.left] # Empty
           /\ Len(Found(key_bindings', io.key, io.mod)) = Len(io.lines) - io.left + 1
           /\ \A i \in 1 .. Len(io.lines) - io.left + 1 :
                Found(key_bindings', io.key, io.mod)[i] =
                  [modifiers |-> io.mod, cmdline |-> io.lines[Len(io.lines) + 1 - i]]
  <1>1. PICK key, mod, lines, left, n, line, binding, s, P, f :
          /\ key = io.key /\ mod = io.mod /\ lines = io.lines /\ left = io.left
          /\ n = Len(lines) /\ line = lines[left]
          /\ binding = [modifiers |-> mod, cmdline |-> line]
          /\ s = key_bindings[key] /\ P = BindingsWith(mod) /\ f = Keep(s, P)
    OBVIOUS
  <1>2. /\ key \in Keys /\ mod \in Mods /\ key_bindings \in [Keys -> Seq(Bindings)]
        /\ lines \in Seq(CmdLines \cup {Empty}) /\ left \in Nat /\ n \in Nat
        /\ 1 <= left /\ left <= n /\ DOMAIN lines = 1 .. n
    BY <1>1, CommandType DEF AddKeyBinding, IInv, TypeOK, Working
  <1>3. s \in Seq(Bindings) /\ f \in Seq(Bindings)
    <2>1. s \in Seq(Bindings)
      BY <1>1, <1>2
    <2> QED
      BY <1>1, <2>1, KeptType
  <1>4. /\ Len(f) = n - left
        /\ \A i \in 1 .. n - left :
             f[i] = [modifiers |-> mod, cmdline |-> lines[n + 1 - i]]
    BY <1>1 DEF AddKeyBinding, IInv, Adding, Bound, Found
  <1>5. left \in 1 .. n
    BY <1>2
  <1>6. line # Empty
    BY <1>1, <1>2, <1>5 DEF Distinct, ToSet
  <1>7. binding \in Bindings /\ binding \in P
    <2>1. line \in CmdLines
      BY <1>1, <1>2, <1>5, <1>6
    <2> QED
      BY <1>1, <1>2, <2>1 DEF Bindings, BindingsWith
  <1>8. ~Contains(s, binding)
    <2> SUFFICES ASSUME Contains(s, binding) PROVE FALSE
      OBVIOUS
    <2>1. binding \in ToSet(s)
      BY <1>3 DEF Contains, ToSet
    <2>2. ToSet(f) = ToSet(s) \cap P
      BY <1>1, <1>3, KeptSet
    <2>3. binding \in ToSet(f)
      BY <1>7, <2>1, <2>2
    <2>4. PICK i \in 1 .. n - left : f[i] = binding
      BY <1>3, <1>4, <2>3 DEF ToSet
    <2>5. f[i].cmdline = lines[n + 1 - i]
      BY <1>4
    <2>6. lines[n + 1 - i] = lines[left]
      BY <1>1, <2>4, <2>5
    <2>7. n + 1 - i \in 1 .. n /\ n + 1 - i # left
      BY <1>2
    <2> QED
      BY <1>1, <1>2, <1>5, <2>6, <2>7 DEF Distinct, IsInjective
  <1>9. key_bindings'[key] = Append(s, binding)
    BY <1>1, <1>2, <1>6, <1>8 DEF AddKeyBinding
  <1>10. Found(key_bindings', key, mod) = Append(f, binding)
    <2>1. Keep(Append(s, binding), P) = Append(Keep(s, P), binding)
      BY <1>3, <1>7, KeptOfAppended
    <2> QED
      BY <1>1, <1>9, <2>1 DEF Found
  <1>11. PICK r, m : r = Append(f, binding) /\ m = n - left
    OBVIOUS
  <1>12. m \in Nat /\ Len(r) = m + 1 /\ r[m + 1] = binding
         /\ \A i \in 1 .. m : r[i] = f[i]
    BY <1>2, <1>3, <1>4, <1>7, <1>11
  <1>13. ASSUME NEW i \in 1 .. m + 1
         PROVE  r[i] = [modifiers |-> mod, cmdline |-> lines[n + 1 - i]]
    <2>1. CASE i \in 1 .. m
      BY <1>4, <1>11, <1>12, <2>1
    <2>2. CASE i = m + 1
      <3>1. n + 1 - i = left
        BY <1>2, <1>11, <2>2
      <3> QED
        BY <1>1, <1>12, <2>2, <3>1
    <2> QED
      BY <1>12, <2>1, <2>2
  <1> QED
    BY <1>1, <1>6, <1>10, <1>11, <1>12, <1>13

LEMMA ClearKeeps ==
    ASSUME IInv, ClearKeyBindings
    PROVE  IInv'
  <1>1. /\ io # NoCommand /\ HotkeyMutex = "free" /\ ~io.cleared
        /\ io' = IF io.op = "clear" THEN NoCommand ELSE [io EXCEPT !.cleared = TRUE]
        /\ UNCHANGED <<initVars, HotkeyMutex, hotkey_states, input, boxVars, hk>>
    BY DEF ClearKeyBindings
  <1>2. /\ io \in IoCommands /\ io.lines \in Seq(CmdLines \cup {Empty})
        /\ io.left \in Nat /\ Len(io.lines) \in Nat
    BY <1>1, CommandType DEF IInv
  <1>3. key_bindings' \in [Keys -> Seq(Bindings)]
    BY Cleared
  <1>4. io' \in IoCommands \cup {NoCommand}
    BY <1>1, <1>2 DEF IoCommands
  <1>5. TypeOK'
    BY <1>1, <1>3, <1>4 DEF IInv, TypeOK, boxVars, initVars
  <1>6. Starting' /\ Scanning'
    BY <1>1 DEF IInv, Starting, Scanning, Started, initVars
  <1>7. Working' /\ Adding'
    <2>1. CASE io.op = "clear"
      BY <1>1, <2>1 DEF Working, Adding
    <2>2. CASE io.op # "clear"
      <3>1. /\ io'.op = io.op /\ io'.key = io.key /\ io'.mod = io.mod
            /\ io'.lines = io.lines /\ io'.left = io.left /\ io'.cleared
        BY <1>1, <1>2, <2>2 DEF IoCommands
      <3>2. io.left = Len(io.lines) /\ io.lines # <<>>
        BY <1>1, <2>2 DEF IInv, Working
      <3>3. io.left >= 1
        BY <1>2, <3>2
      <3>4. Working'
        BY <1>2, <2>2, <3>1, <3>2, <3>3 DEF Working
      <3>5. Len(Found(key_bindings', io.key, io.mod)) = 0
        BY Cleared
      <3>6. Len(io.lines) - io.left = 0
        BY <1>2, <3>2
      <3>7. Adding'
        BY <3>1, <3>5, <3>6 DEF Adding, Bound
      <3> QED
        BY <3>4, <3>7
    <2> QED
      BY <2>1, <2>2
  <1> QED
    BY <1>5, <1>6, <1>7 DEF IInv

LEMMA AddKeeps ==
    ASSUME IInv, AddKeyBinding
    PROVE  IInv'
  <1>1. /\ io # NoCommand /\ HotkeyMutex = "free" /\ io.cleared
        /\ io' = IF io.left = 1 \/ io.lines[io.left] = Empty
                 THEN NoCommand ELSE [io EXCEPT !.left = @ - 1]
        /\ UNCHANGED <<initVars, HotkeyMutex, hotkey_states, input, boxVars, hk>>
    BY DEF AddKeyBinding, NextLine
  <1>2. /\ io \in IoCommands /\ io.lines \in Seq(CmdLines \cup {Empty})
        /\ io.left \in Nat /\ Len(io.lines) \in Nat
        /\ io.left >= 1 /\ io.left <= Len(io.lines) /\ io.op # "clear"
    BY <1>1, CommandType DEF IInv, Working
  <1>3. key_bindings' \in [Keys -> Seq(Bindings)]
    BY Added
  <1>4. CASE io' = NoCommand
    <2>1. TypeOK'
      BY <1>1, <1>3, <1>4 DEF IInv, TypeOK, boxVars, initVars
    <2>2. Starting' /\ Scanning'
      BY <1>1 DEF IInv, Starting, Scanning, Started, initVars
    <2>3. Working' /\ Adding'
      BY <1>4 DEF Working, Adding
    <2> QED
      BY <2>1, <2>2, <2>3 DEF IInv
  <1>5. CASE io' # NoCommand
    <2>1. io.left # 1 /\ io' = [io EXCEPT !.left = @ - 1]
      BY <1>1, <1>5
    <2>2. /\ io' \in IoCommands
          /\ io'.op = io.op /\ io'.key = io.key /\ io'.mod = io.mod
          /\ io'.lines = io.lines /\ io'.left = io.left - 1 /\ io'.cleared
      BY <1>1, <1>2, <2>1 DEF IoCommands
    <2>3. TypeOK'
      BY <1>1, <1>3, <2>2 DEF IInv, TypeOK, boxVars, initVars
    <2>4. Starting' /\ Scanning'
      BY <1>1 DEF IInv, Starting, Scanning, Started, initVars
    <2>5. Working'
      BY <1>1, <1>2, <2>1, <2>2 DEF IInv, Working
    <2>6. Adding'
      <3>1. Len(io.lines) - io'.left = Len(io.lines) - io.left + 1
        BY <1>2, <2>2
      <3>2. SUFFICES ASSUME io.op = "set", Distinct(io.lines)
                     PROVE  Bound(Found(key_bindings, io.key, io.mod))'
        BY <2>2 DEF Adding
      <3>3. /\ Len(Found(key_bindings', io.key, io.mod)) = Len(io.lines) - io.left + 1
            /\ \A i \in 1 .. Len(io.lines) - io.left + 1 :
                 Found(key_bindings', io.key, io.mod)[i] =
                   [modifiers |-> io.mod, cmdline |-> io.lines[Len(io.lines) + 1 - i]]
        BY <3>2, AddedBound
      <3> QED
        BY <2>2, <3>1, <3>3 DEF Bound
    <2> QED
      BY <2>3, <2>4, <2>5, <2>6 DEF IInv
  <1> QED
    BY <1>4, <1>5

-----------------------------------------------------------------------------
(* Theorems.                                                               *)

LEMMA InitKeeps ==
    ASSUME Init
    PROVE  IInv
  <1>1. key_bindings \in [Keys -> Seq(Bindings)]
    <2>1. <<>> \in Seq(Bindings)
      OBVIOUS
    <2> QED
      BY <2>1 DEF Init
  <1>2. TypeOK
    <2>1. init \in 1 .. Len(InitSteps)
      BY StepsOfInit DEF Init
    <2> QED
      BY <1>1, <2>1 DEF Init, TypeOK, InputStates
  <1>3. Starting /\ Scanning
    BY StepsOfInit DEF Init, Starting, Scanning, Idle
  <1>4. Working /\ Adding
    BY DEF Init, Working, Adding
  <1> QED
    BY <1>2, <1>3, <1>4 DEF IInv

LEMMA NextKeeps ==
    ASSUME IInv, [Next]_vars
    PROVE  IInv'
  <1>1. CASE InitStep
    BY <1>1, InitStepKeeps
  <1>2. CASE IoNext
    BY <1>2, KeybindingCommandKeeps, IoCrashKeeps, ClearKeeps, AddKeeps DEF IoNext
  <1>3. CASE InputNext
    <2>1. CASE \E k \in Keys, m \in Mods : KeyDown(k, m)
      BY <2>1, KeyDownKeeps
    <2>2. CASE \E k \in Keys : KeyUp(k)
      BY <2>2, KeyUpKeeps
    <2>3. CASE \E name \in CmdLines \cup {Empty} : CursesKey(name)
      BY <2>3, CursesKeyKeeps
    <2>4. CASE SelectLock \/ SelectNext \/ SelectBinding \/ SelectGameHotkey \/ SetHotkeyCmd
      BY <2>4, SelectLockKeeps, SelectNextKeeps, SelectBindingKeeps,
         SelectGameHotkeyKeeps, SetHotkeyCmdKeeps
    <2> QED
      BY <1>3, <2>1, <2>2, <2>3, <2>4 DEF InputNext
  <1>4. CASE HkNext
    BY <1>4, HkKeeps
  <1>5. CASE UNCHANGED vars
    <2>1. UNCHANGED <<init, HotkeyMutex, crashed, io, key_bindings, hotkey_states,
                      input, hotkey_set, hotkey_cmd, hk>>
      BY <1>5 DEF vars
    <2>2. TypeOK'
      BY <2>1 DEF IInv, TypeOK
    <2>3. Starting' /\ Scanning'
      BY <2>1 DEF IInv, Starting, Scanning, Started
    <2>4. Working' /\ Adding'
      BY <2>1, SameBindings
    <2> QED
      BY <2>2, <2>3, <2>4 DEF IInv
  <1> QED
    BY <1>1, <1>2, <1>3, <1>4, <1>5 DEF Next

\* The invariant holds as long as the program runs.
THEOREM Invariance == SafeSpec => []IInv
  <1>1. Init => IInv
    BY InitKeeps
  <1>2. IInv /\ [Next]_vars => IInv'
    BY NextKeeps
  <1> QED
    BY <1>1, <1>2, PTL DEF SafeSpec

\* Every variable of Hotkeys keeps its type: in particular the scan stays
\* within its vector, and what is bound or sent to the mailbox is a line.
THEOREM TypeCorrect == SafeSpec => []TypeOK
  <1>1. IInv => TypeOK
    BY DEF IInv
  <1> QED
    BY <1>1, Invariance, PTL

\* SelectHotkey's scan, however long plugins take to answer, sees one table,
\* and never looks behind its end.
THEOREM ScansSeeOneTable == SafeSpec => ScanSeesOneTable
  <1>1. ASSUME IInv, [Next]_vars, input.at = "scan"
        PROVE  UNCHANGED key_bindings /\ input.i <= Len(key_bindings[input.key])
    <2>1. HotkeyMutex # "free" /\ input.i <= Len(key_bindings[input.key])
      BY <1>1 DEF IInv, Scanning
    <2>2. UNCHANGED key_bindings
      BY <1>1, <2>1 DEF Next, InitStep, IoNext, KeybindingCommand, IoCrash,
         ClearKeyBindings, AddKeyBinding, InputNext, KeyDown, KeyUp, SelectLock,
         SelectNext, Selected, SelectBinding, SelectGameHotkey, CursesKey,
         SetHotkeyCmd, HkNext, GetHotkeyCmd, HkSpurious, CommandReturns, vars
    <2> QED
      BY <2>1, <2>2
  <1>2. IInv /\ [Next]_vars =>
          [input.at = "scan" =>
             UNCHANGED key_bindings /\ input.i <= Len(key_bindings[input.key])]_vars
    BY <1>1
  <1> QED
    BY <1>2, Invariance, PTL DEF SafeSpec, ScanSeesOneTable

\* The bindings change in two steps only.
LEMMA WhoBinds ==
    ASSUME [Next]_vars, key_bindings' # key_bindings
    PROVE  io # NoCommand /\ (ClearKeyBindings \/ AddKeyBinding)
  BY DEF Next, InitStep, IoNext, KeybindingCommand, IoCrash,
     ClearKeyBindings, AddKeyBinding, InputNext, KeyDown, KeyUp, SelectLock,
     SelectNext, Selected, SelectBinding, SelectGameHotkey, CursesKey,
     SetHotkeyCmd, HkNext, GetHotkeyCmd, HkSpurious, CommandReturns, vars

\* A keybinding set ends with its first line.
LEMMA WhoEnds ==
    ASSUME IInv, [Next]_vars, Complete("set")
    PROVE  AddKeyBinding /\ io.op = "set" /\ Distinct(io.lines)
  <1>1. io # NoCommand /\ io' # io /\ io.op = "set" /\ Distinct(io.lines)
    BY DEF Complete, Distinct
  <1>2. ClearKeyBindings \/ AddKeyBinding
    BY <1>1 DEF Next, InitStep, IoNext, KeybindingCommand, IoCrash,
       InputNext, KeyDown, KeyUp, SelectLock, SelectNext, Selected, SelectBinding,
       SelectGameHotkey, CursesKey, SetHotkeyCmd, HkNext, GetHotkeyCmd, HkSpurious,
       CommandReturns, vars
  <1>3. ~ClearKeyBindings
    <2> SUFFICES ASSUME ClearKeyBindings PROVE FALSE
      OBVIOUS
    <2>1. io' = [io EXCEPT !.cleared = TRUE] /\ io' = NoCommand
      BY <1>1 DEF ClearKeyBindings, Complete
    <2>2. io \in IoCommands
      BY <1>1, CommandType DEF IInv
    <2>3. io'.op = "set"
      BY <1>1, <2>1, <2>2 DEF IoCommands
    <2> QED
      BY <2>1, <2>3 DEF NoCommand
  <1> QED
    BY <1>1, <1>2, <1>3

\* Whatever is pressed while keybinding set clears and adds, its lines are in
\* the end the bindings of its key, the first one first, and no command
\* touches the bindings of other keys or modifiers.
THEOREM SetsBindExactly == SafeSpec => SetBindsExactly
  <1>1. ASSUME IInv, [Next]_vars, Complete("set")
        PROVE  ListKeyBindings(key_bindings', io.key, io.mod) = io.lines
    <2>1. AddKeyBinding /\ io.op = "set" /\ Distinct(io.lines)
      BY <1>1, WhoEnds
    <2>2. PICK lines, n, f :
            /\ lines = io.lines /\ n = Len(lines)
            /\ f = Found(key_bindings', io.key, io.mod)
      OBVIOUS
    <2>3. io \in IoCommands /\ lines \in Seq(CmdLines \cup {Empty}) /\ io.left \in Nat
      BY <1>1, <2>1, <2>2, CommandType DEF AddKeyBinding, IInv
    <2>4. io.left = 1
      <3>1. io.lines[io.left] # Empty
        BY <1>1, <2>1, AddedBound
      <3>2. io' = NoCommand
        BY <1>1 DEF Complete
      <3>3. [io EXCEPT !.left = @ - 1] # NoCommand
        <4>1. [io EXCEPT !.left = @ - 1].op = "set"
          BY <2>1, <2>3 DEF IoCommands
        <4> QED
          BY <4>1 DEF NoCommand
      <3> QED
        BY <2>1, <3>1, <3>2, <3>3 DEF AddKeyBinding, NextLine
    <2>5. /\ Len(f) = Len(io.lines) - io.left + 1
          /\ \A i \in 1 .. Len(io.lines) - io.left + 1 :
               f[i] = [modifiers |-> io.mod, cmdline |-> io.lines[Len(io.lines) + 1 - i]]
      BY <1>1, <2>1, <2>2, AddedBound
    <2>6. /\ n \in Nat /\ Len(io.lines) - io.left + 1 = n
          /\ lines = [i \in 1 .. n |-> lines[i]]
      BY <2>2, <2>3, <2>4
    <2>7. Len(f) = n /\ \A i \in 1 .. n : f[i].cmdline = lines[n + 1 - i]
      <3>1. \A i \in 1 .. n : f[i] = [modifiers |-> io.mod, cmdline |-> lines[n + 1 - i]]
        BY <2>2, <2>5, <2>6
      <3>2. ASSUME NEW i \in 1 .. n PROVE f[i].cmdline = lines[n + 1 - i]
        <4>1. f[i] = [modifiers |-> io.mod, cmdline |-> lines[n + 1 - i]]
          BY <3>1
        <4> QED
          BY <4>1
      <3> QED
        BY <2>5, <2>6, <3>2
    <2>8. ASSUME NEW i \in 1 .. n PROVE f[n + 1 - i].cmdline = lines[i]
      <3>1. n + 1 - i \in 1 .. n /\ n + 1 - (n + 1 - i) = i
        BY <2>6
      <3>2. f[n + 1 - i].cmdline = lines[n + 1 - (n + 1 - i)]
        BY <2>7, <3>1
      <3> QED
        BY <3>1, <3>2
    <2>9. ListKeyBindings(key_bindings', io.key, io.mod) =
            [i \in 1 .. n |-> f[n + 1 - i].cmdline]
      BY <2>2, <2>7 DEF ListKeyBindings
    <2>10. [i \in 1 .. n |-> f[n + 1 - i].cmdline] = [i \in 1 .. n |-> lines[i]]
      BY <2>8
    <2> QED
      BY <2>2, <2>6, <2>9, <2>10
  <1>2. ASSUME IInv, [Next]_vars, NEW k \in Keys, NEW m \in Mods,
               io = NoCommand \/ <<k, m>> # <<io.key, io.mod>>
        PROVE  ListKeyBindings(key_bindings', k, m) = ListKeyBindings(key_bindings, k, m)
    <2>1. CASE key_bindings' = key_bindings
      BY <2>1
    <2>2. CASE key_bindings' # key_bindings
      <3>1. io # NoCommand /\ (ClearKeyBindings \/ AddKeyBinding)
        BY <1>2, <2>2, WhoBinds
      <3>2. Found(key_bindings', k, m) = Found(key_bindings, k, m)
        BY <1>2, <3>1, Cleared, Added
      <3> QED
        BY <3>2 DEF ListKeyBindings
    <2> QED
      BY <2>1, <2>2
  <1>3. IInv /\ [Next]_vars =>
          [/\ Complete("set") =>
                ListKeyBindings(key_bindings', io.key, io.mod) = io.lines
           /\ \A k \in Keys, m \in Mods :
                io = NoCommand \/ <<k, m>> # <<io.key, io.mod>>
                => ListKeyBindings(key_bindings', k, m)
                     = ListKeyBindings(key_bindings, k, m)]_vars
    BY <1>1, <1>2
  <1> QED
    BY <1>3, Invariance, PTL DEF SafeSpec, SetBindsExactly
=============================================================================
