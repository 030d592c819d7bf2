# DFHack in TLA+

DFHack is a library that is loaded into a running game, Dwarf Fortress. It
takes over a few functions the game calls (`library/Hooks-*.cpp`), starts two
threads of its own, a console and a hotkey thread, and runs the commands of
plugins on them. The commands read and write the memory of a program that is
running at the same time, so almost everything that can go badly wrong lies in
who may run when: between the game's simulation thread, its input thread, the
console, the hotkey thread, and plugins that are loaded and unloaded while
others use them. What the commands then do has its own difficulties: they keep
pointers and copies of the game's memory from one tick, one command or one
world to the next. Both are modelled, checked and proved here.

Paths below are relative to the repository.

## 1. Inventory

### The threads

| thread | enters DFHack through | runs |
|---|---|---|
| simulation | `SDL_NumJoysticks` -> `Core::Update`, once a tick | `plugin_onstatechange`, `plugin_onupdate`, then waits for the tools that suspended it |
| input | `SDL_PollEvent` -> `Core::SDL_Event`; `wgetch` -> `Core::ncurses_wgetch` | hotkey guards of plugins, the hotkey mailbox |
| console (`fIOthread`) | `Core::Init` | `dfhack.init`, then the commands typed: Core's own, and plugins' |
| hotkey (`fHKthread`) | `Core::Init` | the commands of hotkeys |
| main | `SDL_Quit` -> `Core::Shutdown` | deletes the plugins, closes the console |

### The components

**Suspend and Resume** (`Core.cpp`). State: the stack `suspended_tools` of
conditions, one per waiting tool, allocated by the tool and deleted by Update;
`core_cond`, on which Update waits; `StackMutex`, `AccessMutex`. Operations:
`Suspend`, `Resume`, the loop of `Update`. Hard: two mutexes and two kinds of
condition variables between any number of tools and one server, predicates,
spurious wakeups, memory that changes hands, last in first out. Correct when a
tool that got the game is alone with it, no wakeup is lost, no condition is
used after it is deleted, every Suspend returns and so does every Update.

**Plugin manager** (`PluginManager.cpp`). State: per plugin a state (unloaded,
loaded, broken), a mapped library, a command vector, and a `RefLock` (mutex,
count, condition variable); the table `belongs` from command names to plugins,
under `cmdlist_mutex`. Operations: `load`, `unload`, `reload` (console thread),
`invoke` (console and hotkey thread), `can_invoke_hotkey` (input thread),
`on_update`, `on_state_change` (simulation thread). Hard: a library must not be
unmapped under a call, the wait in `unload` releases its lock in the middle,
guards are evaluated on one thread and commands run on another. Correct when no
code of an unmapped library runs, the command list is still under a call,
counts are exact, the table agrees with what is loaded, and a guarded command
finds the screen its guard accepted.

**Update and state-change detection** (`Core.cpp`). State: the last world and
the last viewscreen seen. Correct when a plugin knows of the world it is
updated in.

**Hotkeys and key bindings** (`Core.cpp`). State: `key_bindings`, a vector per
key; `hotkey_states`; the one-place mailbox `hotkey_set`, `hotkey_cmd`; all but
`hotkey_states` under `HotkeyMutex`. Operations: `keybinding
clear/set/add/list` on the console thread, `SDL_Event`, `SelectHotkey`,
`ncurses_wgetch`, `setHotkeyCmd` on the input thread, `getHotkeyCmd` on the
hotkey thread. Hard: `set` is several critical sections, the scan calls into
plugins, the mailbox overwrites. Correct when a scan sees one table, `set` ends
with what it was given, there are no duplicates, the newest hotkey is taken.

**Start and shutdown** (`Core::Init`, `Core::Shutdown`). Hard: threads start
while the objects they use are still being created; Shutdown waits for calls to
leave plugins while nothing makes them leave.

**Console** (`Console-linux.cpp`, `Console-windows.cpp`). State: `wlock`, the
mode of the terminal and the one to restore, whether there is a prompt, the
exit pipe. Operations: `lineedit`, which gives `wlock` away for every
character, `vprint`, `<<`, `shutdown`. Hard: prompts of two threads, prints in
the middle of a prompt, `sync` without the lock, shutdown while somebody reads.
Correct when the terminal is raw exactly during a prompt, is given back, and
the console thread ends after shutdown.

**Data registry** (`RegisterData`, `GetData`): a map under a mutex.

**Map access** (`modules/Maps.cpp`, `MapCache.h`). State: a write-back cache of
map blocks, per block the parts that are dirty. Operations: read and set a
tile's type, designation and occupancy, set block flags, `WriteAll`, `trash`.
Hard: what is copied when, what is written back, and tools that change the map
behind the cache. Correct when a tool cannot tell it from editing the map
directly, and the game finds what is to be dug.

**Reveal** (`plugins/reveal.cpp`). State: what was hidden, for which map size,
whether and how the map is revealed, `nopause_state`; all of it outlives the
command and the world. Operations: `reveal`, `unreveal`, `revtoggle`,
`revflood`, `nopause`, the hook. Hard: `revealed` is tested before the game is
suspended, worlds change in between, a size is all that tells them apart.
Correct when what was shown is hidden again and hell keeps the game paused.

**Workflow** (`plugins/workflow.cpp`). State: protected jobs, those lost and to
be recovered, constraints, each with pointers to the others and to the game's
jobs. Operations: the hook (look for lost jobs, recover, map jobs to
constraints, suspend and resume), the command, loading and unloading worlds.
Hard: the game deletes jobs between two ticks, the plugin deletes its own, and
pointers stay behind; recovery is delayed, blocked, forgotten. Correct when a
lost job is remembered once and settled, the game's lists stay consistent, no
dangling pointer is followed, and a limit stops production.

**Autodump** (`plugins/autodump.cpp`) and the **painters** (`tiletypes`,
`liquids`, `vdig`, `filltraffic`): one command under one suspension, through a
`MapCache`. Correct when item bits and block vectors agree with where items lie.

**Game modules** (`library/modules`), **data definitions** (`DataDefs.cpp`,
`VersionInfoFactory.cpp`, `Process-*.cpp`): accessors to the game's memory.

**Other plugins** (`plugins/`): some thirty. With state that outlives a
command: `seedwatch`, `fastdwarf`, `versionosd`, the brushes of `liquids` and
`tiletypes`. The rest walk over the map, the items or the creatures once under a
`CoreSuspender`, or are scripts (Dfusion).

**Vendored code** (`library/depends`, `lua`), **tools** and build files.

### How they interact

A command runs inside `Plugin::invoke`, which holds a reference on the plugin
and, if the command has a guard, the game. A command without a guard suspends
the game itself. Update calls every plugin through the same reference count, and
serves the tools after that. A key press asks plugins for their guards with
`HotkeyMutex` held and a reference on the plugin. So the locks nest as
`HotkeyMutex` > `RefLock::mut`, reference > game, and the game's server takes
`RefLock::mut` on every tick.

`PROJECT.json` lists the hazards of this code, each at its line with the
properties that watch it, and those that no property covers yet.

## 2. Modules

| module | what it is |
|---|---|
| `ActivityLock` | what Suspend and Resume promise: the game yields, at most one tool owns it, it regains itself when nobody does |
| `CoreSuspend` | how they do it: conditions, stack, mutexes, `core_cond`; implements `ActivityLock` |
| `CoreSuspend_proofs` | the inductive invariant of `CoreSuspend` and its theorems |
| `PluginLifecycle` | plugins loaded, unloaded and called by four threads, over an instance of `ActivityLock` |
| `PluginLifecycle_proofs` | the inductive invariant of `PluginLifecycle` and its theorems |
| `Hotkeys` | key bindings, the scan, the mailbox, and the part of Init in which their threads start |
| `Hotkeys_proofs` | its inductive invariant and theorems |
| `Console` | the terminal: prompts, prints, stream writes, and Shutdown |
| `Console_proofs` | its inductive invariant and theorems |
| `Reveal` | what reveal saves and restores, from two threads and through worlds |
| `Reveal_proofs` | its inductive invariant and theorems |
| `TileMap` | what a `MapCache` promises: edits seen at once, committed together or forgotten |
| `MapCache` | how it does it: copies, dirty parts, `Write`, `trash`; implements `TileMap` |
| `MapTools` | revflood, autodump and a painter, each one command on a `MapCache` |
| `MapTools_proofs` | what the operations of the cache do to the map a tool sees, that `MapCache` implements `TileMap`, and the commands' invariants and theorems |
| `Workflow` | protected jobs, recovery and constraints between the game and the player |
| `Workflow_proofs` | its inductive invariant and theorems |
| `Sublists` | parts of sequences by position: what erasing elements of a vector leaves |
| `Sublists_proofs` | facts about sequences that the other proofs cite |
| `MC*` | the instances TLC checks |

### CoreSuspend

One action is one critical section of `AccessMutex` or `StackMutex`, or a step
outside both. `AccessMutex` is only ever held within an action and needs no
variable; `StackMutex` is held by Update for its whole loop and has one.
`Cond::Lock` is a loop, one action a turn (`SuspendTest` for a tool,
`UpdateWake` and `UpdateResumed` for `core_cond`); `wait` may return
spuriously (`ToolSpurious`, `SimSpurious`). A condition is an address of
`Conds`, free to be allocated again as soon as it is deleted. Update's test of
`errorstate` and its loop are steps apart, since Shutdown may come in between.

### PluginLifecycle

`pc[t]` says where thread `t` is: a call goes `enter` (wants `lock_add`),
`check`, then through the command, its guard or the hook, to `leave` (wants
`lock_sub`); load goes `load`, `open`, `init`, `register`; unload goes `unload`,
`shutdown`, `drain` / `waiting` / `awake` (the loop of `RefLock::wait`),
`unregister`, `close`. `mut[p]` is TRUE while load or unload holds the lock
across steps. `InvokeCheck` is the body of `invoke` up to the command's
function, with its four ways to go on. Suspending is `ActivityLock`: `Request`,
`Grant` and `Release` are the calls a command or a `CoreSuspender` makes,
`Yield` and `Regain` the end of Update. This is sound because `CoreSuspend`
implements `ActivityLock`, which is both checked and proved (its safety part).
What a command's function does is: suspend and resume the game any number of
times, or nothing, and return. `found` is the set of threads with a
`PluginCommand&`: from the moment a call has found its command until it returns,
for `invoke` reads `cmd.usage` when the function is done. `CommandRefValid` says
of these that `plugin_init`, which clears the vector and fills it with the same
commands perhaps, is not running for that plugin.

### Hotkeys

A keybinding command is a sequence of critical sections, `ClearKeyBindings` and
one `AddKeyBinding` per line, last line first. The scan of `SelectHotkey` holds
`HotkeyMutex` from `SelectLock` on, and may pass over a binding (`SelectNext`:
other modifiers, or the plugin refuses) or take it (`SelectBinding`): the
plugin's answer is any. `AddKeyBinding` leaves a line that is bound already at
its rank. `InitSteps` are the steps of Init once the plugins are
loaded; locking `HotkeyMutex` before it exists ends the process (`crashed`).
What a loop that erases from a vector leaves is `Drop` of `Sublists`, here and
in `Workflow` and `MapTools`: a definition by positions, which can be reasoned
about where a recursive filter cannot.

### Console

Every call takes `wlock`, and `prompt_loop` gives it away while it waits for a
key: a call, and each half of `lineedit` around that wait, is one action
(`Lineedit`, `ReadKey`, `PromptEnds`). `StreamBegins` and `StreamEnds` are the
halves of `Private::sync`, which takes no lock; either thread writes so, from a
command of Core's or of a plugin, while the other one prompts. A thread prompts
for Core's loop or for a plugin's. Most plugins do not look at what `lineedit`
returns (`PluginGoesOn`), so after a shutdown they would ask for ever; `liquids`
gives up on -1 (`LeavePlugin`), not on the -2 of a shutdown. `ConsoleShutdown`
comes after `DeletePlugMgr`, which waits for the calls in plugins.

### Reveal

A command is two steps: the test of `revealed`, before the `CoreSuspender`, and
the rest, which has the game to itself. In between the other thread, the hook
and the game go on; a world may be left and entered again or another one
entered. One tile stands for a block's.

What the plugin has saved is of one world, and it does not know which; what it
has shown stays shown in the game's own map, in every world, and is saved with
it. So the auxiliary variables follow the game and not the plugin: `before` and
`opened` are what reveal found and whether it opened hell in the loaded world,
`left` keeps these and the map for the other worlds, and neither loading the
plugin again nor entering another world clears them. Three things make the
plugin lose or mix up what it saved of a world, and put that world into
`spoiled`, for good:

- the plugin is unloaded or loaded again while the map lies revealed (`Reload`):
  a second `reveal` then saves the revealed map as the original, and hell stays
  open without a pause (the run `reveal_reload`);
- `unreveal` runs in another world of the same size, which its "Sanity check:
  map size" lets pass, and throws away what was saved (`Unreveal`);
- two threads were past the test of `revealed` together (`raced`): the second
  saves what the first has shown, and a `reveal` that follows a `reveal hell`
  ends the pause with hell open (`Reveal`).

`UnrevealRestores` and `HellStaysPaused` except the spoiled worlds and nothing
else. `CrashesOnlyElsewhere` says where `unreveal` follows a null pointer: in
a world where nothing is shown, or in a spoiled one.

### MapCache, MapTools

Operations of the cache are operators on it; a command's steps apply them.
`View` is the map as the tool sees it, the refinement mapping to `TileMap`. A
behaviour of `MapTools` is one command over any map of a small set: revflood's
stack one entry a step (`SkipTile`, `FloodTile`), autodump one item and one pile
a step, and a painter that stands for the brushes: any few calls of the cache in
any order, written back or not. A floor met from below stays hidden and yet
leads on to its sides, so the flood also opens closed rooms above; `FloodReveals`
is what `README.rst` promises, and `RoomsStayHidden` speaks of rooms closed on
all sides.

### Workflow

The hook, and a command that has suspended the game, work while the game stands
still; such an operation is a sequence of steps (`todo`), and the game and the
player act when it is empty. A job is its id; a pointer to a `ProtectedJob` or a
constraint that was deleted is `Freed`, and `NoStalePointerFollowed` says what
each step may dereference. It speaks of the enabled plugin: `workflow list` of a
disabled one does follow pointers to jobs the game has deleted since.

The console thread unloads and loads the plugin at any moment, and neither
`plugin_shutdown` (`workflow.cpp:131`) nor `plugin_init` (124) suspends the game
for what it does: `cleanup_state` deletes all jobs and constraints, and
`Plugin::unload` waits for the calls under way only afterwards
(`PluginManager.cpp:230`, 232). `library` is "open" or "closed"; it is "torn"
from a `PluginShutdown` that finds an operation under way, or that lets one in
before the library is closed, until `PluginClose`, and after a `PluginInit`
beside which the game worked on its list of jobs. What an operation does in a
torn library is not followed: it walks memory that has been deleted, or lists
that are empty beside a `config` that is not valid, and anything may come of it.
`NoStalePointerFollowed` excepts just this, and TLC finds it violated without
the exception (a world is loaded, the plugin enabled, `plugin_shutdown` runs
while the search for lost jobs is under way). `resume_time` is kept as the frames
left until then.

### What is abstracted

Command lines, keys and modifiers are members of small sets; tokenising and
`parseKeySpec` are their results. What is printed is left out. The contents of
the game are what a module's properties tell apart: for the plugin manager two
bits (is a world loaded, does the screen suit the guards), for the map tools the
shape, the hidden, dig and item bits of a tile, for workflow the jobs and the
workshops they are in. The
number of threads that suspend is two in the program; `CoreSuspend` is checked
with three and proved for any.

## 3. Runs

| run | instance | what it shows |
|---|---|---|
| `core_suspend` | 3 tools, 4 addresses | `MutualExclusion`, `CondLifetime`, `NoLostWakeup`, `EverySuspendServed`, and `ActivityLock!Spec` with its fairness (so Update returns) |
| `plugin_calls` | 1 plugin; a plain, a guarded and an interactive command; console, hotkey, input and simulation thread | `RefcountExact`, `NoCallIntoClosedLibrary`, `CommandRefValid`, `GuardHolds`, `BelongsExact`, `WorldKnown` |
| `plugin_live` | 1 plugin, 1 command; no input thread | `CallsReturn`, `GameGoesOn` under fairness |
| `plugin_shutdown` | as `plugin_live`, 2 commands | finds `NoCallAfterShutdown` violated |
| `hotkeys` | 1 function key, 2 modifiers, 2 lines and a blank one; lists of one line, of two, and of one before a blank | `ScanSeesOneTable`, `SetBindsExactly`, and `NewestHotkeyTaken` under fairness |
| `hotkeys_startup` | as `hotkeys` | finds `HotkeyMutexReady` violated |
| `console` | console and hotkey thread | `TerminalKept`, and `ConsoleEnds` under fairness |
| `reveal` | 2 threads; 2 worlds of 2 sizes; a block of earth and one of hell, which may be missing | `UnrevealRestores`, `HellStaysPaused`, `CrashesOnlyElsewhere` |
| `reveal_reload` | as `reveal` | finds `HellShutIn` violated |
| `map_tools` | 2 levels of 2 tiles in 4 blocks, walls around; 2 items | `ImplementsTileMap`, `FloodReveals`, `RoomsStayHidden`, `DigMarked`, `ItemBitExact`, and `FloodEnds` under fairness |
| `map_items` | as `map_tools` | finds `BlockItemsExact` violated |
| `workflow` | 2 jobs, 1 workshop that takes 2, 1 constraint; the plugin unloaded and loaded | `PendingExact`, `WorldConsistent`, `NoStalePointerFollowed`, `ProtectionLasts`, and `LostJobSettled`, `GoalStopsJobs` under fairness |

Every property of a passing run has a mutant, a `Bug...` definition next to the
action it replaces (a dropped loop, a missing notify, an unlock on one path
only), under which TLC finds it violated; so none of them holds by the shape of
the model.

**Bounds, and why they are enough.** With three tools one can be served while
two others contend, one on the stack and one on its way to it. A fourth address
is what Update may still hold while all three tools suspend again; a fifth would
never be taken. One plugin suffices for everything that concerns its lock and
library, since plugins share nothing but the game and the command table; what
the table and the order of Update's passes owe to a second plugin is proved for
any number of them (section 4). Two lines and two modifiers let a line be added
twice, in both orders, next to one that must not be touched. Two blocks let
`reveal` pass over one and show the other, and a map of the same size lack one
that was saved; a map of hell alone is left out, there is no such world. Two
worlds are one to be revealed and one to be entered meanwhile. In `MapTools` two
tiles side by side lie in different blocks, with a level above and below, so
that the flood can meet a floor from below and from a side, in either order. The
outer tiles are walls: a flood at the western or northern edge would reach
column -1, which C++ divides by 16 into block 0, at index -1. In `Workflow` one
job can be lost while another is left, new ones come until the workshop is full,
and a third may block it. `GameRuns` changes the world and the screen at most
once between two ticks (loading a world takes many frames, each of which calls
Update).

Counters that the code does not bound have named bounds: `MaxPaint` calls of
the painter (2: any two calls, in the same block or not), and in `Workflow`
`MaxId` jobs (2), `MaxStock` items (1), a day of 2 frames and a longest delay of
the same (`MaxDelay`, a month in the code: delays double up to it; no property
tells longer ones apart). The other state spaces are finite as they are.

Deadlock is checked, but where the system may really stop: in `Hotkeys` and
`Reveal` the process may end (`crashed`), in `MapTools` a command ends, in
`Console` everything does after Shutdown. `reveal` uses the symmetry of its
threads and worlds; it checks safety only.

**Fairness.** In `CoreSuspend`: the game calls Update again and again until it
quits, a thread that can run does, a tool resumes what it suspended, and
`StackMutex`, released on every tick, is obtained in the end (strong fairness
of `SuspendPush`). Nothing makes a tool suspend, a wakeup spurious, or the game
quit. In `PluginLifecycle`: the same for threads that want `RefLock::mut`
(strong, since others take it in between), and code of plugins returns. Strong
fairness of a granted suspension is what `EverySuspendServed` shows of
`CoreSuspend`. In `Hotkeys`: strong fairness of whoever wants `HotkeyMutex`.
In `Console`: the console thread goes on unless it waits for a key, which nobody
need press. In `MapTools`: the command's thread goes on. In `Workflow`: steps of
an operation follow each other, and the game calls the hook and lets frames pass
again and again, though commands come in between (strong fairness of `OnUpdate`
and `Frame`, which are enabled between operations only).
pthread mutexes do not promise this, they merely behave so on a machine where
threads spend most of their time outside them; the liveness properties hold to
that extent.

**Findings.** Four runs show where the code does not do what it, or its
documentation, says.

- `plugin_shutdown`: `unload` calls `plugin_shutdown` and then waits for the
  calls under way. The wait releases the lock while the state is still
  `PS_LOADED`, so new commands and the next `plugin_onupdate` get in and run in
  a plugin that has shut down, although `plugin_shutdown` "is called right
  before the plugin library is removed from memory"
  (`plugins/skeleton/skeleton.cpp:47`).
- `reveal_reload`: after `reveal hell` and `reload reveal` the plugin does not
  know any more that the map is revealed; the player unpauses with hell open,
  and `unreveal` finds nothing to revert, although "you won't be able to unpause
  until you hide the map again" (`README.rst:412`).
- `map_items`: autodump takes a dumped item's id out of its old block's vector
  with `std::remove` and throws the result away, so the vector stays as long as
  it was and, when the id was its last element, still has it
  (`plugins/autodump.cpp`, whose comments say the vector is to be fixed).
- `hotkeys_startup`: Init starts the console thread, which runs `dfhack.init`,
  before it creates `HotkeyMutex`; `README.rst:66` tells users to put their
  `keybinding` lines there.

A smaller one without a run: `AddKeyBinding` of a line that is bound already
returns early and leaves it at its old rank (`Core.cpp:1014`, as modelled),
although "later 'add' commands [...] have priority" (`README.rst:327`).

## 4. Proofs

`CoreSuspend_proofs` proves, for every set of tools and of addresses:

| theorem | statement |
|---|---|
| `TypeCorrect` | `Spec => []TypeOK` |
| `SuspendExcludes` | `Spec => []MutualExclusion` |
| `ConditionsLiveAsLongAsNeeded` | `Spec => []CondLifetime` |
| `WakeupsArrive` | `Spec => []NoLostWakeup` |
| `StackOnlyShrinks` | `Spec => JoinClosed` |
| `RefinesActivityLock` | `Spec => AL!Safe` |

The only assumption is that `None` is no address. The argument is one inductive
invariant, `IInv`. Mutual exclusion alone is not inductive: whether a second
tool can get in depends on which conditions are signalled. `IInv` therefore
says who has each condition in hand (`Owners`, `Allocated`), that the stack
holds waiting tools, each once (`Stack`), that only the condition Update has
popped is ever signalled and its tool knows (`Signalled`), what the simulation
thread's position implies (`Simulation`), and that it parks for exactly one
*served* tool, one that owns the game or is about to, until that tool resumes
(`Service`). `IInvInit` and `IInvNext` show that it holds and is kept;
`PopProperties` is the one lemma about sequences. The refinement maps each
action to a step of `ActivityLock` or to none; the step that needs the
invariant is `SuspendTest`, where a tool gets the game.

`PluginLifecycle_proofs` proves, for every set of plugins, commands, invoking
and watching threads:

| theorem | statement |
|---|---|
| `TypeCorrect` | `Spec => []TypeOK` |
| `RefcountsExact` | `Spec => []RefcountExact` |
| `NoCallIntoClosed` | `Spec => []NoCallIntoClosedLibrary` |
| `CommandRefsValid` | `Spec => []CommandRefValid` |
| `TableExact` | `Spec => []BelongsExact` |
| `GuardsHold` | `Spec => []GuardHolds` |
| `HooksAlone` | `Spec => []HooksExcludeTools` |
| `WorldsKnown` | `Spec => []WorldKnown` |

Assumed of the constants: no two plugins have a command in common, no command is
both guarded and interactive, threads are finitely many, "io" is one of those
that run commands, "sim" is none of the callers (`PluginsAssumption`,
`ThreadsAssumption`). That no library is unmapped under a call follows in three
moves. `RefcountExact` says that a count of 0 means nobody is inside
(`NobodyInside`). `Stage` says that from the moment `RefLock::wait` returns until
`unload` is done the count is 0: it cannot rise, since by `Locked` the lock is
held all that time. And `Calls` says that a thread inside found the plugin
loaded and still finds it so: only `unload`'s last step changes the state of a
loaded plugin, and then nobody is inside. The rest of `IInv` is about the
command table in the middle of load and unload (`Table`), the game (`Owning`,
`Guards`), and the order of Update's passes: `Knowing` says that a loaded
plugin knows the world or will be told of it before any other hook of it runs
(`WillBeTold`), which is where a plugin loaded in the middle of a pass needs
`plugin_init` to look at the world. `Refs` says that a thread with a reference
to a command is in a call of a loaded plugin, so that no load of it gets past
its first test. The steps that count references are
`OneMore` and `OneLess`, by the library's theorems on finite sets; `IInvInit` and
`IInvNext` do the rest, the latter with one case per action. TLC has checked
`IInv` on the instance of `plugin_calls`, and on one of two plugins, before.

`HooksExcludeTools` and, of `CoreSuspend`, `JoinClosed` are proved and no longer
checked by a run.

`Console_proofs` proves `TypeCorrect` (`Spec => []TypeOK`) and `TerminalIsKept`
(`Spec => []TerminalKept`). `TerminalKept` is silent during a stream write, and
so not inductive: `Held` says what the terminal is like then, and that one
thread writes, unless two have clashed; `Places` says whose loop a thread can be
in, and `Counted` what the count of calls is, without which Shutdown's wait is
not typed. TLC has checked their conjunction before.

`Reveal_proofs` proves, for finite sets of threads and blocks:

| theorem | statement |
|---|---|
| `TypeCorrect` | `Spec => []TypeOK` |
| `HellIsPaused` | `Spec => HellStaysPaused` |
| `CrashesElsewhere` | `Spec => []CrashesOnlyElsewhere` |
| `UnrevealIsExact` | `Spec => UnrevealRestores` |

`Alone` says that a thread past the test that is not alone there, or finds the
map revealed, has raced; with it `Forced`, hell lies open in a world that is not
spoiled, the loaded one or one that was left, only while `revealed` is
`REVEALED`, is kept by every step. `hidesaved` is filled by every thread that is
past the test, so what bounds it is `Room`: for each of them there is room left
for all blocks, and nothing is saved when a thread gets there. `SavedAsFound`
relates it to the map: while the world that was revealed is loaded, each block
that was found has been saved once, as it was found, and is there still;
`LeftAsFound` says the same of a world that was left, until it is entered again.
So `unreveal` follows no null pointer there and, in whatever order it goes, ends
with the map as it was.

`MapTools_proofs` proves, for maps, blocks and interiors of any size, any finite
set of items, and any number of calls of the painter:

| theorem | statement |
|---|---|
| `TypeCorrect` | `Spec => []TypeOK` |
| `MapCacheIsTileMap` | `Spec => ImplementsTileMap` |
| `DiggingIsMarked` | `Spec => DigMarked` |
| `FloodIsComplete` | `Spec => []FloodReveals` |
| `FloodStopsAtWalls` | `Spec => []RoomsStayHidden` |
| `ItemBitsAreRight` | `Spec => []ItemBitExact` |

The refinement goes operator by operator. `GoodCache` is the invariant of the
cache: what a copy holds in parts that are not dirty is what the game has, and a
copy is valid exactly if the game has the block. Under it asking for a tile
leaves the view as it was (`LoadGood`), setting one changes that tile alone
(`ChangeGood` and the lemmas for the three setters), and `WriteAll` leaves in
the game's map just what the tool saw (`WrittenIsView`, `CleanedGood`); so every
step is `Set`, `Commit`, `Forget` or none of `TileMap`. `MarkedCache`, a copy
with a tile to be dug that the game does not know of has its flag, carries
`DigMarked` through the steps that call the setters. `Walls` keeps the flood
from column -1.

The flood is the standard argument for a search, with the complications of this
one. `Frontier`: the cursor, and whatever a visible passable tile leads to, is
visible or waits on the stack, so when the stack is empty all is visible. An
entry met from below counts as waiting only for a tile without a floor
(`Waiting`), for it will not show any other. For the rooms, `RoomsClosed`
says that no tile of a closed room is on the stack or visible: only tiles beside
such a room could push one, and those are no passable tiles. `ItemInv` follows a
pile through autodump: `PilesCounted` says that a pile other than the one at the
cursor counts above zero exactly if an item that has been looked at lies there,
and `BitsToClear` which bits the tool still sees; `ViewExact` is what they come
to before `WriteAll`. `PilesBounded`, of the types, bounds a pile by the number
of items looked at.

`Workflow_proofs` proves, for any shops, items and bounds:

| theorem | statement |
|---|---|
| `TypeCorrect` | `Spec => []TypeOK` |
| `PendingIsExact` | `Spec => []PendingExact` |
| `WorldIsConsistent` | `Spec => []WorldConsistent` |
| `PointersAreSound` | `Spec => []NoStalePointerFollowed` |
| `ProtectionIsLasting` | `Spec => ProtectionLasts` |
| `RecoveryIsConsistent` | no step of `Spec` is `NothingToRecover` |

`GameInv` says how the game's list of jobs, its workshops and the jobs agree,
`PluginInv` that `pending_recover` holds just the protected jobs that are lost,
each once. Neither is inductive alone: recovery links a job in again, and the
list stays ascending and free of duplicates only because a lost job is not
listed and no id is used twice (`IdsInv`). The pointers need the order of the
steps: `Shape` says that an operation's steps come as the code makes them, and
`Pointers` that when a step looks at jobs, the search for lost ones has come
before it (`Fresh`), and when it looks at a constraint's jobs, the mapping has
(`Mapped`). `LibraryInv`, kept beside `IInv`, says that a library that is not
open has no lists and a closed one does nothing, which is what `PluginInit`
starts from. `NothingToRecover` is the branch of `recover_job` that prints
"Inconsistency": given that the game uses no id twice, it is never taken.

`Hotkeys_proofs` proves, for any keys, modifiers, command lines and lists of
them:

| theorem | statement |
|---|---|
| `TypeCorrect` | `SafeSpec => []TypeOK` |
| `ScansSeeOneTable` | `SafeSpec => ScanSeesOneTable` |
| `SetsBindExactly` | `SafeSpec => SetBindsExactly` |

`Scanning` says that a scan holds `HotkeyMutex` and stays within its vector; a
binding that is changed needs the mutex, hence the first property. For the
second, `Adding` says how far a `set` is: the lines bound so far for its key and
modifiers are the last ones of its list, in reverse, and nothing else. That
other keys and modifiers keep their bindings in order is what `Drop` and `Keep`
do to each other and to `Append` (`KeptOfDropped`, `KeptOfAppended`,
`KeptBeforeAppended`). `SetBindsExactly` speaks of lists of distinct lines none
of which is blank: of another list the code binds less. `SafeSpec` is `Spec`
without its fairness.

`Sublists_proofs` is the base of the last three. A sublist is determined by the
places its elements come from, in ascending order (`AscendingUnique`): a list of
places that ascends and reaches every place that is kept is the one that
`Ascending` makes. So two sublists are equal when their lists of places are, and
what `Drop`, `Keep`, `Append`, `InsertAt` and `RemoveAt` do to each other is
shown by giving the list of places of the result. `Ascending` is defined by
counting (the k-th number of a set has k of the set up to it), so this needs no
induction.

TLC has checked the inductive invariants of all of these on the instances of
section 3 before.

Only model-checked: all liveness (`EverySuspendServed`, `CallsReturn`,
`GameGoesOn`, `NewestHotkeyTaken`, `ConsoleEnds`, `FloodEnds`, `LostJobSettled`,
`GoalStopsJobs`) and the fairness part of `ActivityLock!Spec`, which are beyond
the prover. Every safety property of a passing run is a theorem.
`NoCallAfterShutdown`, `HotkeyMutexReady`, `BlockItemsExact` and
`HellShutIn` are false (section 3).

## 5. Plan

Done: every module of section 2, its runs, and proofs of all its safety
properties.

Next, in this order:

1. `CoreShutdown`: the destructor of the plugin manager on the main thread
   against an unload on the console thread, and tools that wait in Suspend when
   Update has stopped serving them.
2. `vdig`'s search for a vein, as an algorithm on a `MapCache`.
3. `seedwatch` and `mode`, whose decisions outlive the tick they were made in.

## 6. Not modelled

- Of the modelled parts: what `workflow` does with `drybuckets`, `auto-melt` and
  explicit gaps, what is in a job beyond its workshop and flags, what a job
  makes (a constant, `Makes`), the persistent records behind `saved`, and
  what an operation does when the plugin has been shut down under it; the
  temperatures and materials a `MapCache` also keeps; `autodump-destroy-item`;
  the text, cursor and history of the line at the prompt, and the Windows
  console; the destructor of the plugin manager.
- The vendored code, the hooks' forwarding, the tables of memory offsets and the
  run-time type information: third-party, or pure input.
- The data registry, one map under one mutex.
- Plugins that are one walk under one suspension, and Dfusion, whose behaviour
  is that of its scripts.

The vendored code (`library/depends`, Lua) is most of the repository's lines, so
the share of all lines that is modelled stays small whatever is done about the
rest.
