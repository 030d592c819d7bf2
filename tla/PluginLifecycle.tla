-------------------------- MODULE PluginLifecycle ---------------------------
(***************************************************************************)
(* Plugins being loaded, unloaded and reloaded by the console thread while *)
(* other threads run their code (PluginManager.cpp): the console and the   *)
(* hotkey thread invoke commands, the input thread asks whether a hotkey   *)
(* applies, the simulation thread calls plugin_onstatechange and           *)
(* plugin_onupdate on every tick.  A Plugin's RefLock (mut, refcount,      *)
(* wakeup) is all that keeps a library mapped while its code runs.         *)
(*                                                                         *)
(* Suspending the game is ActivityLock, which CoreSuspend implements.      *)
(* cmdlist_mutex guards only belongs and is never held across a step, so   *)
(* it needs no variable; mut does, since load and unload keep it while the *)
(* plugin's own code runs.                                                 *)
(***************************************************************************)
EXTENDS Naturals, FiniteSets

CONSTANTS
    Plugins,        \* all_plugins, never added to after the manager is built
    Commands,       \* command names
    CmdsOf,         \* CmdsOf[p]: the commands plugin_init of p fills in
    Guarded,        \* the commands registered with a hotkey guard
    Interactive,    \* the commands registered as interactive
    Invokers,       \* the threads that run commands: "io" and the hotkey thread
    Watchers,       \* the threads that ask can_invoke_hotkey: that of SDL_Event
    None            \* no plugin, no command, no thread

\* A plugin has its own command names (registerCommands checks no collision),
\* and the two constructors of PluginCommand exclude a guarded command that is
\* interactive.
ASSUME PluginsAssumption ==
    /\ None \notin Plugins \cup Commands
    /\ CmdsOf \in [Plugins -> SUBSET Commands]
    /\ \A p, q \in Plugins : p # q => CmdsOf[p] \cap CmdsOf[q] = {}
    /\ Guarded \subseteq Commands
    /\ Interactive \subseteq Commands \ Guarded

\* "io" is the console thread, the only one that loads and unloads; "sim" is
\* the simulation thread, the only one that calls Update.
Callers == Invokers \cup Watchers
Threads == Callers \cup {"sim"}

ASSUME ThreadsAssumption ==
    /\ IsFiniteSet(Threads)
    /\ "io" \in Invokers
    /\ "sim" \notin Callers
    /\ Invokers \cap Watchers = {}

VARIABLES
    state, library, commands,   \* of each Plugin; library: plugin_lib is mapped
    mut, refcount,              \* of each Plugin's RefLock; mut: load or unload holds it
    belongs,                    \* PluginManager::belongs
    pc, on, cmd,                \* of each thread: where, in which plugin, which command
    found,                      \* threads with a reference to their PluginCommand
    reloading, shutdown_cr,     \* locals of the console thread in reload, unload
    todo, hooks,                \* of Update: plugins left in this pass, passes left
    phase, game, closed,        \* the activity lock
    world, last_world_data_ptr, \* is a world loaded; did the last Update see one
    screen, top_viewscreen,     \* does the screen suit the guards; what Update saw
    knows                       \* knows[p]: the world plugin p was told of last

AL == INSTANCE ActivityLock WITH Tools <- Invokers

pluginVars == <<state, library, commands>>
refVars == <<mut, refcount>>
callVars == <<cmd, found>>
threadVars == <<pc, on, callVars>>
unloadVars == <<reloading, shutdown_cr>>
simVars == <<todo, hooks, last_world_data_ptr, top_viewscreen>>
lockVars == <<phase, game, closed>>
gameVars == <<world, screen>>
vars == <<state, library, commands, mut, refcount, belongs, pc, on, cmd,
          found, reloading, shutdown_cr, todo, hooks, phase, game, closed, world,
          last_world_data_ptr, screen, top_viewscreen, knows>>

\* The steps of a call into a plugin that hold a reference on it.
Inside == {"check", "suspend", "guard", "run", "ask", "own", "hot", "hook",
           "leave"}

\* ... and those of them in which code of the plugin's library is running, or
\* will run when the thread gets the game.
InLibrary == {"suspend", "guard", "run", "ask", "own", "hot", "hook"}

\* The steps of load and unload that hold mut.
Holding == {"open", "init", "register", "shutdown", "drain", "unregister",
            "close"}

States == {"idle", "enter", "load", "unload", "waiting", "awake", "pass",
           "yield"} \cup Inside \cup Holding

TypeOK ==
    /\ state \in [Plugins -> {"PS_UNLOADED", "PS_LOADED", "PS_BROKEN"}]
    /\ library \in [Plugins -> BOOLEAN]
    /\ commands \in [Plugins -> SUBSET Commands]
    /\ mut \in [Plugins -> BOOLEAN]
    /\ refcount \in [Plugins -> 0..Cardinality(Threads)]
    /\ belongs \in [Commands -> Plugins \cup {None}]
    /\ pc \in [Threads -> States]
    /\ on \in [Threads -> Plugins \cup {None}]
    /\ cmd \in [Threads -> Commands \cup {None}]
    /\ found \subseteq Callers
    /\ reloading \in BOOLEAN
    /\ shutdown_cr \in BOOLEAN
    /\ todo \subseteq Plugins
    /\ hooks \subseteq {"world", "screen", "update"}
    /\ AL!TypeOK
    /\ {world, last_world_data_ptr, screen, top_viewscreen} \subseteq BOOLEAN
    /\ knows \in [Plugins -> BOOLEAN]

\* After PluginManager's constructor, which loads every plugin it finds
\* before any other thread is started: ok are those that loaded.
Init ==
    /\ \E ok \in SUBSET Plugins :
         /\ state = [p \in Plugins |->
                       IF p \in ok THEN "PS_LOADED" ELSE "PS_BROKEN"]
         /\ library = [p \in Plugins |-> p \in ok]
         /\ commands = [p \in Plugins |-> IF p \in ok THEN CmdsOf[p] ELSE {}]
         /\ belongs = [c \in Commands |->
                         IF \E p \in ok : c \in CmdsOf[p]
                         THEN CHOOSE p \in ok : c \in CmdsOf[p] ELSE None]
    /\ mut = [p \in Plugins |-> FALSE]
    /\ refcount = [p \in Plugins |-> 0]
    /\ pc = [t \in Threads |-> "idle"]
    /\ on = [t \in Threads |-> None]
    /\ cmd = [t \in Threads |-> None]
    /\ found = {}
    /\ reloading = FALSE /\ shutdown_cr = FALSE
    /\ todo = {} /\ hooks = {}
    /\ AL!Init
    /\ world = FALSE /\ last_world_data_ptr = FALSE
    /\ screen = FALSE /\ top_viewscreen = FALSE
    /\ knows = [p \in Plugins |-> FALSE]

-----------------------------------------------------------------------------
Goto(t, label) == pc' = [pc EXCEPT ![t] = label]

\* The command is done: back to the prompt.
IoReturns ==
    /\ Goto("io", "idle")
    /\ on' = [on EXCEPT !["io"] = None]

\* The state and the command list are read with a reference, without mut.
Known(t) == state[on[t]] = "PS_LOADED" /\ cmd[t] \in commands[on[t]]

-----------------------------------------------------------------------------
(* Mistakes: variants of the steps below that no specification here uses.  *)
(* Each is a plausible bug in PluginManager.cpp that one property catches. *)

\* load forgets to return early when the plugin is loaded already.
BugLoadAgain ==
    LET p == on["io"] IN
    /\ pc["io"] = "load"
    /\ ~mut[p]
    /\ mut' = [mut EXCEPT ![p] = TRUE]
    /\ Goto("io", "open")
    /\ UNCHANGED <<pluginVars, refcount, belongs, on, callVars, unloadVars,
                   simVars, lockVars, gameVars, knows>>

\* load leaves without unlocking when the library cannot be opened.
BugLoadNoUnlock ==
    LET p == on["io"] IN
    /\ pc["io"] = "open"
    /\ state' = [state EXCEPT ![p] = "PS_BROKEN"]
    /\ IoReturns
    /\ UNCHANGED <<library, commands, refVars, belongs, callVars, unloadVars,
                   simVars, lockVars, gameVars, knows>>

\* RefLock::wait keeps the mutex.
BugDrainLocked ==
    LET p == on["io"] IN
    /\ pc["io"] = "drain"
    /\ Goto("io", IF refcount[p] = 0 THEN "unregister" ELSE "waiting")
    /\ UNCHANGED <<pluginVars, refVars, belongs, on, callVars, unloadVars,
                   simVars, lockVars, gameVars, knows>>

\* RefLock::wait waits once: an if in place of the while.
BugAwakeOnce ==
    LET p == on["io"] IN
    /\ pc["io"] = "awake"
    /\ ~mut[p]
    /\ mut' = [mut EXCEPT ![p] = TRUE]
    /\ Goto("io", "unregister")
    /\ UNCHANGED <<pluginVars, refcount, belongs, on, callVars, unloadVars,
                   simVars, lockVars, gameVars, knows>>

\* unload does not unregister the commands.
BugNoUnregister ==
    /\ pc["io"] = "unregister"
    /\ Goto("io", "close")
    /\ UNCHANGED <<pluginVars, refVars, belongs, on, callVars, unloadVars,
                   simVars, lockVars, gameVars, knows>>

\* invoke calls lock_sub on a path that has called it already.
BugLeaveTwice(t) ==
    /\ pc[t] = "leave"
    /\ ~mut[on[t]]
    /\ refcount' = [refcount EXCEPT ![on[t]] = @ - 2]
    /\ Goto(t, IF t = "sim" THEN "pass" ELSE "idle")
    /\ on' = [on EXCEPT ![t] = None]
    /\ cmd' = [cmd EXCEPT ![t] = None]
    /\ found' = found \ {t}
    /\ UNCHANGED <<pluginVars, mut, belongs, unloadVars, simVars, lockVars,
                   gameVars, knows>>

\* invoke returns CR_WOULD_BREAK, or not found, without lock_sub.
BugCheckReturns(t) ==
    /\ pc[t] = "check"
    /\ Goto(t, IF Known(t) THEN "run" ELSE "idle")
    /\ UNCHANGED <<pluginVars, refVars, belongs, on, callVars, unloadVars,
                   simVars, lockVars, gameVars, knows>>

\* The CoreSuspender of invoke ends with the guard.
BugGuardOnly(t) ==
    /\ pc[t] = "guard"
    /\ AL!Release(t)
    /\ Goto(t, IF screen THEN "own" ELSE "leave")
    /\ UNCHANGED <<pluginVars, refVars, belongs, on, callVars, unloadVars,
                   simVars, gameVars, knows>>

\* Update runs OnUpdate before it has told the plugins of a change.
BugPassOrder == IF "update" \in hooks THEN "update"
                ELSE IF "world" \in hooks THEN "world" ELSE "screen"

-----------------------------------------------------------------------------
(* Plugin::load, on the console thread: the load and reload commands.      *)

LoadCall(p) ==
    /\ pc["io"] = "idle"
    /\ Goto("io", "load")
    /\ on' = [on EXCEPT !["io"] = p]
    /\ UNCHANGED <<pluginVars, refVars, belongs, callVars, unloadVars, simVars,
                   lockVars, gameVars, knows>>

\* access->lock(), and the early returns of a plugin that is not unloaded.
LoadLock ==
    LET p == on["io"] IN
    /\ pc["io"] = "load"
    /\ ~mut[p]
    /\ \/ /\ state[p] = "PS_UNLOADED"
          /\ mut' = [mut EXCEPT ![p] = TRUE]
          /\ Goto("io", "open")
          /\ UNCHANGED on
       \/ /\ state[p] # "PS_UNLOADED"
          /\ IoReturns
          /\ UNCHANGED mut
    /\ UNCHANGED <<pluginVars, refcount, belongs, callVars, unloadVars,
                   simVars, lockVars, gameVars, knows>>

\* OpenPlugin and the look-ups: the library is mapped and plugin_init called,
\* or the plugin is broken.  plugin_init looks at the world as it is now.
LoadOpen ==
    LET p == on["io"] IN
    /\ pc["io"] = "open"
    /\ \/ /\ library' = [library EXCEPT ![p] = TRUE]
          /\ knows' = [knows EXCEPT ![p] = world]
          /\ Goto("io", "init")
          /\ UNCHANGED <<state, mut, on>>
       \/ /\ state' = [state EXCEPT ![p] = "PS_BROKEN"]
          /\ mut' = [mut EXCEPT ![p] = FALSE]
          /\ IoReturns
          /\ UNCHANGED <<library, knows>>
    /\ UNCHANGED <<commands, refcount, belongs, callVars, unloadVars, simVars,
                   lockVars, gameVars>>

\* plugin_init returns: it has cleared and filled the command list, wholly
\* when it returns CR_OK.
LoadInit ==
    LET p == on["io"] IN
    /\ pc["io"] = "init"
    /\ \/ /\ commands' = [commands EXCEPT ![p] = CmdsOf[p]]
          /\ state' = [state EXCEPT ![p] = "PS_LOADED"]
          /\ Goto("io", "register")
          /\ UNCHANGED <<library, mut, on>>
       \/ /\ \E cmds \in SUBSET CmdsOf[p] :
               commands' = [commands EXCEPT ![p] = cmds]
          /\ library' = [library EXCEPT ![p] = FALSE]
          /\ state' = [state EXCEPT ![p] = "PS_BROKEN"]
          /\ mut' = [mut EXCEPT ![p] = FALSE]
          /\ IoReturns
    /\ UNCHANGED <<refcount, belongs, callVars, unloadVars, simVars, lockVars,
                   gameVars, knows>>

\* registerCommands, then access->unlock().
LoadRegister ==
    LET p == on["io"] IN
    /\ pc["io"] = "register"
    /\ belongs' = [c \in Commands |->
                     IF c \in commands[p] THEN p ELSE belongs[c]]
    /\ mut' = [mut EXCEPT ![p] = FALSE]
    /\ IoReturns
    /\ UNCHANGED <<pluginVars, refcount, callVars, unloadVars, simVars,
                   lockVars, gameVars, knows>>

-----------------------------------------------------------------------------
(* Plugin::unload and Plugin::reload, on the console thread.               *)

\* reload tests the state without the lock, and goes on only if LOADED.
UnloadCall(p, re) ==
    /\ pc["io"] = "idle"
    /\ re => state[p] = "PS_LOADED"
    /\ Goto("io", "unload")
    /\ on' = [on EXCEPT !["io"] = p]
    /\ reloading' = re
    /\ UNCHANGED <<pluginVars, refVars, belongs, callVars, shutdown_cr,
                   simVars, lockVars, gameVars, knows>>

UnloadLock ==
    LET p == on["io"] IN
    /\ pc["io"] = "unload"
    /\ ~mut[p]
    /\ \/ /\ state[p] = "PS_LOADED"
          /\ mut' = [mut EXCEPT ![p] = TRUE]
          /\ Goto("io", "shutdown")
          /\ UNCHANGED on
       \/ /\ state[p] # "PS_LOADED"
          /\ IoReturns
          /\ UNCHANGED mut
    /\ UNCHANGED <<pluginVars, refcount, belongs, callVars, unloadVars,
                   simVars, lockVars, gameVars, knows>>

\* plugin_shutdown returns, with whatever it has to say.
UnloadShutdown ==
    /\ pc["io"] = "shutdown"
    /\ shutdown_cr' \in BOOLEAN
    /\ Goto("io", "drain")
    /\ UNCHANGED <<pluginVars, refVars, belongs, on, callVars, reloading,
                   simVars, lockVars, gameVars, knows>>

\* access->wait(): a turn of its loop.  Waiting releases mut; the state is
\* still PS_LOADED.
UnloadDrain ==
    LET p == on["io"] IN
    /\ pc["io"] = "drain"
    /\ \/ /\ refcount[p] = 0
          /\ Goto("io", "unregister")
          /\ UNCHANGED mut
       \/ /\ refcount[p] # 0
          /\ mut' = [mut EXCEPT ![p] = FALSE]
          /\ Goto("io", "waiting")
    /\ UNCHANGED <<pluginVars, refcount, belongs, on, callVars, unloadVars,
                   simVars, lockVars, gameVars, knows>>

\* pthread_cond_wait may return unnotified.
UnloadSpurious ==
    /\ pc["io"] = "waiting"
    /\ Goto("io", "awake")
    /\ UNCHANGED <<pluginVars, refVars, belongs, on, callVars, unloadVars,
                   simVars, lockVars, gameVars, knows>>

\* Out of wakeup->wait, which takes mut again.
UnloadAwake ==
    LET p == on["io"] IN
    /\ pc["io"] = "awake"
    /\ ~mut[p]
    /\ mut' = [mut EXCEPT ![p] = TRUE]
    /\ Goto("io", "drain")
    /\ UNCHANGED <<pluginVars, refcount, belongs, on, callVars, unloadVars,
                   simVars, lockVars, gameVars, knows>>

UnloadUnregister ==
    LET p == on["io"] IN
    /\ pc["io"] = "unregister"
    /\ belongs' = [c \in Commands |->
                     IF c \in commands[p] THEN None ELSE belongs[c]]
    /\ Goto("io", "close")
    /\ UNCHANGED <<pluginVars, refVars, on, callVars, unloadVars, simVars,
                   lockVars, gameVars, knows>>

\* ClosePlugin and PS_UNLOADED, or PS_BROKEN with the library left mapped;
\* then access->unlock().  A reload that unloaded goes on to load.
UnloadClose ==
    LET p == on["io"] IN
    /\ pc["io"] = "close"
    /\ library' = [library EXCEPT ![p] = ~shutdown_cr]
    /\ state' = [state EXCEPT
                   ![p] = IF shutdown_cr THEN "PS_UNLOADED" ELSE "PS_BROKEN"]
    /\ mut' = [mut EXCEPT ![p] = FALSE]
    /\ IF reloading /\ shutdown_cr THEN Goto("io", "load") /\ UNCHANGED on
                                   ELSE IoReturns
    /\ reloading' = FALSE
    /\ shutdown_cr' = FALSE
    /\ UNCHANGED <<commands, refcount, belongs, callVars, simVars, lockVars,
                   gameVars, knows>>

-----------------------------------------------------------------------------
(* Calls into a plugin: invoke, can_invoke_hotkey, on_update,              *)
(* on_state_change.  They share lock_add and lock_sub.                     *)

\* getPluginByCommand: the plugin found is used after cmdlist_mutex is gone.
Lookup(t, c) ==
    /\ pc[t] = "idle"
    /\ belongs[c] # None
    /\ Goto(t, "enter")
    /\ on' = [on EXCEPT ![t] = belongs[c]]
    /\ cmd' = [cmd EXCEPT ![t] = c]
    /\ UNCHANGED <<pluginVars, refVars, belongs, found, unloadVars, simVars,
                   lockVars, gameVars, knows>>

\* access->lock_add()
Enter(t) ==
    /\ pc[t] = "enter"
    /\ ~mut[on[t]]
    /\ refcount' = [refcount EXCEPT ![on[t]] = @ + 1]
    /\ Goto(t, "check")
    /\ UNCHANGED <<pluginVars, mut, belongs, on, callVars, unloadVars, simVars,
                   lockVars, gameVars, knows>>

\* access->lock_sub(): notify_one wakes the unloader if it waits here.
Leave(t) ==
    /\ pc[t] = "leave"
    /\ ~mut[on[t]]
    /\ refcount' = [refcount EXCEPT ![on[t]] = @ - 1]
    /\ pc' = [u \in Threads |->
                IF u = t THEN IF t = "sim" THEN "pass" ELSE "idle"
                ELSE IF pc[u] = "waiting" /\ on[u] = on[t] THEN "awake"
                ELSE pc[u]]
    /\ on' = [on EXCEPT ![t] = None]
    /\ cmd' = [cmd EXCEPT ![t] = None]
    /\ found' = found \ {t}
    /\ UNCHANGED <<pluginVars, mut, belongs, unloadVars, simVars, lockVars,
                   gameVars, knows>>

\* invoke: what it does with the command it finds, of which it keeps a
\* reference.
InvokeCheck(t) ==
    /\ pc[t] = "check"
    /\ found' = IF Known(t) THEN found \cup {t} ELSE found
    /\ \/ /\ ~Known(t)
          /\ Goto(t, "leave")
          /\ UNCHANGED lockVars
       \/ /\ Known(t)
          /\ t # "io" /\ cmd[t] \in Interactive     \* CR_WOULD_BREAK
          /\ Goto(t, "leave")
          /\ UNCHANGED lockVars
       \/ /\ Known(t)
          /\ cmd[t] \in Guarded
          /\ AL!Request(t)                          \* CoreSuspender
          /\ Goto(t, "suspend")
       \/ /\ Known(t)
          /\ cmd[t] \notin Guarded
          /\ t = "io" \/ cmd[t] \notin Interactive
          /\ Goto(t, "run")
          /\ UNCHANGED lockVars
    /\ UNCHANGED <<pluginVars, refVars, belongs, on, cmd, unloadVars, simVars,
                   gameVars, knows>>

\* Suspend returns: to the guard of a guarded command, or to a command
\* function that suspends the game itself.
Suspended(t) ==
    /\ pc[t] \in {"suspend", "ask"}
    /\ AL!Grant(t)
    /\ Goto(t, IF pc[t] = "suspend" THEN "guard" ELSE "own")
    /\ UNCHANGED <<pluginVars, refVars, belongs, on, callVars, unloadVars,
                   simVars, gameVars, knows>>

\* The guard looks at the screen; an unsuitable one ends the call, and the
\* CoreSuspender's scope with it.
InvokeGuard(t) ==
    /\ pc[t] = "guard"
    /\ \/ /\ screen
          /\ Goto(t, "own")
          /\ UNCHANGED lockVars
       \/ /\ ~screen
          /\ AL!Release(t)
          /\ Goto(t, "leave")
    /\ UNCHANGED <<pluginVars, refVars, belongs, on, callVars, unloadVars,
                   simVars, gameVars, knows>>

\* A command function that is not guarded suspends the game when it needs to.
FunctionSuspends(t) ==
    /\ pc[t] = "run"
    /\ AL!Request(t)
    /\ Goto(t, "ask")
    /\ UNCHANGED <<pluginVars, refVars, belongs, on, callVars, unloadVars,
                   simVars, gameVars, knows>>

\* ... and resumes it; a guarded one returns, and invoke resumes the game.
FunctionResumes(t) ==
    /\ pc[t] = "own"
    /\ AL!Release(t)
    /\ Goto(t, IF cmd[t] \in Guarded THEN "leave" ELSE "run")
    /\ UNCHANGED <<pluginVars, refVars, belongs, on, callVars, unloadVars,
                   simVars, gameVars, knows>>

FunctionReturns(t) ==
    /\ pc[t] = "run"
    /\ Goto(t, "leave")
    /\ UNCHANGED <<pluginVars, refVars, belongs, on, callVars, unloadVars,
                   simVars, lockVars, gameVars, knows>>

\* can_invoke_hotkey: only a command that is not interactive is asked, by its
\* guard or by default_hotkey.
HotkeyCheck(t) ==
    /\ pc[t] = "check"
    /\ found' = IF Known(t) THEN found \cup {t} ELSE found
    /\ \/ /\ Known(t) /\ cmd[t] \notin Interactive
          /\ Goto(t, "hot")
       \/ /\ ~Known(t) \/ cmd[t] \in Interactive
          /\ Goto(t, "leave")
    /\ UNCHANGED <<pluginVars, refVars, belongs, on, cmd, unloadVars, simVars,
                   lockVars, gameVars, knows>>

HotkeyGuardReturns(t) ==
    /\ pc[t] = "hot"
    /\ Goto(t, "leave")
    /\ UNCHANGED <<pluginVars, refVars, belongs, on, callVars, unloadVars,
                   simVars, lockVars, gameVars, knows>>

-----------------------------------------------------------------------------
(* The simulation thread: the game, then Update.                           *)

\* Between two calls of Update the game runs: it may load or unload a world
\* and switch screens, but not twice (loading takes many frames, and every
\* frame calls Update).
GameRuns ==
    /\ pc["sim"] = "idle"
    /\ \/ /\ world = last_world_data_ptr
          /\ world' = ~world
          /\ UNCHANGED screen
       \/ /\ screen = top_viewscreen
          /\ screen' = ~screen
          /\ UNCHANGED world
    /\ UNCHANGED <<pluginVars, refVars, belongs, threadVars, unloadVars,
                   simVars, lockVars, knows>>

\* Update compares the game with what it saw last; each change is a pass over
\* all plugins, and the pass of OnUpdate comes last.
UpdateBegin ==
    /\ pc["sim"] = "idle"
    /\ hooks' = {"update"}
                  \cup (IF world # last_world_data_ptr THEN {"world"} ELSE {})
                  \cup (IF screen # top_viewscreen THEN {"screen"} ELSE {})
    /\ last_world_data_ptr' = world
    /\ top_viewscreen' = screen
    /\ todo' = Plugins
    /\ Goto("sim", "pass")
    /\ UNCHANGED <<pluginVars, refVars, belongs, on, callVars, unloadVars,
                   lockVars, gameVars, knows>>

\* The pass under way: SC_GAME_LOADED or SC_GAME_UNLOADED, then
\* SC_VIEWSCREEN_CHANGED, then OnUpdate.
Pass == IF "world" \in hooks THEN "world"
        ELSE IF "screen" \in hooks THEN "screen" ELSE "update"

\* The next plugin of the pass; its lock_add is Enter("sim").
HookCall(p) ==
    /\ pc["sim"] = "pass"
    /\ p \in todo
    /\ todo' = todo \ {p}
    /\ on' = [on EXCEPT !["sim"] = p]
    /\ Goto("sim", "enter")
    /\ UNCHANGED <<pluginVars, refVars, belongs, callVars, unloadVars, hooks,
                   last_world_data_ptr, top_viewscreen, lockVars, gameVars,
                   knows>>

HookCheck ==
    LET p == on["sim"] IN
    /\ pc["sim"] = "check"
    /\ \/ /\ state[p] = "PS_LOADED"
          /\ Goto("sim", "hook")
          /\ knows' = IF Pass = "world" THEN [knows EXCEPT ![p] = world]
                                        ELSE knows
       \/ /\ state[p] # "PS_LOADED"
          /\ Goto("sim", "leave")
          /\ UNCHANGED knows
    /\ UNCHANGED <<pluginVars, refVars, belongs, on, callVars, unloadVars,
                   simVars, lockVars, gameVars>>

HookReturns ==
    /\ pc["sim"] = "hook"
    /\ Goto("sim", "leave")
    /\ UNCHANGED <<pluginVars, refVars, belongs, on, callVars, unloadVars,
                   simVars, lockVars, gameVars, knows>>

PassEnds ==
    /\ pc["sim"] = "pass"
    /\ todo = {}
    /\ Pass # "update"
    /\ hooks' = hooks \ {Pass}
    /\ todo' = Plugins
    /\ UNCHANGED <<pluginVars, refVars, belongs, threadVars, unloadVars,
                   last_world_data_ptr, top_viewscreen, lockVars, gameVars,
                   knows>>

\* The end of Update: the waiting tools get the game, one after the other.
UpdateYields ==
    /\ pc["sim"] = "pass"
    /\ todo = {}
    /\ Pass = "update"
    /\ hooks' = {}
    /\ AL!Yield
    /\ Goto("sim", "yield")
    /\ UNCHANGED <<pluginVars, refVars, belongs, on, callVars, unloadVars,
                   todo, last_world_data_ptr, top_viewscreen, gameVars, knows>>

UpdateReturns ==
    /\ pc["sim"] = "yield"
    /\ AL!Regain
    /\ Goto("sim", "idle")
    /\ UNCHANGED <<pluginVars, refVars, belongs, on, callVars, unloadVars,
                   simVars, gameVars, knows>>

-----------------------------------------------------------------------------
LoadNext ==
    \/ \E p \in Plugins : LoadCall(p)
    \/ LoadLock \/ LoadOpen \/ LoadInit \/ LoadRegister

UnloadNext ==
    \/ \E p \in Plugins, re \in BOOLEAN : UnloadCall(p, re)
    \/ UnloadLock \/ UnloadShutdown \/ UnloadDrain \/ UnloadSpurious
    \/ UnloadAwake \/ UnloadUnregister \/ UnloadClose

InvokeNext(t) ==
    \/ InvokeCheck(t) \/ Suspended(t) \/ InvokeGuard(t)
    \/ FunctionSuspends(t) \/ FunctionResumes(t) \/ FunctionReturns(t)

CallNext ==
    \/ \E t \in Callers, c \in Commands : Lookup(t, c)
    \/ \E t \in Threads : Enter(t) \/ Leave(t)
    \/ \E t \in Invokers : InvokeNext(t)
    \/ \E t \in Watchers : HotkeyCheck(t) \/ HotkeyGuardReturns(t)

SimNext ==
    \/ GameRuns \/ UpdateBegin
    \/ \E p \in Plugins : HookCall(p)
    \/ HookCheck \/ HookReturns \/ PassEnds \/ UpdateYields \/ UpdateReturns

Next == LoadNext \/ UnloadNext \/ CallNext \/ SimNext

SafeSpec == Init /\ [][Next]_vars

\* The steps that follow, thread by thread, once a call is under way.
IoStep ==
    \/ LoadLock \/ LoadOpen \/ LoadInit \/ LoadRegister
    \/ UnloadLock \/ UnloadShutdown \/ UnloadDrain \/ UnloadAwake
    \/ UnloadUnregister \/ UnloadClose

SimStep ==
    \/ UpdateBegin \/ Enter("sim") \/ HookCheck \/ HookReturns \/ Leave("sim")
    \/ \E p \in Plugins : HookCall(p)
    \/ PassEnds \/ UpdateYields \/ UpdateReturns

CallStep(t) ==
    \/ Enter(t) \/ InvokeCheck(t) \/ Suspended(t) \/ InvokeGuard(t)
    \/ FunctionResumes(t) \/ Leave(t)

\* A thread that can run runs, a plugin's code returns, and the game calls
\* Update for ever.  The fairness is strong because a thread that keeps asking
\* for a mutex that is free again and again gets it, and because Suspend
\* returns (CoreSuspend!EverySuspendServed).  A function may suspend and
\* resume the game any number of times, but returns.  Nobody is forced to call
\* anything.
Fairness ==
    /\ SF_vars(IoStep)
    /\ SF_vars(SimStep)
    /\ \A t \in Invokers : SF_vars(CallStep(t)) /\ SF_vars(FunctionReturns(t))
    /\ \A t \in Watchers :
         SF_vars(Enter(t) \/ HotkeyCheck(t) \/ HotkeyGuardReturns(t) \/ Leave(t))

Spec == SafeSpec /\ Fairness

-----------------------------------------------------------------------------
(* Properties.                                                             *)

\* Code of a plugin runs only while its library is mapped, whichever of the
\* four threads runs it and whatever load and unload do meanwhile.
NoCallIntoClosedLibrary ==
    /\ \A t \in Threads : pc[t] \in InLibrary => library[on[t]]
    /\ pc["io"] \in {"init", "shutdown"} => library[on["io"]]

\* The PluginCommand& of invoke and can_invoke_hotkey points into the plugin's
\* command vector until the call ends (invoke reads cmd.usage after the
\* function has returned).  Until then plugin_init, which clears the vector and
\* fills it again, with the same commands perhaps, does not run: neither by a
\* load of a plugin that is loaded, nor after an unload.
CommandRefValid ==
    \A t \in found :
        /\ cmd[t] \in commands[on[t]]
        /\ ~(pc["io"] = "init" /\ on["io"] = on[t])

\* The command table names loaded plugins only, and a plugin that is loaded
\* and not in the middle of load or unload has all its commands in it.
BelongsExact ==
    /\ \A c \in Commands : belongs[c] # None =>
         state[belongs[c]] = "PS_LOADED" /\ c \in commands[belongs[c]]
    /\ \A p \in Plugins :
         /\ state[p] = "PS_LOADED"
         /\ ~(on["io"] = p /\ pc["io"] \in {"register", "close"})
         => \A c \in CmdsOf[p] : belongs[c] = p

\* "Execute hotkey commands in a way where they can expect their guard
\* conditions to be matched": the screen a guard accepted is still there while
\* the command's function runs.
GuardHolds ==
    \A t \in Invokers : pc[t] = "own" /\ cmd[t] \in Guarded => screen

\* plugin_onstatechange and plugin_onupdate are "invoked with DF suspended":
\* no command owns the game meanwhile.
HooksExcludeTools ==
    pc["sim"] = "hook" =>
        \A t \in Invokers : phase[t] # "holding" /\ pc[t] # "guard"

\* plugin_onstatechange comes "always before the matching plugin_onupdate": a
\* plugin knows, from plugin_init or from an event, whether a world is loaded
\* by the time it is told of a new screen or updated.
WorldKnown ==
    pc["sim"] = "hook" /\ Pass # "world" => knows[on["sim"]] = world

\* A plugin's reference count is the number of threads between its lock_add
\* and lock_sub, however many calls overlap.
RefcountExact ==
    \A p \in Plugins :
        refcount[p] = Cardinality({t \in Threads : on[t] = p /\ pc[t] \in Inside})

\* A call into a plugin returns, though unload may hold the plugin's lock, wait
\* for the call to end and compete for the lock with it.
CallsReturn == \A t \in Callers : (pc[t] = "enter") ~> (pc[t] = "idle")

\* The game is never stopped for good by load, unload, or the tools.
GameGoesOn == []<>(pc["sim"] = "idle")

\* plugin_shutdown "is called right before the plugin library is removed from
\* memory": once it has returned, no call is let into the plugin that will
\* find it loaded.
ShutDown(p) ==
    on["io"] = p /\ pc["io"] \in {"drain", "waiting", "awake"}

NoCallAfterShutdown ==
    [][\A t \in Threads : pc[t] = "enter" /\ pc'[t] = "check"
                           => ~ShutDown(on[t])]_vars
=============================================================================
