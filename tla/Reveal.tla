------------------------------- MODULE Reveal -------------------------------
(***************************************************************************)
(* The reveal plugin (plugins/reveal.cpp): reveal shows the map and saves  *)
(* what was hidden, unreveal hides that again, reveal hell keeps the game  *)
(* paused in between.  What is saved outlives the command, and the world.  *)
(*                                                                         *)
(* A command reads revealed before it suspends the game and does the rest  *)
(* afterwards: two steps, between which the other thread that runs         *)
(* commands and the game go on.  Its second step, like Update's hook, has  *)
(* the game to itself.  One tile stands for those of a block.              *)
(*                                                                         *)
(* The auxiliary variables remember, world by world, what reveal has found *)
(* and shown there.  No step of the game or of the plugin clears them but  *)
(* an unreveal in that world; what makes the plugin lose or mix up what it *)
(* has saved of a world puts the world among the spoiled, and spoiled it   *)
(* remains.  The properties name that exception.                           *)
(***************************************************************************)
EXTENDS Integers, Sequences, SequencesExt, FiniteSets

CONSTANTS
    Threads,        \* those that run commands: the console and the hotkey thread
    Worlds,         \* the player's saved games
    Blocks,         \* where a map may have blocks
    Hell,           \* blocks that are not safe (isSafe)
    Sizes,          \* sizes of maps
    NoSize          \* what x_max, y_max, z_max are before the first reveal

ASSUME RevealAssumption ==
    /\ IsFiniteSet(Threads) /\ IsFiniteSet(Blocks)
    /\ Hell \subseteq Blocks /\ Sizes # {} /\ NoSize \notin Sizes

VARIABLES
    fortress,       \* a fortress is played: game mode, and a map
    world,          \* the world that is loaded, or was last
    size,           \* its size
    hidden,         \* hidden[b], for each block of map_blocks
    paused,         \* the game's pause state
    revealed,
    hidesaved,      \* <<block, hidden>> pairs, as they were saved
    saved_size,     \* x_max, y_max, z_max
    nopause_state,
    at,             \* at[t]: what thread t runs, and where
    crashed,        \* unreveal has written to a block that is not there
    before,         \* auxiliary: what reveal found in world, if it is not spoiled
    opened,         \* auxiliary: reveal hell has shown hell in it
    left,           \* auxiliary: the other worlds in which something is shown
    spoiled,        \* auxiliary: worlds of which what was saved is lost or mixed up
    raced           \* auxiliary: threads that were past reveal's test with another

gameVars == <<fortress, world, size, hidden>>
saveVars == <<revealed, hidesaved, saved_size>>
worldVars == <<before, opened, left, spoiled>>
auxVars == <<worldVars, raced>>
vars == <<gameVars, paused, saveVars, nopause_state, at, crashed, auxVars>>

Hows == {"safe", "hell", "demon"}

Idle == <<"idle">>

Places == {Idle, <<"unreveal">>, <<"unrevealing">>}
            \cup {"reveal", "revealing"} \X Hows

IsMap(f) == DOMAIN f \subseteq Blocks /\ \A b \in DOMAIN f : f[b] \in BOOLEAN

\* A world left with something shown: its map, and what was found in it.
IsLeft(r) ==
    /\ DOMAIN r = {"size", "hidden", "before", "opened"}
    /\ r.size \in Sizes /\ IsMap(r.hidden)
    /\ IsMap(r.before) /\ r.opened \in BOOLEAN

TypeOK ==
    /\ fortress \in BOOLEAN /\ world \in Worlds /\ size \in Sizes /\ IsMap(hidden)
    /\ paused \in BOOLEAN
    /\ revealed \in {"NOT_REVEALED", "REVEALED", "SAFE_REVEALED", "DEMON_REVEALED"}
    /\ hidesaved \in Seq(Blocks \X BOOLEAN)
    /\ Len(hidesaved) <= Cardinality(Threads) * Cardinality(Blocks)
    /\ saved_size \in Sizes \cup {NoSize}
    /\ nopause_state \in BOOLEAN
    /\ at \in [Threads -> Places]
    /\ crashed \in BOOLEAN
    /\ IsMap(before) /\ opened \in BOOLEAN
    /\ DOMAIN left \subseteq Worlds /\ \A w \in DOMAIN left : IsLeft(left[w])
    /\ spoiled \subseteq Worlds /\ raced \subseteq Threads

\* Any blocks, not of hell alone, hidden or not.
Maps == UNION {[B -> BOOLEAN] : B \in {C \in SUBSET Blocks : ~(C \subseteq Hell)}}

Init ==
    /\ fortress = FALSE
    /\ world \in Worlds /\ size \in Sizes /\ hidden \in Maps
    /\ paused = TRUE
    /\ revealed = "NOT_REVEALED" /\ hidesaved = <<>> /\ saved_size = NoSize
    /\ nopause_state = FALSE
    /\ at = [t \in Threads |-> Idle]
    /\ crashed = FALSE
    /\ before = <<>> /\ opened = FALSE
    /\ left = <<>> /\ spoiled = {} /\ raced = {}

Goto(t, where) == at' = [at EXCEPT ![t] = where]

-----------------------------------------------------------------------------
(* The game and the player.                                                *)

\* The world is saved, with what is hidden in it.
LeaveWorld ==
    /\ ~crashed /\ fortress
    /\ fortress' = FALSE
    /\ UNCHANGED <<world, size, hidden, paused, saveVars, nopause_state, at,
                   crashed, auxVars>>

\* The same one again.
EnterWorld ==
    /\ ~crashed /\ ~fortress
    /\ fortress' = TRUE /\ paused' = TRUE
    /\ UNCHANGED <<world, size, hidden, saveVars, nopause_state, at, crashed,
                   auxVars>>

\* What is shown in the world that was loaded last; nothing is kept of a
\* spoiled one.
Shows == world \notin spoiled /\ (opened \/ before # <<>>)

Here == [size |-> size, hidden |-> hidden, before |-> before, opened |-> opened]

\* Another one.
EnterAnother(w) ==
    /\ ~crashed /\ ~fortress /\ w # world
    /\ fortress' = TRUE /\ paused' = TRUE /\ world' = w
    /\ left' = [v \in (DOMAIN left \cup {u \in {world} : Shows}) \ {w} |->
                  IF v = world THEN Here ELSE left[v]]
    /\ UNCHANGED <<saveVars, nopause_state, at, crashed, spoiled, raced>>

\* ... in which nothing is shown, or that is spoiled.
EnterOther(w, s, f) ==
    /\ EnterAnother(w) /\ w \notin DOMAIN left
    /\ size' = s /\ hidden' = f
    /\ before' = <<>> /\ opened' = FALSE

\* ... which was left with something shown.
EnterLeft(w) ==
    /\ EnterAnother(w) /\ w \in DOMAIN left
    /\ size' = left[w].size /\ hidden' = left[w].hidden
    /\ before' = left[w].before /\ opened' = left[w].opened

\* Digging discovers a block.
Discover(b) ==
    /\ ~crashed /\ fortress /\ ~paused
    /\ b \in DOMAIN hidden /\ hidden[b]
    /\ hidden' = [hidden EXCEPT ![b] = FALSE]
    /\ UNCHANGED <<fortress, world, size, paused, saveVars, nopause_state, at,
                   crashed, auxVars>>

\* The player presses the key, or something happens.
TogglePause ==
    /\ ~crashed /\ fortress
    /\ paused' = ~paused
    /\ UNCHANGED <<gameVars, saveVars, nopause_state, at, crashed, auxVars>>

-----------------------------------------------------------------------------
(* plugin_onupdate and the commands.                                       *)

\* nopause comes first.
BugOnUpdate ==
    /\ ~crashed
    /\ paused' = IF ~fortress THEN paused
                 ELSE IF nopause_state THEN FALSE
                 ELSE revealed = "REVEALED" \/ paused
    /\ UNCHANGED <<gameVars, saveVars, nopause_state, at, crashed, auxVars>>

OnUpdate ==
    /\ ~crashed
    /\ paused' = IF ~fortress THEN paused
                 ELSE IF revealed = "REVEALED" THEN TRUE
                 ELSE paused /\ ~nopause_state
    /\ UNCHANGED <<gameVars, saveVars, nopause_state, at, crashed, auxVars>>

Nopause(t, on) ==
    /\ ~crashed /\ at[t] = Idle
    /\ nopause_state' = on
    /\ UNCHANGED <<gameVars, paused, saveVars, at, crashed, auxVars>>

\* The function of reveal or unreveal is called, by that command or by
\* revtoggle, which looks at revealed for itself.
Call(t, f) ==
    /\ ~crashed /\ at[t] = Idle
    /\ Goto(t, f)
    /\ UNCHANGED <<gameVars, paused, saveVars, nopause_state, crashed, auxVars>>

RevealCmd(t, how) == Call(t, <<"reveal", how>>)

UnrevealCmd(t) == Call(t, <<"unreveal">>)

Revtoggle(t, how) ==
    Call(t, IF revealed = "NOT_REVEALED" THEN <<"reveal", how>> ELSE <<"unreveal">>)

Revealing(t) == at[t][1] = "revealing"

\* Past the test, as others may be.
Pass(t) ==
    LET others == {u \in Threads \ {t} : Revealing(u)} IN
    /\ Goto(t, <<"revealing", at[t][2]>>)
    /\ raced' = IF others = {} THEN raced ELSE raced \cup others \cup {t}

\* What is saved is no longer that of the worlds W, nor of those left.
Spoil(W) == spoiled' = spoiled \cup W \cup DOMAIN left /\ left' = <<>>

\* The test is left out.
BugRevealTest(t) ==
    /\ ~crashed /\ at[t][1] = "reveal"
    /\ Pass(t)
    /\ UNCHANGED <<gameVars, paused, saveVars, nopause_state, crashed, worldVars>>

\* "Map is already revealed or this is a different map."
RevealTest(t) ==
    /\ ~crashed /\ at[t][1] = "reveal"
    /\ IF revealed # "NOT_REVEALED"
       THEN Goto(t, Idle) /\ UNCHANGED raced
       ELSE Pass(t)
    /\ UNCHANGED <<gameVars, paused, saveVars, nopause_state, crashed, worldVars>>

\* "Only in fortress mode."
NotHere(t) ==
    /\ ~crashed /\ at[t][1] \in {"revealing", "unrevealing"}
    /\ ~fortress
    /\ Goto(t, Idle)
    /\ raced' = raced \ {t}
    /\ UNCHANGED <<gameVars, paused, saveVars, nopause_state, crashed, worldVars>>

\* map_blocks, without hell unless it is wanted, one after the other.
Shown(how) == DOMAIN hidden \ (IF how = "safe" THEN Hell ELSE {})

FoundBy(how) == [b \in DOMAIN before \cup Shown(how) |->
                   IF b \in DOMAIN before THEN before[b] ELSE hidden[b]]

\* Of two that have raced, the second saves what the first has shown, and
\* spoils the world.
Reveal(t, how) ==
    /\ ~crashed /\ at[t] = <<"revealing", how>> /\ fortress
    /\ LET order == SetToSeq(Shown(how)) IN
       hidesaved' = hidesaved
                      \o [k \in DOMAIN order |-> <<order[k], hidden[order[k]]>>]
    /\ saved_size' = size
    /\ hidden' = [b \in DOMAIN hidden |-> hidden[b] /\ b \notin Shown(how)]
    /\ revealed' = CASE how = "safe"  -> "SAFE_REVEALED"
                     [] how = "hell"  -> "REVEALED"
                     [] how = "demon" -> "DEMON_REVEALED"
    /\ paused' = (paused \/ how = "hell")
    /\ Goto(t, Idle)
    /\ IF revealed # "NOT_REVEALED" /\ t \in raced
       THEN Spoil({world}) /\ before' = <<>>
       ELSE /\ before' = IF world \in spoiled THEN <<>> ELSE FoundBy(how)
            /\ UNCHANGED <<left, spoiled>>
    /\ opened' = (opened \/ how = "hell")
    /\ raced' = raced \ {t}
    /\ UNCHANGED <<fortress, world, size, nopause_state, crashed>>

\* "There's nothing to revert!"
UnrevealTest(t) ==
    /\ ~crashed /\ at[t] = <<"unreveal">>
    /\ Goto(t, IF revealed = "NOT_REVEALED" THEN Idle ELSE <<"unrevealing">>)
    /\ UNCHANGED <<gameVars, paused, saveVars, nopause_state, crashed, auxVars>>

\* "The map is not of the same size..."
UnrevealElsewhere(t) ==
    /\ ~crashed /\ at[t] = <<"unrevealing">> /\ fortress
    /\ saved_size # size
    /\ Goto(t, Idle)
    /\ UNCHANGED <<gameVars, paused, saveVars, nopause_state, crashed, auxVars>>

SavedBlocks == {hidesaved[k][1] : k \in DOMAIN hidesaved}

\* What was saved last of block b is what remains.
LastSaved(b) ==
    hidesaved[CHOOSE k \in DOMAIN hidesaved :
                /\ hidesaved[k][1] = b
                /\ \A l \in (k + 1)..Len(hidesaved) : hidesaved[l][1] # b][2]

\* getBlockAbs returns NULL for a block that is not there.
UnrevealCrashes(t) ==
    /\ ~crashed /\ at[t] = <<"unrevealing">> /\ fortress
    /\ saved_size = size
    /\ ~(SavedBlocks \subseteq DOMAIN hidden)
    /\ crashed' = TRUE
    /\ UNCHANGED <<gameVars, paused, saveVars, nopause_state, at, auxVars>>

Restored == [b \in DOMAIN hidden |-> IF b \in SavedBlocks THEN LastSaved(b)
                                                          ELSE hidden[b]]

\* The memory is not given back.
BugUnreveal(t) ==
    /\ ~crashed /\ at[t] = <<"unrevealing">> /\ fortress
    /\ saved_size = size
    /\ SavedBlocks \subseteq DOMAIN hidden
    /\ hidden' = Restored
    /\ revealed' = "NOT_REVEALED"
    /\ Goto(t, Idle)
    /\ Spoil({})
    /\ before' = <<>> /\ opened' = (opened /\ world \in spoiled)
    /\ UNCHANGED <<fortress, world, size, paused, hidesaved, saved_size,
                   nopause_state, crashed, raced>>

\* What was saved is gone, and with it what was saved of another world.
Unreveal(t) ==
    /\ ~crashed /\ at[t] = <<"unrevealing">> /\ fortress
    /\ saved_size = size
    /\ SavedBlocks \subseteq DOMAIN hidden
    /\ hidden' = Restored
    /\ hidesaved' = <<>> /\ revealed' = "NOT_REVEALED"
    /\ Goto(t, Idle)
    /\ Spoil({})
    /\ before' = <<>> /\ opened' = (opened /\ world \in spoiled)
    /\ UNCHANGED <<fortress, world, size, paused, saved_size, nopause_state,
                   crashed, raced>>

\* "This is only safe to use with non-revealed map", tested with the game
\* suspended.  What it hides is the subject of MapTools.
Revflood(t, f) ==
    /\ ~crashed /\ at[t] = Idle /\ fortress
    /\ revealed = "NOT_REVEALED"
    /\ DOMAIN f = DOMAIN hidden
    /\ hidden' = f
    /\ UNCHANGED <<fortress, world, size, paused, saveVars, nopause_state, at,
                   crashed, auxVars>>

\* The plugin is loaded again, when no call is in it (PluginLifecycle).  What
\* it has saved is gone, the map is as open as it was.
Reload ==
    /\ ~crashed /\ \A t \in Threads : at[t] = Idle
    /\ revealed' = "NOT_REVEALED" /\ hidesaved' = <<>> /\ saved_size' = NoSize
    /\ nopause_state' = FALSE
    /\ Spoil({w \in {world} : opened \/ before # <<>>})
    /\ before' = <<>>
    /\ UNCHANGED <<gameVars, paused, at, crashed, opened, raced>>

-----------------------------------------------------------------------------
GameNext ==
    \/ LeaveWorld \/ EnterWorld \/ TogglePause
    \/ \E w \in Worlds : EnterLeft(w)
    \/ \E w \in Worlds, s \in Sizes, f \in Maps : EnterOther(w, s, f)
    \/ \E b \in Blocks : Discover(b)

CommandNext(t) ==
    \/ \E on \in BOOLEAN : Nopause(t, on)
    \/ \E how \in Hows : RevealCmd(t, how) \/ Revtoggle(t, how) \/ Reveal(t, how)
    \/ UnrevealCmd(t) \/ RevealTest(t) \/ NotHere(t)
    \/ UnrevealTest(t) \/ UnrevealElsewhere(t) \/ UnrevealCrashes(t) \/ Unreveal(t)
    \/ \E f \in Maps : Revflood(t, f)

Next == GameNext \/ OnUpdate \/ Reload \/ \E t \in Threads : CommandNext(t)

Spec == Init /\ [][Next]_vars

-----------------------------------------------------------------------------
(* Properties.                                                             *)

\* "Reverts the effects of 'reveal'": when unreveal has run in the world that
\* was revealed, every block reveal has shown is hidden or visible as it was,
\* whatever was discovered, saved and loaded in between, other worlds included
\* (reveal, unreveal).  The exceptions are the spoiled worlds: the plugin was
\* loaded again while the map lay revealed, unreveal has run in another world
\* in the meantime, or two reveals had both passed the test before they had
\* the game.
UnrevealRestores ==
    [][/\ \E t \in Threads : at[t] = <<"unrevealing">> /\ at'[t] = Idle
       /\ revealed' = "NOT_REVEALED" /\ world \notin spoiled
       => \A b \in DOMAIN before : hidden'[b] = before[b]]_vars

\* plugin_onupdate leaves the game paused as long as a fortress lies open to
\* the hell that reveal hell has shown, through nopause, other reveals, and
\* worlds left and entered again - the spoiled ones excepted.
HellStaysPaused ==
    [][OnUpdate /\ fortress /\ opened /\ world \notin spoiled => paused']_vars

\* "With hell revealed, you won't be able to unpause until you hide the map
\* again" (README.rst), without exceptions.  A plugin loaded again, or a race
\* of two reveals, leaves hell open and the game running.
HellShutIn == [][OnUpdate /\ fortress /\ opened => paused']_vars

\* unreveal writes through the pointer getBlockAbs returns without testing it.
\* That is sound in the world that was revealed, if it is not spoiled; in
\* another, "Sanity check: map size" is all there is.
CrashesOnlyElsewhere ==
    crashed => before = <<>> \/ world \in spoiled
=============================================================================
