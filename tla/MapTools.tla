------------------------------ MODULE MapTools ------------------------------
(***************************************************************************)
(* Commands that edit the map through a MapCache: revflood                 *)
(* (plugins/reveal.cpp), which hides the map and unhides what can be       *)
(* reached from the cursor; autodump (plugins/autodump.cpp), which moves   *)
(* items; and a painter, for the tools that set tiles under a brush        *)
(* (tiletypes, liquids, vdig, filltraffic), in any order of such calls.    *)
(*                                                                         *)
(* A behaviour is one command: nothing but the map outlives it, and it     *)
(* holds the game from its first step to its last.                         *)
(***************************************************************************)
EXTENDS MapCache, Sublists, SequencesExt, FiniteSetsExt

CONSTANTS
    Interior,       \* tiles whose shapes and items vary; the others are walls
    Items,          \* item ids
    MaxPaint        \* bound: the most calls of a painter

ASSUME MapToolsAssumption ==
    /\ Interior \subseteq Tiles
    /\ \A t \in Interior : t[1] > 0 /\ t[2] > 0
    /\ Items \subseteq Nat /\ IsFiniteSet(Items) /\ MaxPaint \in Nat

VARIABLES
    tool,           \* the command
    at,             \* where it is
    cursor,
    flood,          \* revflood's stack of <<tile, from_below>>
    painted,        \* calls of the painter
    mode,           \* autodump: "dump", "destroy" or "destroy_here"
    items,          \* items[i]: where it lies, whether it is to be dumped
    block_items,    \* block_items[b]: map_block::items
    rest,           \* the items autodump has yet to look at
    counts,         \* counts[t]: items met at t and not taken away
    dumped_total

itemVars == <<items, block_items, rest, dumped_total>>
vars == <<mapVars, cache, tool, at, cursor, flood, painted, mode, counts,
          itemVars>>

ItemStates == [pos : Interior, dump : BOOLEAN, garbage : BOOLEAN]

TypeOK ==
    /\ present \subseteq Blocks
    /\ map \in [Tiles -> Values]
    /\ blockflags \in [Blocks -> SUBSET Flags]
    /\ CachedBlocks(cache)
    /\ tool \in {"paint", "revflood", "autodump"}
    /\ at \in {"paint", "revflood", "flood", "autodump", "items", "piles",
               "write", "delete", "done"}
    /\ cursor \in Interior
    /\ flood \in Seq((Int \X Int \X Int) \X BOOLEAN)
    /\ painted \in 0..MaxPaint
    /\ mode \in {"dump", "destroy", "destroy_here"}
    /\ items \in [Items -> ItemStates]
    /\ block_items \in [Blocks -> Seq(Items)]
    /\ rest \subseteq Items
    /\ DOMAIN counts \subseteq Interior
    /\ \A t \in DOMAIN counts : counts[t] \in 0..Cardinality(Items)
    /\ dumped_total \in 0..Cardinality(Items)

-----------------------------------------------------------------------------
(* The maps a command may find.  The western and northern border is wall:  *)
(* from any other tile of it the flood goes on to column or row -1, which  *)
(* C++ divides into block 0, and reads outside of its array.  What a       *)
(* command does not look at is fixed.                                      *)

Tile(shape, hidden, dig) ==
    [shape |-> shape, hidden |-> hidden, dig |-> dig, item |-> FALSE]

Rock == Tile("wall", TRUE, FALSE)

Lying(t) == {i \in Items : items[i].pos = t}

Start(cmd) ==
    /\ tool = cmd /\ at = cmd
    /\ cache = Trashed /\ flood = <<>> /\ painted = 0
    /\ cursor \in Interior
    /\ counts = <<>> /\ dumped_total = 0

NoItems ==
    /\ mode = "dump" /\ rest = {}
    /\ items = [i \in Items |->
                  [pos |-> cursor, dump |-> FALSE, garbage |-> FALSE]]
    /\ block_items = [b \in Blocks |-> <<>>]

\* All blocks are there, or all but one.
SomeBlocks == {Blocks} \cup {Blocks \ {b} : b \in Blocks}

\* revflood: any shapes, all hidden or none.
InitRevflood ==
    /\ Start("revflood") /\ NoItems
    /\ present \in SomeBlocks
    /\ \E shape \in [Interior -> Shapes], hidden \in BOOLEAN :
         map = [t \in Tiles |-> IF t \in Interior
                                THEN Tile(shape[t], hidden, FALSE) ELSE Rock]
    /\ blockflags = [b \in Blocks |-> {}]

\* The painter: floor, one tile of it to be dug, in blocks marked or not.
InitPaint ==
    /\ Start("paint") /\ NoItems
    /\ present \in SomeBlocks
    /\ map = [t \in Tiles |-> IF t \in Interior
                              THEN Tile("floor", FALSE, t = cursor) ELSE Rock]
    /\ \E flags \in {{}, {"designated"}} : blockflags = [b \in Blocks |-> flags]

\* autodump: items anywhere on the ground, the cursor on a floor or not.
InitAutodump ==
    /\ Start("autodump")
    /\ present = Blocks
    /\ mode \in {"dump", "destroy", "destroy_here"}
    /\ items \in [Items -> {s \in ItemStates : ~s.garbage}]
    /\ \E shape \in {"floor", "open"} :
         map = [t \in Tiles |->
           IF t \notin Interior THEN Rock
           ELSE [Tile(IF t = cursor THEN shape ELSE "floor", FALSE, FALSE)
                   EXCEPT !.item = Lying(t) # {}]]
    /\ blockflags = [b \in Blocks |-> {}]
    /\ block_items = [b \in Blocks |->
         Ascending({i \in Items : BlockOf(items[i].pos) = b})]
    /\ rest = Items

Init == InitRevflood \/ InitPaint \/ InitAutodump

-----------------------------------------------------------------------------
(* The end of a command: WriteAll, and the cache is deleted.               *)

Delete ==
    /\ at = "delete"
    /\ cache' = Trashed
    /\ at' = "done"
    /\ UNCHANGED <<mapVars, tool, cursor, flood, painted, mode, counts, itemVars>>

\* autodump sets the dirty bit of the block under the cursor as well.
WriteBack ==
    /\ at = "write"
    /\ map' = WrittenMap(cache)
    /\ blockflags' = [b \in Blocks |->
         IF tool = "autodump" /\ b = BlockOf(cursor)
         THEN WrittenBlockflags(cache)[b] \cup {"designated"}
         ELSE WrittenBlockflags(cache)[b]]
    /\ cache' = Cleaned(cache)
    /\ at' = "delete"
    /\ UNCHANGED <<present, tool, cursor, flood, painted, mode, counts, itemVars>>

-----------------------------------------------------------------------------
(* The painter.                                                            *)

Paint(c) ==
    /\ at = "paint"
    /\ painted < MaxPaint
    /\ painted' = painted + 1
    /\ cache' = c
    /\ UNCHANGED <<mapVars, tool, at, cursor, flood, mode, counts, itemVars>>

PaintTile(t) ==
    \/ \E shape \in {"wall", "open"} : Paint(SetTiletypeAt(cache, t, shape))
    \/ \E hidden, dig \in BOOLEAN : Paint(SetDesignationAt(cache, t, hidden, dig))
    \/ \E on \in BOOLEAN : Paint(SetOccupancyAt(cache, t, on))

PaintFlags(b) == \E on \in BOOLEAN : Paint(SetLiquidFlag(cache, b, on))

\* WriteAll in the middle, at the end, or not at all.
PaintWrites ==
    /\ at = "paint"
    /\ map' = WrittenMap(cache)
    /\ blockflags' = WrittenBlockflags(cache)
    /\ cache' = Cleaned(cache)
    /\ at' \in {"paint", "delete"}
    /\ UNCHANGED <<present, tool, cursor, flood, painted, mode, counts, itemVars>>

PaintGivesUp ==
    /\ at = "paint"
    /\ at' = "delete"
    /\ UNCHANGED <<mapVars, cache, tool, cursor, flood, painted, mode, counts,
                   itemVars>>

-----------------------------------------------------------------------------
(* revflood.                                                               *)

Hidden(v) == [v EXCEPT !.hidden = TRUE]

\* The cache is used on after the map has been hidden behind its back.
BugRevflood ==
    /\ at = "revflood"
    /\ IF TestCoord(cursor) /\ TileAt(cache, cursor).shape = "wall"
       THEN /\ at' = "delete"
            /\ UNCHANGED <<map, flood>>
       ELSE /\ map' = [t \in Tiles |-> IF BlockOf(t) \in present
                                       THEN Hidden(map[t]) ELSE map[t]]
            /\ flood' = << <<cursor, FALSE>> >>
            /\ at' = "flood"
    /\ cache' = Load(cache, cursor)
    /\ UNCHANGED <<present, blockflags, tool, cursor, painted, mode, counts,
                   itemVars>>

\* The tile under the cursor is asked for, all blocks are hidden in the game's
\* own map, and the cache, which does not know of it, is trashed.
Revflood ==
    /\ at = "revflood"
    /\ IF TestCoord(cursor) /\ TileAt(cache, cursor).shape = "wall"
       THEN /\ at' = "delete"
            /\ cache' = Load(cache, cursor)
            /\ UNCHANGED <<map, flood>>
       ELSE /\ map' = [t \in Tiles |-> IF BlockOf(t) \in present
                                       THEN Hidden(map[t]) ELSE map[t]]
            /\ cache' = Trashed
            /\ flood' = << <<cursor, FALSE>> >>
            /\ at' = "flood"
    /\ UNCHANGED <<present, blockflags, tool, cursor, painted, mode, counts,
                   itemVars>>

Offset(t, dx, dy, dz) == <<t[1] + dx, t[2] + dy, t[3] + dz>>
Above(t) == Offset(t, 0, 0, 1)
Below(t) == Offset(t, 0, 0, -1)

\* The neighbours on a level, in the order they are pushed.
Sides(t) ==
    << Offset(t, 1, 0, 0), Offset(t, 1, 1, 0), Offset(t, 0, 1, 0),
       Offset(t, -1, 1, 0), Offset(t, -1, 0, 0), Offset(t, -1, -1, 0),
       Offset(t, 0, -1, 0), Offset(t, 1, -1, 0) >>

Entry(t) == <<t, FALSE>>
FromBelow(t) == <<t, TRUE>>

\* Every shape but a wall leads on.
BugLeadsTo(t, shape) ==
    IF shape = "wall" THEN <<>>
    ELSE [k \in 1..8 |-> Entry(Sides(t)[k])] \o << FromBelow(Above(t)) >>
           \o (IF shape = "open" THEN << Entry(Below(t)) >> ELSE <<>>)

\* Nothing leads down.
BugLeadsDown(t, shape) ==
    IF shape \notin {"open", "floor"} THEN <<>>
    ELSE [k \in 1..8 |-> Entry(Sides(t)[k])] \o << FromBelow(Above(t)) >>

\* What a tile pushes: its sides and what is above, and without a floor what
\* is below.
LeadsTo(t, shape) ==
    IF shape \notin {"open", "floor"} THEN <<>>
    ELSE [k \in 1..8 |-> Entry(Sides(t)[k])] \o << FromBelow(Above(t)) >>
           \o (IF shape = "open" THEN << Entry(Below(t)) >> ELSE <<>>)

\* The test comes before the pop.
BugSkipTile ==
    /\ at = "flood" /\ flood # <<>>
    /\ LET t == Last(flood)[1] IN
       /\ TestCoord(t) => ~TileAt(cache, t).hidden
       /\ cache' = Load(cache, t)
    /\ UNCHANGED <<mapVars, tool, at, cursor, flood, painted, mode, counts,
                   itemVars>>

\* What is met at the top of the stack and is visible already, or not there.
SkipTile ==
    /\ at = "flood" /\ flood # <<>>
    /\ LET t == Last(flood)[1] IN
       /\ TestCoord(t) => ~TileAt(cache, t).hidden
       /\ cache' = Load(cache, t)
    /\ flood' = Front(flood)
    /\ UNCHANGED <<mapVars, tool, at, cursor, painted, mode, counts, itemVars>>

\* A floor or a wall met from below is led on from, and not unhidden.
FloodTile ==
    /\ at = "flood" /\ flood # <<>>
    /\ LET t == Last(flood)[1]
           from_below == Last(flood)[2]
           v == TileAt(cache, t)
       IN  /\ TestCoord(t) /\ v.hidden
           /\ cache' = IF from_below /\ v.shape \in {"wall", "floor"}
                       THEN Load(cache, t)
                       ELSE SetDesignationAt(cache, t, FALSE, v.dig)
           /\ flood' = Front(flood) \o LeadsTo(t, v.shape)
    /\ UNCHANGED <<mapVars, tool, at, cursor, painted, mode, counts, itemVars>>

FloodDone ==
    /\ at = "flood" /\ flood = <<>>
    /\ at' = "write"
    /\ UNCHANGED <<mapVars, cache, tool, cursor, flood, painted, mode, counts,
                   itemVars>>

-----------------------------------------------------------------------------
(* autodump.                                                               *)

\* "Cursor should be placed over a floor", to dump items there.
Autodump ==
    /\ at = "autodump"
    /\ IF mode = "dump"
       THEN /\ cache' = Load(cache, cursor)
            /\ at' = IF TileAt(cache, cursor).shape = "floor"
                     THEN "items" ELSE "delete"
       ELSE /\ UNCHANGED cache
            /\ at' = "items"
    /\ UNCHANGED <<mapVars, tool, cursor, flood, painted, mode, counts, itemVars>>

\* std::remove, its result thrown away: what is kept moves to the front, and
\* the end of the vector stays as long as it was, and as it was.
Removed(s, i) ==
    LET kept == Drop(s, {i})
    IN  kept \o SubSeq(s, Len(kept) + 1, Len(s))

\* Block-local item ID vectors, when item i moves from block b to block c.
MovedItem(i, b, c) ==
    IF b = c THEN block_items
    ELSE [block_items EXCEPT ![b] = Removed(@, i), ![c] = Append(@, i)]

\* An item is counted when it stays.
BugCount(t, n) ==
    LET met == IF t \in DOMAIN counts THEN counts[t] ELSE 0
    IN  [u \in DOMAIN counts \cup {t} |-> IF u = t THEN met - n ELSE counts[u]]

\* One item more at t, of which n are taken away again.
Count(t, n) ==
    LET met == IF t \in DOMAIN counts THEN counts[t] ELSE 0
    IN  [u \in DOMAIN counts \cup {t} |-> IF u = t THEN met + 1 - n ELSE counts[u]]

\* The next item, in the order of world->items.all.
NextItem(i) ==
    /\ at = "items"
    /\ i \in rest /\ \A k \in rest : i <= k
    /\ rest' = rest \ {i}
    /\ UNCHANGED <<mapVars, cache, tool, at, cursor, flood, painted, mode>>

\* It stays where it is: not marked, at the cursor, or not to be destroyed.
KeepItem(i) ==
    LET pos == items[i].pos IN
    /\ NextItem(i)
    /\ \/ ~items[i].dump /\ UNCHANGED items
       \/ /\ items[i].dump /\ mode = "dump" /\ pos = cursor
          /\ items' = [items EXCEPT ![i].dump = FALSE]
       \/ items[i].dump /\ mode = "destroy_here" /\ pos # cursor /\ UNCHANGED items
    /\ counts' = Count(pos, 0)
    /\ UNCHANGED <<block_items, dumped_total>>

\* Its pile is not counted down.
BugDumpItem(i) ==
    LET pos == items[i].pos IN
    /\ NextItem(i)
    /\ items[i].dump /\ mode = "dump" /\ pos # cursor
    /\ items' = [items EXCEPT ![i].dump = FALSE, ![i].pos = cursor]
    /\ block_items' = MovedItem(i, BlockOf(pos), BlockOf(cursor))
    /\ counts' = Count(pos, 0)
    /\ dumped_total' = dumped_total + 1

DumpItem(i) ==
    LET pos == items[i].pos IN
    /\ NextItem(i)
    /\ items[i].dump /\ mode = "dump" /\ pos # cursor
    /\ items' = [items EXCEPT ![i].dump = FALSE, ![i].pos = cursor]
    /\ block_items' = MovedItem(i, BlockOf(pos), BlockOf(cursor))
    /\ counts' = Count(pos, 1)
    /\ dumped_total' = dumped_total + 1

DestroyItem(i) ==
    LET pos == items[i].pos IN
    /\ NextItem(i)
    /\ items[i].dump
    /\ mode = "destroy" \/ (mode = "destroy_here" /\ pos = cursor)
    /\ items' = [items EXCEPT ![i].garbage = TRUE]
    /\ counts' = Count(pos, 1)
    /\ dumped_total' = dumped_total + 1
    /\ UNCHANGED block_items

ItemsDone ==
    /\ at = "items" /\ rest = {}
    /\ at' = IF mode = "dump" THEN "piles" ELSE "delete"
    /\ UNCHANGED <<mapVars, cache, tool, cursor, flood, painted, mode, counts,
                   itemVars>>

\* A pile that has been taken away: nothing lies there any more.
ClearPile(t) ==
    /\ at = "piles"
    /\ t \in DOMAIN counts /\ counts[t] = 0
    /\ cache' = SetOccupancyAt(cache, t, FALSE)
    /\ counts' = Restrict(counts, DOMAIN counts \ {t})
    /\ UNCHANGED <<mapVars, tool, at, cursor, flood, painted, mode, itemVars>>

MarkTarget ==
    /\ at = "piles"
    /\ \A t \in DOMAIN counts : counts[t] # 0
    /\ cache' = IF dumped_total > 0 THEN SetOccupancyAt(cache, cursor, TRUE)
                                    ELSE cache
    /\ at' = "write"
    /\ UNCHANGED <<mapVars, tool, cursor, flood, painted, mode, counts, itemVars>>

-----------------------------------------------------------------------------
PaintNext ==
    \/ \E t \in Interior : PaintTile(t)
    \/ \E b \in DOMAIN cache : PaintFlags(b)
    \/ PaintWrites \/ PaintGivesUp

RevfloodNext ==
    Revflood \/ SkipTile \/ FloodTile \/ FloodDone \/ WriteBack \/ Delete

AutodumpNext ==
    \/ Autodump \/ ItemsDone \/ MarkTarget
    \/ \E i \in Items : KeepItem(i) \/ DumpItem(i) \/ DestroyItem(i)
    \/ \E t \in Interior : ClearPile(t)

Next == PaintNext \/ RevfloodNext \/ AutodumpNext

\* The command's thread goes on.
Spec == Init /\ [][Next]_vars /\ WF_vars(RevfloodNext)

-----------------------------------------------------------------------------
(* Properties.                                                             *)

\* The cache keeps its promise: a tool sees the game's map with its changes,
\* WriteAll brings exactly those into the game's map, and after trash nothing
\* of an older copy is seen (MapCache::WriteAll, trash, Block::Write).
ImplementsTileMap == TM!Spec

\* When a tile gets its designation in the game's map, its block is marked, so
\* that the game finds it, whatever else the tool did to the block's flags
\* (Block::setDesignationAt, Write).
DigMarked ==
    [][\A t \in Tiles : map'[t].dig /\ ~map[t].dig =>
         "designated" \in blockflags'[BlockOf(t)]]_vars

\* revflood has flooded from a cursor that is on the map.
Flooded ==
    /\ tool = "revflood" /\ at = "done"
    /\ TestCoord(cursor) /\ map[cursor].shape # "wall"

Visible(t) == TestCoord(t) /\ ~map[t].hidden

\* One step of a path: on a level, down through what has no floor, up into it.
PathTo(t, u) ==
    \/ u \in ToSet(Sides(t))
    \/ u = Below(t) /\ map[t].shape = "open"
    \/ u = Above(t) /\ map[u].shape = "open"

\* After revflood all that has a path to the cursor is visible: the cursor, and
\* what lies one step from any visible tile that can be passed (the flood
\* loop of revflood; a floor met from below first must not be lost).
FloodReveals ==
    Flooded =>
      /\ Visible(cursor)
      /\ \A t, u \in Tiles :
           /\ Visible(t) /\ map[t].shape \in {"open", "floor"}
           /\ TestCoord(u) /\ PathTo(t, u)
           => Visible(u)

\* After revflood a room stays hidden when all that is beside, above and below
\* it is wall, or not there (the flood loop of revflood).
RoomsStayHidden ==
    Flooded =>
      \A room \in SUBSET (Interior \ {cursor}) :
        (\A t \in Interior \ room : \A u \in room :
            u \in ToSet(Sides(t)) \cup {Above(t), Below(t)} =>
              ~TestCoord(t) \/ map[t].shape \in {"wall", "other"})
          => \A u \in room : TestCoord(u) => map[u].hidden

\* revflood ends on every map: a floor met from below is led on from while it
\* stays hidden, and met again, but not for ever (revflood's loop).
FloodEnds == tool = "revflood" ~> at = "done"

\* After autodump the map says of each tile rightly whether an item lies there
\* (the piles counted in autodump_main, and its use of the cache).
ItemBitExact ==
    tool = "autodump" /\ at = "done" =>
      \A t \in Interior : map[t].item <=> Lying(t) # {}

\* After autodump each block's vector lists the items that lie in the block,
\* each once: "Do we need to fix block-local item ID vector? yes..."
\* (autodump_main).
BlockItemsExact ==
    tool = "autodump" /\ at = "done" =>
      \A b \in Blocks, i \in Items :
        Cardinality({k \in DOMAIN block_items[b] : block_items[b][k] = i}) =
          IF BlockOf(items[i].pos) = b THEN 1 ELSE 0
=============================================================================
