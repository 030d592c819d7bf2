------------------------------ MODULE MapCache ------------------------------
(***************************************************************************)
(* Blocks of the map as a tool edits them (modules/MapCache.h): copied     *)
(* when a tile of theirs is first asked for, changed in the copy, written  *)
(* back by WriteAll as far as they are dirty.  A MapCache lives as long as *)
(* one command, which holds the game all that time.                        *)
(*                                                                         *)
(* Temperatures and the materials of layers and veins are left out: they   *)
(* are cached and written like the rest, or only read.                     *)
(***************************************************************************)
EXTENDS Integers, FiniteSets

CONSTANTS
    Side,               \* tiles along a block (16)
    XBlocks, YBlocks,   \* blocks of the map: x_bmax, y_bmax
    ZMax                \* levels

ASSUME MapCacheAssumption ==
    /\ Side \in Nat \ {0} /\ XBlocks \in Nat /\ YBlocks \in Nat /\ ZMax \in Nat

VARIABLES
    present,        \* blocks the game has allocated
    map,            \* map[t]: the game's tile
    blockflags,     \* blockflags[b]: the flags set in the game's block
    cache           \* MapCache::blocks

mapVars == <<present, map, blockflags>>

Tiles == (0 .. XBlocks * Side - 1) \X (0 .. YBlocks * Side - 1)
            \X (0 .. ZMax - 1)

Blocks == (0 .. XBlocks - 1) \X (0 .. YBlocks - 1) \X (0 .. ZMax - 1)

\* How the flood and the tools tell shapes apart.  "other": a shape that no
\* case of the flood names.
Shapes == {"wall", "open", "floor", "other"}

Values == [shape : Shapes, hidden : BOOLEAN, dig : BOOLEAN, item : BOOLEAN]

Flags == {"designated", "liquid"}
Parts == {"designations", "tiletypes", "occupancies", "blockflags"}

\* C++ divides towards zero: -1 / 16 is 0.
Quotient(n) == IF n >= 0 THEN n \div Side ELSE -((-n) \div Side)

BlockOf(t) == <<Quotient(t[1]), Quotient(t[2]), t[3]>>

TilesOf(b) == {t \in Tiles : BlockOf(t) = b}

CachedBlocks(c) ==
    /\ DOMAIN c \subseteq Blocks
    /\ \A b \in DOMAIN c :
         /\ c[b].valid <=> b \in present
         /\ c[b].valid => c[b].raw \in [TilesOf(b) -> Values]
         /\ c[b].flags \subseteq Flags
         /\ c[b].dirty \subseteq Parts

-----------------------------------------------------------------------------
(* Operations on a cache c: the cache they leave, or what they return.     *)

\* The constructor of Block: a copy of the game's block, if there is one.
NewBlock(b) ==
    IF b \in present
    THEN [valid |-> TRUE, raw |-> [t \in TilesOf(b) |-> map[t]],
          flags |-> blockflags[b], dirty |-> {}]
    ELSE [valid |-> FALSE, raw |-> <<>>, flags |-> {}, dirty |-> {}]

\* BlockAt, which copies the block of t unless it has been copied.
Load(c, t) ==
    LET b == BlockOf(t) IN
    IF b \in Blocks
    THEN [k \in DOMAIN c \cup {b} |-> IF k \in DOMAIN c THEN c[k] ELSE NewBlock(b)]
    ELSE c

\* testCoord
TestCoord(t) == BlockOf(t) \in present

\* tiletypeAt, designationAt and occupancyAt, of a tile that TestCoord allows.
TileAt(c, t) == Load(c, t)[BlockOf(t)].raw[t]

Change(c, t, v, part) ==
    IF TestCoord(t)
    THEN [Load(c, t) EXCEPT ![BlockOf(t)].raw[t] = v,
                            ![BlockOf(t)].dirty = @ \cup {part}]
    ELSE Load(c, t)

SetTiletypeAt(c, t, shape) ==
    IF TestCoord(t)
    THEN Change(c, t, [TileAt(c, t) EXCEPT !.shape = shape], "tiletypes")
    ELSE Load(c, t)

SetOccupancyAt(c, t, item) ==
    IF TestCoord(t)
    THEN Change(c, t, [TileAt(c, t) EXCEPT !.item = item], "occupancies")
    ELSE Load(c, t)

\* The block's flag is left to WriteDirtyBit.
BugSetDesignationAt(c, t, hidden, dig) ==
    IF TestCoord(t)
    THEN Change(c, t, [TileAt(c, t) EXCEPT !.hidden = hidden, !.dig = dig],
                "designations")
    ELSE Load(c, t)

\* A tile to be dug marks its block, so that the game looks for it there.
SetDesignationAt(c, t, hidden, dig) ==
    IF TestCoord(t)
    THEN LET changed == Change(c, t,
                 [TileAt(c, t) EXCEPT !.hidden = hidden, !.dig = dig],
                 "designations")
         IN  IF dig
             THEN [changed EXCEPT ![BlockOf(t)].flags = @ \cup {"designated"},
                                  ![BlockOf(t)].dirty = @ \cup {"blockflags"}]
             ELSE changed
    ELSE Load(c, t)

\* BlockFlags and setBlockFlags, of a block in the cache, as liquids calls them.
SetLiquidFlag(c, b, on) ==
    IF c[b].valid
    THEN [c EXCEPT ![b].flags = IF on THEN @ \cup {"liquid"} ELSE @ \ {"liquid"},
                   ![b].dirty = @ \cup {"blockflags"}]
    ELSE c

-----------------------------------------------------------------------------
(* Writing back.                                                           *)

\* Block::Write, one tile of a valid copy.
WrittenTile(copy, t) ==
    [shape |-> IF "tiletypes" \in copy.dirty THEN copy.raw[t].shape
                                             ELSE map[t].shape,
     hidden |-> IF "designations" \in copy.dirty THEN copy.raw[t].hidden
                                                 ELSE map[t].hidden,
     dig |-> IF "designations" \in copy.dirty THEN copy.raw[t].dig ELSE map[t].dig,
     item |-> IF "occupancies" \in copy.dirty THEN copy.raw[t].item
                                              ELSE map[t].item]

\* Block::Write, the flags: WriteDirtyBit comes first and WriteBlockFlags
\* replaces what it set.
WrittenFlags(copy, b) ==
    IF "blockflags" \in copy.dirty THEN copy.flags
    ELSE IF "designations" \in copy.dirty
         THEN blockflags[b] \cup {"designated"} ELSE blockflags[b]

IsCopied(c, b) == b \in DOMAIN c /\ c[b].valid

\* The game's map and flags after WriteAll, and the cache.
WrittenMap(c) == [t \in Tiles |-> IF IsCopied(c, BlockOf(t))
                                  THEN WrittenTile(c[BlockOf(t)], t) ELSE map[t]]

WrittenBlockflags(c) == [b \in Blocks |-> IF IsCopied(c, b)
                                  THEN WrittenFlags(c[b], b) ELSE blockflags[b]]

Cleaned(c) ==
    [b \in DOMAIN c |-> IF c[b].valid THEN [c[b] EXCEPT !.dirty = {}] ELSE c[b]]

Trashed == <<>>

-----------------------------------------------------------------------------
\* The map as the tool sees it.
View == [t \in Tiles |-> IF IsCopied(cache, BlockOf(t))
                         THEN cache[BlockOf(t)].raw[t] ELSE map[t]]

TM == INSTANCE TileMap WITH view <- View
=============================================================================
