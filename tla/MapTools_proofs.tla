--------------------------- MODULE MapTools_proofs ---------------------------
(***************************************************************************)
(* Commands that edit the map through a MapCache, for any map of any size, *)
(* any size of block, any blocks missing, any items.  First what the       *)
(* operations of the cache do to the map a tool sees: asking for a tile    *)
(* changes nothing, setting a tile changes that tile alone, and WriteAll   *)
(* writes what the tool sees.  Then the commands: MapCache keeps the       *)
(* promise of TileMap and marks blocks to be dug; the flood shows what it  *)
(* should, and no more; the item bits are exact.                           *)
(***************************************************************************)
EXTENDS MapTools, Sublists_proofs

-----------------------------------------------------------------------------
(* The operations of the cache.                                            *)

World ==
    /\ present \subseteq Blocks
    /\ map \in [Tiles -> Values]
    /\ blockflags \in [Blocks -> SUBSET Flags]

\* v is w but for the parts in dirty.
AgreeOutside(dirty, v, w) ==
    /\ "tiletypes" \notin dirty => v.shape = w.shape
    /\ "designations" \notin dirty => v.hidden = w.hidden /\ v.dig = w.dig
    /\ "occupancies" \notin dirty => v.item = w.item

\* A copy of block b, when p are the blocks of the game and m is its map: the
\* parts that are not dirty are the game's.
GoodCopy(copy, b, p, m) ==
    /\ copy = [valid |-> copy.valid, raw |-> copy.raw, flags |-> copy.flags,
               dirty |-> copy.dirty]
    /\ copy.valid <=> b \in p
    /\ copy.flags \subseteq Flags
    /\ copy.dirty \subseteq Parts
    /\ b \in p =>
         /\ copy.raw \in [TilesOf(b) -> Values]
         /\ \A t \in TilesOf(b) : AgreeOutside(copy.dirty, copy.raw[t], m[t])

GoodCache(c, p, m) ==
    /\ DOMAIN c \subseteq Blocks
    /\ c = [b \in DOMAIN c |-> c[b]]
    /\ \A b \in DOMAIN c : GoodCopy(c[b], b, p, m)

\* A copy with a tile to be dug that the game does not know of has its flag.
MarkedCache(c, p, m) ==
    \A b \in DOMAIN c \cap p : \A t \in TilesOf(b) :
      c[b].raw[t].dig /\ ~m[t].dig => "designated" \in c[b].flags

ViewOf(c, m) == [t \in Tiles |-> IF IsCopied(c, BlockOf(t))
                                 THEN c[BlockOf(t)].raw[t] ELSE m[t]]

\* A good cache is made of cached blocks.
LEMMA GoodCacheType ==
    ASSUME GoodCache(cache, present, map) PROVE CachedBlocks(cache)
  BY DEF GoodCache, GoodCopy, CachedBlocks

\* The empty cache shows the game's map.
LEMMA TrashedGood ==
    ASSUME NEW p, NEW m, m \in [Tiles -> Values]
    PROVE  /\ GoodCache(Trashed, p, m) /\ MarkedCache(Trashed, p, m)
           /\ ViewOf(Trashed, m) = m
  <1>1. DOMAIN Trashed = {} /\ Trashed = [b \in {} |-> Trashed[b]]
    BY DEF Trashed
  <1>2. ViewOf(Trashed, m) = [t \in Tiles |-> m[t]]
    BY <1>1 DEF ViewOf, IsCopied
  <1> QED
    BY <1>1, <1>2 DEF GoodCache, MarkedCache

\* What a tool sees of a good cache are tiles.
LEMMA ViewType ==
    ASSUME NEW p, NEW m, m \in [Tiles -> Values], NEW c, GoodCache(c, p, m)
    PROVE  ViewOf(c, m) \in [Tiles -> Values]
  <1> SUFFICES ASSUME NEW t \in Tiles, IsCopied(c, BlockOf(t))
               PROVE  c[BlockOf(t)].raw[t] \in Values
    BY DEF ViewOf
  <1>1. BlockOf(t) \in DOMAIN c /\ c[BlockOf(t)].valid
    BY DEF IsCopied
  <1>2. GoodCopy(c[BlockOf(t)], BlockOf(t), p, m)
    BY <1>1 DEF GoodCache
  <1>3. BlockOf(t) \in p
    BY <1>1, <1>2 DEF GoodCopy
  <1>4. c[BlockOf(t)].raw \in [TilesOf(BlockOf(t)) -> Values]
    BY <1>2, <1>3 DEF GoodCopy
  <1>5. t \in TilesOf(BlockOf(t))
    BY DEF TilesOf
  <1> QED
    BY <1>4, <1>5

\* A fresh copy is the game's block.
LEMMA NewBlockGood ==
    ASSUME World, NEW b \in Blocks
    PROVE  /\ GoodCopy(NewBlock(b), b, present, map)
           /\ b \in present => NewBlock(b).raw = [t \in TilesOf(b) |-> map[t]]
  <1>1. CASE b \in present
    <2>1. NewBlock(b) = [valid |-> TRUE, raw |-> [t \in TilesOf(b) |-> map[t]],
                         flags |-> blockflags[b], dirty |-> {}]
      BY <1>1 DEF NewBlock
    <2>2. blockflags[b] \subseteq Flags
      BY DEF World
    <2>3. \A t \in TilesOf(b) : map[t] \in Values
      BY DEF World, TilesOf
    <2>4. NewBlock(b).raw \in [TilesOf(b) -> Values]
      BY <2>1, <2>3
    <2>5. \A t \in TilesOf(b) : NewBlock(b).raw[t] = map[t]
      BY <2>1
    <2> QED
      <3>1. NewBlock(b).valid <=> b \in present
        BY <1>1, <2>1
      <3>2. NewBlock(b).dirty = {} /\ NewBlock(b).flags \subseteq Flags
        BY <2>1, <2>2
      <3>3. \A t \in TilesOf(b) : AgreeOutside({}, NewBlock(b).raw[t], map[t])
        BY <2>5 DEF AgreeOutside
      <3>4. NewBlock(b) = [valid |-> NewBlock(b).valid, raw |-> NewBlock(b).raw,
                           flags |-> NewBlock(b).flags, dirty |-> NewBlock(b).dirty]
        BY <2>1
      <3> QED
        BY <2>1, <2>4, <3>1, <3>2, <3>3, <3>4 DEF GoodCopy
  <1>2. CASE b \notin present
    <2>1. NewBlock(b) = [valid |-> FALSE, raw |-> <<>>, flags |-> {}, dirty |-> {}]
      BY <1>2 DEF NewBlock
    <2>2. NewBlock(b).valid <=> b \in present
      BY <1>2, <2>1
    <2> QED
      BY <1>2, <2>1, <2>2 DEF GoodCopy
  <1> QED
    BY <1>1, <1>2

\* BlockAt: the block of t is in the cache, and the tool sees no difference.
LEMMA LoadGood ==
    ASSUME World, NEW c, GoodCache(c, present, map),
           MarkedCache(c, present, map), NEW t
    PROVE  /\ GoodCache(Load(c, t), present, map)
           /\ MarkedCache(Load(c, t), present, map)
           /\ ViewOf(Load(c, t), map) = ViewOf(c, map)
           /\ TestCoord(t) => BlockOf(t) \in DOMAIN Load(c, t)
           /\ DOMAIN Load(c, t) \subseteq DOMAIN c \cup {BlockOf(t)}
  <1> DEFINE b == BlockOf(t)
             L == Load(c, t)
  <1>1. CASE b \notin Blocks
    BY <1>1 DEF Load, TestCoord, World
  <1>2. CASE b \in Blocks
    <2>1. L = [k \in DOMAIN c \cup {b} |-> IF k \in DOMAIN c THEN c[k] ELSE NewBlock(b)]
      BY <1>2 DEF Load
    <2> HIDE DEF L
    <2>2. DOMAIN L = DOMAIN c \cup {b} /\ L = [k \in DOMAIN L |-> L[k]]
      BY <2>1
    <2>3. \A k \in DOMAIN c : L[k] = c[k]
      BY <2>1
    <2>4. b \notin DOMAIN c => L[b] = NewBlock(b)
      BY <2>1
    <2>5. GoodCache(L, present, map)
      <3>1. DOMAIN L \subseteq Blocks
        BY <1>2, <2>2 DEF GoodCache
      <3>2. \A k \in DOMAIN L : GoodCopy(L[k], k, present, map)
        BY <1>2, <2>2, <2>3, <2>4, NewBlockGood DEF GoodCache
      <3> QED
        BY <2>2, <3>1, <3>2 DEF GoodCache
    <2>6. MarkedCache(L, present, map)
      <3> SUFFICES ASSUME NEW k \in DOMAIN L \cap present, NEW u \in TilesOf(k),
                          L[k].raw[u].dig, ~map[u].dig
                   PROVE  "designated" \in L[k].flags
        BY DEF MarkedCache
      <3>1. CASE k \in DOMAIN c
        BY <2>3, <3>1 DEF MarkedCache
      <3>2. CASE k \notin DOMAIN c
        <4>1. k = b /\ L[k] = NewBlock(k)
          BY <2>2, <2>4, <3>2
        <4>2. NewBlock(k).raw = [v \in TilesOf(k) |-> map[v]]
          BY <1>2, <4>1, NewBlockGood
        <4>3. L[k].raw[u] = map[u]
          BY <4>1, <4>2
        <4> QED
          BY <4>3
      <3> QED
        BY <3>1, <3>2
    <2>7. ViewOf(L, map) = ViewOf(c, map)
      <3> SUFFICES ASSUME NEW u \in Tiles
                   PROVE  ViewOf(L, map)[u] = ViewOf(c, map)[u]
        BY DEF ViewOf
      <3>1. CASE BlockOf(u) \in DOMAIN c \/ BlockOf(u) # b
        BY <2>2, <2>3, <3>1 DEF ViewOf, IsCopied
      <3>2. CASE BlockOf(u) \notin DOMAIN c /\ BlockOf(u) = b
        <4>1. ViewOf(c, map)[u] = map[u]
          BY <3>2 DEF ViewOf, IsCopied
        <4>2. L[b] = NewBlock(b) /\ b \in DOMAIN L
          BY <2>2, <2>4, <3>2
        <4>3. ViewOf(L, map)[u] = IF NewBlock(b).valid THEN NewBlock(b).raw[u] ELSE map[u]
          BY <3>2, <4>2 DEF ViewOf, IsCopied
        <4>4. NewBlock(b).valid <=> b \in present
          BY <1>2, NewBlockGood DEF GoodCopy
        <4>5. u \in TilesOf(b)
          BY <3>2 DEF TilesOf
        <4>6. b \in present => NewBlock(b).raw[u] = map[u]
          BY <1>2, <4>5, NewBlockGood
        <4> QED
          BY <4>1, <4>3, <4>4, <4>6
      <3> QED
        BY <3>1, <3>2
    <2> QED
      BY <2>2, <2>5, <2>6, <2>7 DEF L
  <1> QED
    BY <1>1, <1>2

\* A view after tile t has become v.
Seen(view, t, v) == [view EXCEPT ![t] = v]

\* A cache after tile t of block b has become v there, its copy's flags have
\* become flags, and the parts in dirt have been marked.
Edited(c, b, t, v, dirt, flags) ==
    [c EXCEPT ![b] = [valid |-> c[b].valid, raw |-> [c[b].raw EXCEPT ![t] = v],
                      flags |-> flags, dirty |-> c[b].dirty \cup dirt]]

\* One tile of a copy is changed, in parts that are marked dirty.
LEMMA EditGood ==
    ASSUME World, NEW c, GoodCache(c, present, map),
           MarkedCache(c, present, map),
           NEW b \in DOMAIN c \cap present, NEW t \in TilesOf(b),
           NEW v \in Values, NEW dirt \in SUBSET Parts, NEW flags \in SUBSET Flags,
           AgreeOutside(dirt, v, c[b].raw[t]),
           c[b].flags \subseteq flags,
           v.dig /\ ~map[t].dig => "designated" \in flags,
           NEW d, d = Edited(c, b, t, v, dirt, flags)
    PROVE  /\ GoodCache(d, present, map) /\ MarkedCache(d, present, map)
           /\ DOMAIN d = DOMAIN c
           /\ ViewOf(d, map) = Seen(ViewOf(c, map), t, v)
  <1>1. /\ DOMAIN d = DOMAIN c /\ d = [k \in DOMAIN d |-> d[k]]
        /\ \A k \in DOMAIN c \ {b} : d[k] = c[k]
    BY DEF Edited
  <1>2. d[b] = [valid |-> c[b].valid, raw |-> [c[b].raw EXCEPT ![t] = v],
                flags |-> flags, dirty |-> c[b].dirty \cup dirt]
    BY DEF Edited
  <1>3. GoodCopy(c[b], b, present, map)
    BY DEF GoodCache
  <1>4. c[b].raw \in [TilesOf(b) -> Values] /\ c[b].valid
    BY <1>3 DEF GoodCopy
  <1>5. /\ d[b].raw \in [TilesOf(b) -> Values] /\ d[b].raw[t] = v
        /\ \A u \in TilesOf(b) \ {t} : d[b].raw[u] = c[b].raw[u]
    BY <1>2, <1>4
  <1>6. GoodCopy(d[b], b, present, map)
    <2>1. \A u \in TilesOf(b) : AgreeOutside(d[b].dirty, d[b].raw[u], map[u])
      BY <1>2, <1>3, <1>5 DEF GoodCopy, AgreeOutside
    <2>2. /\ d[b].valid = c[b].valid /\ d[b].flags = flags
          /\ d[b].dirty \subseteq Parts
      BY <1>2, <1>3 DEF GoodCopy
    <2> QED
      BY <1>2, <1>3, <1>5, <2>1, <2>2 DEF GoodCopy
  <1>7. GoodCache(d, present, map)
    BY <1>1, <1>6 DEF GoodCache
  <1>8. MarkedCache(d, present, map)
    BY <1>1, <1>2, <1>5 DEF MarkedCache
  <1>9. ViewOf(d, map) = Seen(ViewOf(c, map), t, v)
    <2>1. t \in Tiles /\ BlockOf(t) = b
      BY DEF TilesOf
    <2>2. d[b].valid
      BY <1>2, <1>4
    <2> SUFFICES ASSUME NEW u \in Tiles
                 PROVE  ViewOf(d, map)[u] = IF u = t THEN v ELSE ViewOf(c, map)[u]
      BY <2>1 DEF ViewOf, Seen
    <2>3. CASE BlockOf(u) # b
      BY <1>1, <2>1, <2>3 DEF ViewOf, IsCopied
    <2>4. CASE BlockOf(u) = b
      <3>1. u \in TilesOf(b)
        BY <2>4 DEF TilesOf
      <3>2. ViewOf(d, map)[u] = d[b].raw[u] /\ ViewOf(c, map)[u] = c[b].raw[u]
        BY <1>1, <1>4, <2>2, <2>4 DEF ViewOf, IsCopied
      <3> QED
        BY <1>5, <3>1, <3>2
    <2> QED
      BY <2>3, <2>4
  <1> QED
    BY <1>1, <1>7, <1>8, <1>9

\* What a tool reads of a tile on the map is what it sees.
LEMMA TileAtView ==
    ASSUME World, NEW c, GoodCache(c, present, map),
           MarkedCache(c, present, map), NEW t \in Tiles, TestCoord(t)
    PROVE  /\ BlockOf(t) \in DOMAIN Load(c, t) \cap present
           /\ t \in TilesOf(BlockOf(t))
           /\ TileAt(c, t) = ViewOf(c, map)[t]
           /\ TileAt(c, t) \in Values
  <1> DEFINE L == Load(c, t)
             b == BlockOf(t)
  <1> HIDE DEF L
  <1>1. /\ GoodCache(L, present, map) /\ b \in DOMAIN L
        /\ ViewOf(L, map) = ViewOf(c, map)
    BY LoadGood DEF L
  <1>2. b \in present /\ t \in TilesOf(b)
    BY DEF TestCoord, TilesOf
  <1>3. L[b].valid
    BY <1>1, <1>2 DEF GoodCache, GoodCopy
  <1>4. ViewOf(L, map)[t] = L[b].raw[t]
    BY <1>1, <1>3 DEF ViewOf, IsCopied
  <1>5. ViewOf(L, map)[t] \in Values
    BY <1>1, ViewType DEF World
  <1>6. TileAt(c, t) = L[b].raw[t]
    BY DEF TileAt, L
  <1> QED
    BY <1>1, <1>2, <1>4, <1>5, <1>6 DEF L

ChangedAt(c, b, t, v, part) ==
    [c EXCEPT ![b].raw[t] = v, ![b].dirty = @ \cup {part}]

\* Change edits a tile and keeps the flags.
LEMMA ChangedCopy ==
    ASSUME NEW L, L = [k \in DOMAIN L |-> L[k]], NEW b \in DOMAIN L,
           L[b] = [valid |-> L[b].valid, raw |-> L[b].raw, flags |-> L[b].flags,
                   dirty |-> L[b].dirty],
           NEW t, NEW v, NEW part
    PROVE  ChangedAt(L, b, t, v, part) = Edited(L, b, t, v, {part}, L[b].flags)
  <1> DEFINE M == [L EXCEPT ![b].raw[t] = v]
             N == [L EXCEPT ![b].raw[t] = v, ![b].dirty = @ \cup {part}]
  <1>1. M = [k \in DOMAIN L |-> IF k = b THEN [L[b] EXCEPT !.raw[t] = v] ELSE L[k]]
    OBVIOUS
  <1>2. N = [M EXCEPT ![b].dirty = @ \cup {part}]
    OBVIOUS
  <1>3. [L[b] EXCEPT !.raw[t] = v] =
             [valid |-> L[b].valid, raw |-> [L[b].raw EXCEPT ![t] = v],
              flags |-> L[b].flags, dirty |-> L[b].dirty]
    OBVIOUS
  <1> HIDE DEF M, N
  <1>4. M[b] = [valid |-> L[b].valid, raw |-> [L[b].raw EXCEPT ![t] = v],
                flags |-> L[b].flags, dirty |-> L[b].dirty]
    BY <1>1, <1>3
  <1>5. DOMAIN M = DOMAIN L /\ \A k \in DOMAIN L \ {b} : M[k] = L[k]
    BY <1>1
  <1>6. N = [k \in DOMAIN M |-> IF k = b THEN [M[b] EXCEPT !.dirty = @ \cup {part}] ELSE M[k]]
    BY <1>2
  <1>7. [M[b] EXCEPT !.dirty = @ \cup {part}] =
          [valid |-> L[b].valid, raw |-> [L[b].raw EXCEPT ![t] = v],
           flags |-> L[b].flags, dirty |-> L[b].dirty \cup {part}]
    BY <1>4
  <1>8. N = Edited(L, b, t, v, {part}, L[b].flags)
    BY <1>5, <1>6, <1>7 DEF Edited
  <1> QED
    BY <1>8 DEF N, ChangedAt

\* L is c after block b of tile t has been asked for.
Loaded(c, t, L, b) ==
    /\ GoodCache(L, present, map) /\ MarkedCache(L, present, map)
    /\ ViewOf(L, map) = ViewOf(c, map)
    /\ b \in DOMAIN L \cap present /\ t \in TilesOf(b)
    /\ L[b].raw[t] = TileAt(c, t)
    /\ L[b].flags \in SUBSET Flags
    /\ L = [k \in DOMAIN L |-> L[k]]
    /\ L[b] = [valid |-> L[b].valid, raw |-> L[b].raw, flags |-> L[b].flags,
               dirty |-> L[b].dirty]

\* Change, of a tile on the map, edits what BlockAt has loaded.
LEMMA ChangeEdits ==
    ASSUME World, NEW c, GoodCache(c, present, map),
           MarkedCache(c, present, map), NEW t \in Tiles, TestCoord(t),
           NEW v, NEW part
    PROVE  /\ Loaded(c, t, Load(c, t), BlockOf(t))
           /\ Change(c, t, v, part) =
                Edited(Load(c, t), BlockOf(t), t, v, {part},
                       Load(c, t)[BlockOf(t)].flags)
  <1> DEFINE L == Load(c, t)
             b == BlockOf(t)
  <1> HIDE DEF L, b
  <1>1. /\ GoodCache(L, present, map) /\ MarkedCache(L, present, map)
        /\ b \in DOMAIN L \cap present /\ t \in TilesOf(b)
        /\ ViewOf(L, map) = ViewOf(c, map)
    BY LoadGood, TileAtView DEF L, b
  <1>2. L[b].raw[t] = TileAt(c, t)
    BY DEF TileAt, L, b
  <1>3. GoodCopy(L[b], b, present, map)
    BY <1>1 DEF GoodCache
  <1>4. L[b] = [valid |-> L[b].valid, raw |-> L[b].raw, flags |-> L[b].flags,
                dirty |-> L[b].dirty]
    BY <1>3 DEF GoodCopy
  <1>5. L = [k \in DOMAIN L |-> L[k]] /\ b \in DOMAIN L
    BY <1>1 DEF GoodCache
  <1>6. Change(c, t, v, part) = ChangedAt(L, b, t, v, part)
    BY DEF Change, ChangedAt, L, b
  <1>7. Change(c, t, v, part) = Edited(L, b, t, v, {part}, L[b].flags)
    BY <1>4, <1>5, <1>6, ChangedCopy
  <1>8. Loaded(c, t, L, b)
    BY <1>1, <1>2, <1>3, <1>4, <1>5 DEF Loaded, GoodCopy
  <1> QED
    BY <1>7, <1>8 DEF L, b

\* Change, of a tile on the map: that tile alone looks different.
LEMMA ChangeGood ==
    ASSUME World, NEW c, GoodCache(c, present, map),
           MarkedCache(c, present, map), NEW t \in Tiles, TestCoord(t),
           NEW v \in Values, NEW part \in Parts,
           AgreeOutside({part}, v, TileAt(c, t)),
           v.dig => TileAt(c, t).dig
    PROVE  /\ GoodCache(Change(c, t, v, part), present, map)
           /\ MarkedCache(Change(c, t, v, part), present, map)
           /\ ViewOf(Change(c, t, v, part), map) = Seen(ViewOf(c, map), t, v)
  <1> DEFINE L == Load(c, t)
             b == BlockOf(t)
  <1> HIDE DEF L, b
  <1>1. /\ GoodCache(L, present, map) /\ MarkedCache(L, present, map)
        /\ ViewOf(L, map) = ViewOf(c, map)
        /\ b \in DOMAIN L \cap present /\ t \in TilesOf(b)
        /\ L[b].raw[t] = TileAt(c, t)
        /\ L[b].flags \in SUBSET Flags
    <2>1. Loaded(c, t, L, b)
      BY ChangeEdits DEF L, b
    <2> QED
      BY <2>1 DEF Loaded
  <1>4. Change(c, t, v, part) = Edited(L, b, t, v, {part}, L[b].flags)
    BY ChangeEdits DEF L, b
  <1>2. v.dig /\ ~map[t].dig => "designated" \in L[b].flags
    BY <1>1 DEF MarkedCache
  <1>3. AgreeOutside({part}, v, L[b].raw[t]) /\ {part} \in SUBSET Parts
    BY <1>1
  <1> QED
    BY <1>1, <1>2, <1>3, <1>4, EditGood

\* The tools' way to set a tile: d is c after the tool has made t into v, when
\* t is on the map.
Sets(c, d, t, v) ==
    /\ GoodCache(d, present, map) /\ MarkedCache(d, present, map)
    /\ ViewOf(d, map) = IF TestCoord(t) THEN Seen(ViewOf(c, map), t, v)
                                        ELSE ViewOf(c, map)

\* setTiletypeAt: the view changes at one tile, in its shape.
LEMMA SetTiletypeGood ==
    ASSUME World, NEW c, GoodCache(c, present, map),
           MarkedCache(c, present, map), NEW t \in Tiles, NEW shape \in Shapes
    PROVE  Sets(c, SetTiletypeAt(c, t, shape), t,
                [ViewOf(c, map)[t] EXCEPT !.shape = shape])
  <1>1. CASE ~TestCoord(t)
    BY <1>1, LoadGood DEF Sets, SetTiletypeAt
  <1>2. CASE TestCoord(t)
    <2> DEFINE old == TileAt(c, t)
               v == [old EXCEPT !.shape = shape]
    <2>1. old \in Values /\ old = ViewOf(c, map)[t]
      BY <1>2, TileAtView
    <2> HIDE DEF old
    <2>2. /\ v \in Values /\ AgreeOutside({"tiletypes"}, v, old)
          /\ v.dig => old.dig
      BY <2>1 DEF Values, AgreeOutside
    <2>3. SetTiletypeAt(c, t, shape) = Change(c, t, v, "tiletypes")
      BY <1>2 DEF SetTiletypeAt, old
    <2> HIDE DEF v
    <2>4. "tiletypes" \in Parts
      BY DEF Parts
    <2>5. Sets(c, Change(c, t, v, "tiletypes"), t, v)
      BY <1>2, <2>2, <2>4, ChangeGood DEF Sets, old
    <2> QED
      BY <2>1, <2>3, <2>5 DEF v
  <1> QED
    BY <1>1, <1>2

\* setOccupancyAt: the view changes at one tile, in its item bit.
LEMMA SetOccupancyGood ==
    ASSUME World, NEW c, GoodCache(c, present, map),
           MarkedCache(c, present, map), NEW t \in Tiles, NEW item \in BOOLEAN
    PROVE  Sets(c, SetOccupancyAt(c, t, item), t,
                [ViewOf(c, map)[t] EXCEPT !.item = item])
  <1>1. CASE ~TestCoord(t)
    BY <1>1, LoadGood DEF Sets, SetOccupancyAt
  <1>2. CASE TestCoord(t)
    <2> DEFINE old == TileAt(c, t)
               v == [old EXCEPT !.item = item]
    <2>1. old \in Values /\ old = ViewOf(c, map)[t]
      BY <1>2, TileAtView
    <2> HIDE DEF old
    <2>2. /\ v \in Values /\ AgreeOutside({"occupancies"}, v, old)
          /\ v.dig => old.dig
      BY <2>1 DEF Values, AgreeOutside
    <2>3. SetOccupancyAt(c, t, item) = Change(c, t, v, "occupancies")
      BY <1>2 DEF SetOccupancyAt, old
    <2> HIDE DEF v
    <2>4. "occupancies" \in Parts
      BY DEF Parts
    <2>5. Sets(c, Change(c, t, v, "occupancies"), t, v)
      BY <1>2, <2>2, <2>4, ChangeGood DEF Sets, old
    <2> QED
      BY <2>1, <2>3, <2>5 DEF v
  <1> QED
    BY <1>1, <1>2

MarkedAt(c, b) ==
    [c EXCEPT ![b].flags = @ \cup {"designated"}, ![b].dirty = @ \cup {"blockflags"}]

\* A designation to dig edits a tile and marks its block.
LEMMA MarkedCopy ==
    ASSUME NEW L, L = [k \in DOMAIN L |-> L[k]], NEW b \in DOMAIN L,
           L[b] = [valid |-> L[b].valid, raw |-> L[b].raw, flags |-> L[b].flags,
                   dirty |-> L[b].dirty],
           NEW t, NEW v, NEW dirt, NEW d, d = Edited(L, b, t, v, dirt, L[b].flags)
    PROVE  MarkedAt(d, b) = Edited(L, b, t, v, dirt \cup {"blockflags"},
                                   L[b].flags \cup {"designated"})
  <1> DEFINE M == [d EXCEPT ![b].flags = @ \cup {"designated"}]
             raw == [L[b].raw EXCEPT ![t] = v]
  <1>1. /\ DOMAIN d = DOMAIN L /\ d = [k \in DOMAIN L |-> d[k]]
        /\ \A k \in DOMAIN L \ {b} : d[k] = L[k]
    BY DEF Edited
  <1>2. d[b] = [valid |-> L[b].valid, raw |-> raw,
                flags |-> L[b].flags, dirty |-> L[b].dirty \cup dirt]
    BY DEF Edited
  <1> HIDE DEF raw
  <1>3. M = [k \in DOMAIN L |->
               IF k = b THEN [d[b] EXCEPT !.flags = @ \cup {"designated"}] ELSE d[k]]
    BY <1>1
  <1>4. MarkedAt(d, b) = [M EXCEPT ![b].dirty = @ \cup {"blockflags"}]
    BY DEF MarkedAt
  <1>5. [d[b] EXCEPT !.flags = @ \cup {"designated"}] =
          [valid |-> L[b].valid, raw |-> raw,
           flags |-> L[b].flags \cup {"designated"}, dirty |-> L[b].dirty \cup dirt]
    <2> DEFINE flags == L[b].flags \cup {"designated"}
    <2>1. d[b].flags \cup {"designated"} = flags
      BY <1>2
    <2> DEFINE dirty == L[b].dirty \cup dirt
    <2>2. d[b] = [valid |-> L[b].valid, raw |-> raw, flags |-> L[b].flags,
                  dirty |-> dirty]
      BY <1>2
    <2> HIDE DEF flags, dirty
    <2>3. [d[b] EXCEPT !.flags = flags] =
            [valid |-> L[b].valid, raw |-> raw, flags |-> flags, dirty |-> dirty]
      BY <2>2
    <2> QED
      BY <2>1, <2>3 DEF flags, dirty
  <1> HIDE DEF M
  <1>6. M[b] = [valid |-> L[b].valid, raw |-> raw,
                flags |-> L[b].flags \cup {"designated"},
                dirty |-> L[b].dirty \cup dirt]
    BY <1>3, <1>5
  <1>7. DOMAIN M = DOMAIN L /\ \A k \in DOMAIN L \ {b} : M[k] = L[k]
    BY <1>1, <1>3
  <1>8. MarkedAt(d, b) = [k \in DOMAIN M |->
          IF k = b THEN [M[b] EXCEPT !.dirty = @ \cup {"blockflags"}] ELSE M[k]]
    BY <1>4
  <1>9. (L[b].dirty \cup dirt) \cup {"blockflags"} =
          L[b].dirty \cup (dirt \cup {"blockflags"})
    OBVIOUS
  <1>10. [M[b] EXCEPT !.dirty = @ \cup {"blockflags"}] =
          [valid |-> L[b].valid, raw |-> raw,
           flags |-> L[b].flags \cup {"designated"},
           dirty |-> L[b].dirty \cup (dirt \cup {"blockflags"})]
    <2> DEFINE dirty == L[b].dirty \cup (dirt \cup {"blockflags"})
    <2>1. M[b].dirty \cup {"blockflags"} = dirty
      BY <1>6, <1>9
    <2> HIDE DEF dirty
    <2>2. [M[b] EXCEPT !.dirty = dirty] =
            [valid |-> L[b].valid, raw |-> raw,
             flags |-> L[b].flags \cup {"designated"}, dirty |-> dirty]
      BY <1>6
    <2> QED
      BY <2>1, <2>2 DEF dirty
  <1>11. PICK N :
          N = [valid |-> L[b].valid, raw |-> raw,
               flags |-> L[b].flags \cup {"designated"},
               dirty |-> L[b].dirty \cup (dirt \cup {"blockflags"})]
    OBVIOUS
  <1>12. [M[b] EXCEPT !.dirty = @ \cup {"blockflags"}] = N
    BY <1>10, <1>11
  <1>13. MarkedAt(d, b) = [k \in DOMAIN M |-> IF k = b THEN N ELSE M[k]]
    BY <1>8, <1>12
  <1>14. MarkedAt(d, b) = [k \in DOMAIN L |-> IF k = b THEN N ELSE L[k]]
    BY <1>7, <1>13
  <1>15. Edited(L, b, t, v, dirt \cup {"blockflags"}, L[b].flags \cup {"designated"})
           = [L EXCEPT ![b] = N]
    BY <1>11 DEF Edited, raw
  <1>16. [L EXCEPT ![b] = N] = [k \in DOMAIN L |-> IF k = b THEN N ELSE L[k]]
    OBVIOUS
  <1> QED
    BY <1>14, <1>15, <1>16

\* setDesignationAt: the view changes at one tile, in what is hidden and dug.
LEMMA SetDesignationGood ==
    ASSUME World, NEW c, GoodCache(c, present, map),
           MarkedCache(c, present, map), NEW t \in Tiles,
           NEW hidden \in BOOLEAN, NEW dig \in BOOLEAN
    PROVE  Sets(c, SetDesignationAt(c, t, hidden, dig), t,
                [ViewOf(c, map)[t] EXCEPT !.hidden = hidden, !.dig = dig])
  <1>1. CASE ~TestCoord(t)
    BY <1>1, LoadGood DEF Sets, SetDesignationAt
  <1>2. CASE TestCoord(t)
    <2> DEFINE old == TileAt(c, t)
               v == [old EXCEPT !.hidden = hidden, !.dig = dig]
               L == Load(c, t)
               b == BlockOf(t)
               d == Change(c, t, v, "designations")
    <2>1. old \in Values /\ old = ViewOf(c, map)[t]
      BY <1>2, TileAtView
    <2> HIDE DEF old
    <2>2. /\ v \in Values /\ AgreeOutside({"designations"}, v, old)
          /\ v.dig = dig
      BY <2>1 DEF Values, AgreeOutside
    <2> HIDE DEF v, L, b
    <2>3. /\ GoodCache(L, present, map) /\ MarkedCache(L, present, map)
          /\ ViewOf(L, map) = ViewOf(c, map)
          /\ b \in DOMAIN L \cap present /\ t \in TilesOf(b)
          /\ L[b].raw[t] = old
          /\ L[b].flags \in SUBSET Flags
          /\ L = [k \in DOMAIN L |-> L[k]]
          /\ L[b] = [valid |-> L[b].valid, raw |-> L[b].raw,
                     flags |-> L[b].flags, dirty |-> L[b].dirty]
      <3>1. Loaded(c, t, L, b)
        BY <1>2, ChangeEdits DEF L, b
      <3> QED
        BY <3>1 DEF Loaded, old
    <2>6. d = Edited(L, b, t, v, {"designations"}, L[b].flags)
      BY <1>2, ChangeEdits DEF L, b
    <2>4. CASE ~dig
      <3>1. SetDesignationAt(c, t, hidden, dig) = d
        BY <1>2, <2>4 DEF SetDesignationAt, v, old
      <3>2. "designations" \in Parts /\ ~v.dig
        BY <2>2, <2>4 DEF Parts
      <3>3. Sets(c, d, t, v)
        BY <1>2, <2>2, <3>2, ChangeGood DEF Sets, old
      <3> QED
        BY <2>1, <3>1, <3>3 DEF v
    <2>5. CASE dig
      <3> DEFINE dirt == {"designations"} \cup {"blockflags"}
                 flags == L[b].flags \cup {"designated"}
      <3>1. SetDesignationAt(c, t, hidden, dig) = MarkedAt(d, b)
        BY <1>2, <2>5 DEF SetDesignationAt, MarkedAt, v, old, b
      <3>2. MarkedAt(d, b) = Edited(L, b, t, v, dirt, flags)
        BY <2>3, <2>6, MarkedCopy
      <3>3. dirt \in SUBSET Parts /\ flags \in SUBSET Flags
            /\ "designated" \in flags /\ L[b].flags \subseteq flags
        BY <2>3 DEF Parts, Flags
      <3>4. AgreeOutside(dirt, v, L[b].raw[t])
        BY <2>2, <2>3 DEF AgreeOutside
      <3> HIDE DEF dirt, flags, d
      <3>5. /\ GoodCache(MarkedAt(d, b), present, map)
            /\ MarkedCache(MarkedAt(d, b), present, map)
            /\ ViewOf(MarkedAt(d, b), map) = Seen(ViewOf(L, map), t, v)
        BY <2>2, <2>3, <3>2, <3>3, <3>4, EditGood
      <3>6. Sets(c, MarkedAt(d, b), t, v)
        BY <1>2, <2>3, <3>5 DEF Sets
      <3> QED
        BY <2>1, <3>1, <3>6 DEF v
    <2> QED
      BY <2>4, <2>5
  <1> QED
    BY <1>1, <1>2

FlaggedAt(c, b, flags) ==
    [c EXCEPT ![b].flags = flags, ![b].dirty = @ \cup {"blockflags"}]

\* setBlockFlags changes one copy's flags and nothing else.
LEMMA FlaggedCopy ==
    ASSUME NEW c, c = [k \in DOMAIN c |-> c[k]], NEW b \in DOMAIN c, NEW flags,
           c[b] = [valid |-> c[b].valid, raw |-> c[b].raw, flags |-> c[b].flags,
                   dirty |-> c[b].dirty]
    PROVE  LET d == FlaggedAt(c, b, flags) IN
           /\ DOMAIN d = DOMAIN c /\ d = [k \in DOMAIN d |-> d[k]]
           /\ \A k \in DOMAIN c \ {b} : d[k] = c[k]
           /\ d[b] = [valid |-> c[b].valid, raw |-> c[b].raw, flags |-> flags,
                      dirty |-> c[b].dirty \cup {"blockflags"}]
  <1> DEFINE M == [c EXCEPT ![b].flags = flags]
             d == FlaggedAt(c, b, flags)
  <1>1. d = [M EXCEPT ![b].dirty = @ \cup {"blockflags"}]
    BY DEF FlaggedAt
  <1>2. M = [k \in DOMAIN c |-> IF k = b THEN [c[b] EXCEPT !.flags = flags] ELSE c[k]]
    OBVIOUS
  <1>3. [c[b] EXCEPT !.flags = flags] =
          [valid |-> c[b].valid, raw |-> c[b].raw, flags |-> flags,
           dirty |-> c[b].dirty]
    OBVIOUS
  <1> HIDE DEF M, d
  <1>4. /\ DOMAIN M = DOMAIN c /\ \A k \in DOMAIN c \ {b} : M[k] = c[k]
        /\ M[b] = [valid |-> c[b].valid, raw |-> c[b].raw, flags |-> flags,
                   dirty |-> c[b].dirty]
    BY <1>2, <1>3
  <1>5. d = [k \in DOMAIN M |->
               IF k = b THEN [M[b] EXCEPT !.dirty = @ \cup {"blockflags"}] ELSE M[k]]
    BY <1>1
  <1>6. [M[b] EXCEPT !.dirty = @ \cup {"blockflags"}] =
          [valid |-> c[b].valid, raw |-> c[b].raw, flags |-> flags,
           dirty |-> c[b].dirty \cup {"blockflags"}]
    <2> DEFINE dirty == c[b].dirty \cup {"blockflags"}
    <2>1. M[b].dirty \cup {"blockflags"} = dirty
      BY <1>4
    <2> HIDE DEF dirty
    <2>2. [M[b] EXCEPT !.dirty = dirty] =
            [valid |-> c[b].valid, raw |-> c[b].raw, flags |-> flags,
             dirty |-> dirty]
      BY <1>4
    <2> QED
      BY <2>1, <2>2 DEF dirty
  <1>7. /\ DOMAIN d = DOMAIN c /\ d = [k \in DOMAIN d |-> d[k]]
        /\ \A k \in DOMAIN c \ {b} : d[k] = c[k]
    BY <1>4, <1>5
  <1>8. d[b] = [valid |-> c[b].valid, raw |-> c[b].raw, flags |-> flags,
                dirty |-> c[b].dirty \cup {"blockflags"}]
    BY <1>4, <1>5, <1>6
  <1> QED
    BY <1>7, <1>8 DEF d

\* setBlockFlags: no tile looks different.
LEMMA SetLiquidFlagGood ==
    ASSUME NEW p, NEW m, NEW c, GoodCache(c, p, m), MarkedCache(c, p, m),
           NEW b \in DOMAIN c, NEW on \in BOOLEAN
    PROVE  /\ GoodCache(SetLiquidFlag(c, b, on), p, m)
           /\ MarkedCache(SetLiquidFlag(c, b, on), p, m)
           /\ ViewOf(SetLiquidFlag(c, b, on), m) = ViewOf(c, m)
  <1>1. CASE ~c[b].valid
    BY <1>1 DEF SetLiquidFlag
  <1>2. CASE c[b].valid
    <2> DEFINE flags == IF on THEN c[b].flags \cup {"liquid"}
                              ELSE c[b].flags \ {"liquid"}
               d == FlaggedAt(c, b, flags)
    <2>1. SetLiquidFlag(c, b, on) = d
      BY <1>2 DEF SetLiquidFlag, FlaggedAt
    <2>2. GoodCopy(c[b], b, p, m) /\ c = [k \in DOMAIN c |-> c[k]]
      BY DEF GoodCache
    <2>3. c[b] = [valid |-> c[b].valid, raw |-> c[b].raw, flags |-> c[b].flags,
                  dirty |-> c[b].dirty]
      BY <2>2 DEF GoodCopy
    <2>4. /\ flags \subseteq Flags
          /\ "designated" \in c[b].flags => "designated" \in flags
      BY <2>2 DEF GoodCopy, Flags
    <2> HIDE DEF flags
    <2>5. /\ DOMAIN d = DOMAIN c /\ d = [k \in DOMAIN d |-> d[k]]
          /\ \A k \in DOMAIN c \ {b} : d[k] = c[k]
          /\ d[b] = [valid |-> c[b].valid, raw |-> c[b].raw, flags |-> flags,
                     dirty |-> c[b].dirty \cup {"blockflags"}]
      BY <2>2, <2>3, FlaggedCopy
    <2> HIDE DEF d
    <2>6. GoodCopy(d[b], b, p, m)
      <3>1. d[b].dirty \subseteq Parts
        BY <2>2, <2>5 DEF GoodCopy, Parts
      <3>2. d[b].raw = c[b].raw /\ d[b].valid = c[b].valid /\ d[b].flags = flags
            /\ d[b].dirty = c[b].dirty \cup {"blockflags"}
        BY <2>5
      <3>3. b \in p => \A t \in TilesOf(b) : AgreeOutside(d[b].dirty, d[b].raw[t], m[t])
        BY <2>2, <3>2 DEF GoodCopy, AgreeOutside
      <3> QED
        BY <2>2, <2>4, <2>5, <3>1, <3>2, <3>3 DEF GoodCopy
    <2>7. GoodCache(d, p, m)
      BY <2>5, <2>6 DEF GoodCache
    <2>8. MarkedCache(d, p, m)
      BY <2>4, <2>5 DEF MarkedCache
    <2>9. \A k \in DOMAIN c : d[k].raw = c[k].raw /\ d[k].valid = c[k].valid
      BY <2>5
    <2>10. ViewOf(d, m) = ViewOf(c, m)
      BY <2>5, <2>9 DEF ViewOf, IsCopied
    <2> QED
      BY <2>1, <2>7, <2>8, <2>10
  <1> QED
    BY <1>1, <1>2

\* WriteAll writes what the tool sees.
LEMMA WrittenIsView ==
    ASSUME World, NEW c, GoodCache(c, present, map)
    PROVE  WrittenMap(c) = ViewOf(c, map)
  <1> SUFFICES ASSUME NEW t \in Tiles, IsCopied(c, BlockOf(t))
               PROVE  WrittenTile(c[BlockOf(t)], t) = c[BlockOf(t)].raw[t]
    BY DEF WrittenMap, ViewOf
  <1> DEFINE copy == c[BlockOf(t)]
             v == copy.raw[t]
  <1>1. GoodCopy(copy, BlockOf(t), present, map) /\ copy.valid
    BY DEF IsCopied, GoodCache
  <1>2. t \in TilesOf(BlockOf(t))
    BY DEF TilesOf
  <1> HIDE DEF copy
  <1>3. v \in Values /\ AgreeOutside(copy.dirty, v, map[t])
    BY <1>1, <1>2 DEF GoodCopy
  <1>4. v = [shape |-> v.shape, hidden |-> v.hidden, dig |-> v.dig, item |-> v.item]
    BY <1>3 DEF Values
  <1>5. WrittenTile(copy, t) = [shape |-> v.shape, hidden |-> v.hidden,
                                dig |-> v.dig, item |-> v.item]
    BY <1>3 DEF WrittenTile, AgreeOutside
  <1> QED
    BY <1>4, <1>5 DEF copy

\* The copies stay, clean, and the map looks as before.
LEMMA CleanedGood ==
    ASSUME World, NEW c, GoodCache(c, present, map)
    PROVE  /\ WrittenMap(c) \in [Tiles -> Values]
           /\ GoodCache(Cleaned(c), present, WrittenMap(c))
           /\ MarkedCache(Cleaned(c), present, WrittenMap(c))
           /\ ViewOf(Cleaned(c), WrittenMap(c)) = WrittenMap(c)
  <1> DEFINE d == Cleaned(c)
             w == WrittenMap(c)
  <1>1. w = ViewOf(c, map)
    BY WrittenIsView
  <1>2. w \in [Tiles -> Values]
    BY <1>1, ViewType DEF World
  <1>3. DOMAIN d = DOMAIN c /\ d = [b \in DOMAIN d |-> d[b]]
    BY DEF Cleaned
  <1>4. ASSUME NEW b \in DOMAIN c
        PROVE  /\ GoodCopy(d[b], b, present, w)
               /\ d[b].raw = c[b].raw /\ d[b].valid = c[b].valid
               /\ b \in present => \A t \in TilesOf(b) : w[t] = c[b].raw[t]
    <2>1. GoodCopy(c[b], b, present, map)
      BY DEF GoodCache
    <2>2. d[b] = IF c[b].valid THEN [c[b] EXCEPT !.dirty = {}] ELSE c[b]
      BY DEF Cleaned
    <2>3. c[b] = [valid |-> c[b].valid, raw |-> c[b].raw, flags |-> c[b].flags,
                  dirty |-> c[b].dirty]
      BY <2>1 DEF GoodCopy
    <2> HIDE DEF d, w
    <2>4. CASE ~c[b].valid
      BY <2>1, <2>2, <2>4 DEF GoodCopy
    <2>5. CASE c[b].valid
      <3>1. d[b] = [valid |-> c[b].valid, raw |-> c[b].raw, flags |-> c[b].flags,
                    dirty |-> {}]
        BY <2>2, <2>3, <2>5
      <3>2. \A t \in TilesOf(b) : w[t] = c[b].raw[t]
        BY <1>1, <2>5 DEF ViewOf, IsCopied, TilesOf
      <3>3. \A t \in TilesOf(b) : AgreeOutside(d[b].dirty, d[b].raw[t], w[t])
        BY <3>1, <3>2 DEF AgreeOutside
      <3>4. d[b].raw = c[b].raw /\ d[b].valid = c[b].valid
            /\ d[b].flags = c[b].flags /\ d[b].dirty = {}
        BY <3>1
      <3>5. GoodCopy(d[b], b, present, w)
        BY <2>1, <3>1, <3>3, <3>4 DEF GoodCopy
      <3> QED
        BY <3>2, <3>4, <3>5
    <2> QED
      BY <2>4, <2>5
  <1> HIDE DEF d, w
  <1>5. GoodCache(d, present, w)
    BY <1>3, <1>4 DEF GoodCache
  <1>6. MarkedCache(d, present, w)
    BY <1>3, <1>4 DEF MarkedCache
  <1>7. ViewOf(d, w) = w
    <2>1. ASSUME NEW t \in Tiles
          PROVE  (IF IsCopied(d, BlockOf(t)) THEN d[BlockOf(t)].raw[t] ELSE w[t]) = w[t]
      <3>1. CASE ~IsCopied(d, BlockOf(t))
        BY <3>1
      <3>2. CASE IsCopied(d, BlockOf(t))
        <4>1. BlockOf(t) \in DOMAIN c /\ BlockOf(t) \in present
          BY <1>3, <1>4, <3>2 DEF IsCopied, GoodCopy
        <4>2. t \in TilesOf(BlockOf(t))
          BY DEF TilesOf
        <4> QED
          BY <1>4, <3>2, <4>1, <4>2
      <3> QED
        BY <3>1, <3>2
    <2>2. w = [t \in Tiles |-> w[t]]
      BY <1>2
    <2> QED
      BY <2>1, <2>2 DEF ViewOf
  <1> QED
    BY <1>2, <1>5, <1>6, <1>7 DEF d, w

\* A tile newly to be dug is in a block that is marked.
LEMMA WrittenMarked ==
    ASSUME World, NEW c, GoodCache(c, present, map), MarkedCache(c, present, map)
    PROVE  /\ WrittenBlockflags(c) \in [Blocks -> SUBSET Flags]
           /\ \A t \in Tiles : WrittenMap(c)[t].dig /\ ~map[t].dig =>
                /\ BlockOf(t) \in Blocks
                /\ "designated" \in WrittenBlockflags(c)[BlockOf(t)]
  <1>1. ASSUME NEW b \in Blocks, IsCopied(c, b)
        PROVE  WrittenFlags(c[b], b) \in SUBSET Flags
    <2>1. c[b].flags \subseteq Flags /\ blockflags[b] \subseteq Flags
      BY <1>1 DEF IsCopied, GoodCache, GoodCopy, World
    <2> QED
      BY <2>1 DEF WrittenFlags, Flags
  <1>2. \A b \in Blocks : ~IsCopied(c, b) => blockflags[b] \in SUBSET Flags
    BY DEF World
  <1>3. WrittenBlockflags(c) \in [Blocks -> SUBSET Flags]
    BY <1>1, <1>2 DEF WrittenBlockflags
  <1>4. ASSUME NEW t \in Tiles, WrittenMap(c)[t].dig, ~map[t].dig
        PROVE  /\ BlockOf(t) \in Blocks
               /\ "designated" \in WrittenBlockflags(c)[BlockOf(t)]
    <2> DEFINE b == BlockOf(t)
    <2>1. WrittenMap(c)[t] = IF IsCopied(c, b) THEN c[b].raw[t] ELSE map[t]
      BY WrittenIsView DEF ViewOf
    <2>2. IsCopied(c, b) /\ c[b].raw[t].dig
      BY <1>4, <2>1
    <2>3. b \in DOMAIN c /\ b \in Blocks /\ b \in present
          /\ GoodCopy(c[b], b, present, map)
      BY <2>2 DEF IsCopied, GoodCache, GoodCopy
    <2>4. t \in TilesOf(b)
      BY DEF TilesOf
    <2>5. "designated" \in c[b].flags
      BY <1>4, <2>2, <2>3, <2>4 DEF MarkedCache
    <2>6. "designations" \in c[b].dirty
      BY <1>4, <2>2, <2>3, <2>4 DEF GoodCopy, AgreeOutside
    <2>7. WrittenBlockflags(c)[b] = WrittenFlags(c[b], b)
      BY <2>2, <2>3 DEF WrittenBlockflags
    <2>8. "designated" \in WrittenFlags(c[b], b)
      BY <2>5, <2>6 DEF WrittenFlags
    <2> QED
      BY <2>3, <2>7, <2>8
  <1> QED
    BY <1>3, <1>4

-----------------------------------------------------------------------------
(* The commands.                                                           *)

CacheInv ==
    /\ World
    /\ GoodCache(cache, present, map)
    /\ MarkedCache(cache, present, map)

\* The flood does not leave the map on the west or the north.
Entries == (Nat \X Nat \X Int) \X BOOLEAN

Walls ==
    \A t \in Tiles \ Interior : map[t].shape = "wall" /\ View[t].shape = "wall"

IInv ==
    /\ CacheInv
    /\ Walls
    /\ cursor \in Interior
    /\ flood \in Seq(Entries)

tileMapVars == <<map, View>>

\* The view as the lemmas about the cache name it.
LEMMA ViewIs == View = ViewOf(cache, map)
  BY DEF View, ViewOf

\* The same in the next state.
LEMMA ViewIsNext == View' = ViewOf(cache', map')
  BY DEF View, ViewOf, IsCopied

\* From the north-west on, a tile of a block of the map is on the map.
LEMMA OnMap ==
    ASSUME NEW t \in Nat \X Nat \X Int, BlockOf(t) \in Blocks
    PROVE  t \in Tiles
  <1>1. t = <<t[1], t[2], t[3]>> /\ t[1] \in Nat /\ t[2] \in Nat /\ t[3] \in Int
    OBVIOUS
  <1>2. /\ t[1] \div Side \in 0 .. XBlocks - 1 /\ t[2] \div Side \in 0 .. YBlocks - 1
        /\ t[3] \in 0 .. ZMax - 1
    BY <1>1 DEF BlockOf, Blocks, Quotient
  <1>3. t[1] <= XBlocks * Side - 1
    BY <1>1, <1>2, MapCacheAssumption
  <1>4. t[2] <= YBlocks * Side - 1
    BY <1>1, <1>2, MapCacheAssumption
  <1> HIDE DEF Tiles
  <1>5. /\ t[1] \in 0 .. XBlocks * Side - 1 /\ t[2] \in 0 .. YBlocks * Side - 1
    BY <1>1, <1>3, <1>4, MapCacheAssumption
  <1> QED
    BY <1>1, <1>2, <1>5 DEF Tiles

\* Interior tiles have a tile on every side.
LEMMA InteriorPlace == \A t \in Interior : t \in Tiles /\ t \in Nat \X Nat \X Int
  BY MapToolsAssumption, MapCacheAssumption DEF Tiles

-----------------------------------------------------------------------------
(* The steps of the cache.                                                 *)

\* A step that only asks for a tile.
LEMMA LoadStep ==
    ASSUME CacheInv, Walls, NEW t, cache' = Load(cache, t), UNCHANGED mapVars
    PROVE  CacheInv' /\ Walls' /\ View' = View
  <1>1. map' = map /\ present' = present /\ blockflags' = blockflags
    BY DEF mapVars
  <1>2. /\ GoodCache(cache', present, map) /\ MarkedCache(cache', present, map)
        /\ ViewOf(cache', map) = ViewOf(cache, map)
    BY LoadGood DEF CacheInv
  <1>3. View' = View
    BY <1>1, <1>2, ViewIs, ViewIsNext
  <1>4. CacheInv'
    BY <1>1, <1>2 DEF CacheInv, World
  <1>5. Walls'
    BY <1>1, <1>3 DEF Walls
  <1> QED
    BY <1>3, <1>4, <1>5

\* Steps that touch neither the map nor the cache.
LEMMA SameStep ==
    ASSUME CacheInv, Walls, UNCHANGED <<mapVars, cache>>
    PROVE  CacheInv' /\ Walls' /\ View' = View
  <1>1. map' = map /\ present' = present /\ blockflags' = blockflags /\ cache' = cache
    BY DEF mapVars
  <1>2. View' = View
    BY <1>1, ViewIs, ViewIsNext
  <1>3. CacheInv'
    BY <1>1 DEF CacheInv, World
  <1>4. Walls'
    BY <1>1, <1>2 DEF Walls
  <1> QED
    BY <1>2, <1>3, <1>4

\* A step that sets a tile.
LEMMA SetStep ==
    ASSUME CacheInv, Walls, NEW t \in Tiles, NEW v \in Values,
           t \in Interior \/ v.shape = "wall",
           Sets(cache, cache', t, v), UNCHANGED mapVars
    PROVE  /\ CacheInv' /\ Walls'
           /\ View' = IF TestCoord(t) THEN Seen(View, t, v) ELSE View
           /\ [TM!Next]_tileMapVars
  <1>1. map' = map /\ present' = present /\ blockflags' = blockflags
    BY DEF mapVars
  <1>2. View' = IF TestCoord(t) THEN Seen(View, t, v) ELSE View
    BY <1>1, ViewIs, ViewIsNext DEF Sets
  <1>3. CacheInv'
    BY <1>1 DEF CacheInv, World, Sets
  <1>4. DOMAIN View = Tiles
    BY DEF View
  <1>5. TestCoord(t) => View'[t] = v /\ View' = [View EXCEPT ![t] = v]
    BY <1>2, <1>4 DEF Seen
  <1>6. \A u \in Tiles \ {t} : View'[u] = View[u]
    BY <1>2, <1>4 DEF Seen
  <1>7. Walls'
    BY <1>1, <1>2, <1>5, <1>6 DEF Walls
  <1>8. CASE TestCoord(t)
    <2>1. TM!Set(t, View'[t])
      BY <1>1, <1>5, <1>8 DEF TM!Set
    <2> QED
      BY <1>2, <1>3, <1>5, <1>7, <1>8, <2>1 DEF TM!Next
  <1>9. CASE ~TestCoord(t)
    BY <1>1, <1>2, <1>3, <1>7, <1>9 DEF tileMapVars
  <1> QED
    BY <1>8, <1>9

\* WriteAll.
LEMMA WriteStep ==
    ASSUME CacheInv, Walls, map' = WrittenMap(cache), cache' = Cleaned(cache),
           present' = present, blockflags' \in [Blocks -> SUBSET Flags]
    PROVE  /\ CacheInv' /\ Walls' /\ map' = View /\ View' = View
           /\ [TM!Next]_tileMapVars
  <1>1. map' = View
    BY WrittenIsView, ViewIs DEF CacheInv
  <1>2. /\ map' \in [Tiles -> Values] /\ GoodCache(cache', present, map')
        /\ MarkedCache(cache', present, map') /\ ViewOf(cache', map') = map'
    BY CleanedGood DEF CacheInv
  <1>3. View' = View
    BY <1>1, <1>2, ViewIsNext
  <1>4. CacheInv'
    BY <1>2 DEF CacheInv, World
  <1>5. Walls'
    BY <1>1, <1>3 DEF Walls
  <1>6. TM!Next
    BY <1>1, <1>3 DEF TM!Next, TM!Commit
  <1> QED
    BY <1>1, <1>3, <1>4, <1>5, <1>6

\* The cache is thrown away.
LEMMA ForgetStep ==
    ASSUME CacheInv, Walls, cache' = Trashed, UNCHANGED mapVars
    PROVE  CacheInv' /\ Walls' /\ View' = map' /\ [TM!Next]_tileMapVars
  <1>1. map' = map /\ present' = present /\ blockflags' = blockflags
    BY DEF mapVars
  <1>2. /\ GoodCache(cache', present, map) /\ MarkedCache(cache', present, map)
        /\ ViewOf(cache', map) = map
    BY TrashedGood DEF CacheInv, World
  <1>3. View' = map'
    BY <1>1, <1>2, ViewIsNext
  <1>4. CacheInv'
    BY <1>1, <1>2 DEF CacheInv, World
  <1>5. Walls'
    BY <1>1, <1>3 DEF Walls
  <1>6. TM!Next
    BY <1>1, <1>3 DEF TM!Next, TM!Forget
  <1> QED
    BY <1>3, <1>4, <1>5, <1>6

-----------------------------------------------------------------------------
(* The steps of the tools.                                                 *)

DigStep ==
    \A t \in Tiles : map'[t].dig /\ ~map[t].dig =>
      "designated" \in blockflags'[BlockOf(t)]

\* What each step keeps and what it is to the abstract map.
Kept == IInv' /\ [TM!Next]_tileMapVars /\ DigStep

\* What a tile leads to is west and north of nothing that is on the map.
LEMMA LeadsToType ==
    ASSUME NEW t \in Interior, NEW shape \in Shapes
    PROVE  LeadsTo(t, shape) \in Seq(Entries)
  <1>1. t \in Nat \X Nat \X Int /\ t[1] > 0 /\ t[2] > 0
    BY InteriorPlace, MapToolsAssumption
  <1>2. \A dx, dy, dz \in {-1, 0, 1} : Offset(t, dx, dy, dz) \in Nat \X Nat \X Int
    BY <1>1 DEF Offset
  <1>3. \A k \in 1..8 : Sides(t)[k] \in Nat \X Nat \X Int
    BY <1>2 DEF Sides
  <1>4. Above(t) \in Nat \X Nat \X Int /\ Below(t) \in Nat \X Nat \X Int
    BY <1>2 DEF Above, Below
  <1> DEFINE sides == [k \in 1..8 |-> Entry(Sides(t)[k])]
             above == << FromBelow(Above(t)) >>
             below == IF shape = "open" THEN << Entry(Below(t)) >> ELSE <<>>
  <1>5. \A k \in 1..8 : Entry(Sides(t)[k]) \in Entries
    BY <1>3 DEF Entry, Entries
  <1>6. sides \in Seq(Entries)
    BY <1>5
  <1>7. FromBelow(Above(t)) \in Entries /\ Entry(Below(t)) \in Entries
    BY <1>4 DEF FromBelow, Entry, Entries
  <1>8. above \in Seq(Entries) /\ below \in Seq(Entries)
    BY <1>7
  <1>9. (sides \o above) \o below \in Seq(Entries)
    BY <1>6, <1>8, ConcatProperties
  <1>10. <<>> \in Seq(Entries)
    OBVIOUS
  <1> QED
    BY <1>9, <1>10 DEF LeadsTo

\* A step that leaves the flood's stack and the map alone, or sets no tile.
LEMMA QuietStep ==
    ASSUME IInv, CacheInv', Walls', View' = View, UNCHANGED <<map, cursor, flood>>
    PROVE  Kept
  <1>1. IInv'
    BY DEF IInv
  <1>2. [TM!Next]_tileMapVars /\ DigStep
    BY DEF tileMapVars, DigStep
  <1> QED
    BY <1>1, <1>2 DEF Kept

\* A step that sets one tile through the cache implements Set.
LEMMA EditStep ==
    ASSUME IInv, NEW t \in Tiles, NEW v \in Values,
           t \in Interior \/ v.shape = "wall",
           Sets(cache, cache', t, v), UNCHANGED <<mapVars, cursor>>,
           flood' \in Seq(Entries)
    PROVE  Kept
  <1>1. CacheInv' /\ Walls' /\ [TM!Next]_tileMapVars
    BY SetStep DEF IInv
  <1>2. IInv'
    BY <1>1 DEF IInv
  <1>3. DigStep
    BY DEF DigStep, mapVars
  <1> QED
    BY <1>1, <1>2, <1>3 DEF Kept

\* A step that writes the cache back implements Commit.
LEMMA WritingStep ==
    ASSUME IInv, map' = WrittenMap(cache), cache' = Cleaned(cache),
           present' = present, blockflags' \in [Blocks -> SUBSET Flags],
           \A b \in Blocks : WrittenBlockflags(cache)[b] \subseteq blockflags'[b],
           UNCHANGED <<cursor, flood>>
    PROVE  Kept
  <1>1. CacheInv' /\ Walls' /\ [TM!Next]_tileMapVars
    BY WriteStep DEF IInv
  <1>2. IInv'
    BY <1>1 DEF IInv
  <1>3. DigStep
    <2> SUFFICES ASSUME NEW t \in Tiles, map'[t].dig, ~map[t].dig
                 PROVE  "designated" \in blockflags'[BlockOf(t)]
      BY DEF DigStep
    <2>1. /\ BlockOf(t) \in Blocks
          /\ "designated" \in WrittenBlockflags(cache)[BlockOf(t)]
      BY WrittenMarked DEF IInv, CacheInv
    <2> QED
      BY <2>1
  <1> QED
    BY <1>1, <1>2, <1>3 DEF Kept

\* WriteAll at the end of a command.
LEMMA WriteBackKeeps ==
    ASSUME IInv, WriteBack PROVE Kept
  <1>1. WrittenBlockflags(cache) \in [Blocks -> SUBSET Flags]
    BY WrittenMarked DEF IInv, CacheInv
  <1>2. \A b \in Blocks :
          /\ blockflags'[b] \in SUBSET Flags
          /\ WrittenBlockflags(cache)[b] \subseteq blockflags'[b]
    BY <1>1 DEF WriteBack, Flags
  <1>3. blockflags' \in [Blocks -> SUBSET Flags]
    BY <1>1 DEF WriteBack, Flags
  <1> QED
    BY <1>2, <1>3, WritingStep DEF WriteBack

\* WriteAll of a painter.
LEMMA PaintWritesKeeps ==
    ASSUME IInv, PaintWrites PROVE Kept
  <1>1. WrittenBlockflags(cache) \in [Blocks -> SUBSET Flags]
    BY WrittenMarked DEF IInv, CacheInv
  <1> QED
    BY <1>1, WritingStep DEF PaintWrites

\* The cache is deleted when the command returns.
LEMMA DeleteKeeps ==
    ASSUME IInv, Delete PROVE Kept
  <1>1. CacheInv' /\ Walls' /\ [TM!Next]_tileMapVars
    BY ForgetStep DEF IInv, Delete
  <1>2. IInv'
    BY <1>1 DEF IInv, Delete
  <1>3. DigStep
    BY DEF DigStep, Delete, mapVars
  <1> QED
    BY <1>1, <1>2, <1>3 DEF Kept

\* What a tool sees of a tile is a value of a tile.
LEMMA ViewValues ==
    ASSUME CacheInv, NEW t \in Tiles
    PROVE  /\ View[t] \in Values /\ View[t] = ViewOf(cache, map)[t]
           /\ \A shape \in Shapes : [View[t] EXCEPT !.shape = shape] \in Values
           /\ \A hidden, dig \in BOOLEAN :
                /\ [View[t] EXCEPT !.hidden = hidden, !.dig = dig] \in Values
                /\ [View[t] EXCEPT !.hidden = hidden, !.dig = dig].shape = View[t].shape
           /\ \A item \in BOOLEAN :
                /\ [View[t] EXCEPT !.item = item] \in Values
                /\ [View[t] EXCEPT !.item = item].shape = View[t].shape
  <1>1. View[t] \in Values /\ View[t] = ViewOf(cache, map)[t]
    BY ViewType, ViewIs DEF CacheInv, World
  <1> QED
    BY <1>1 DEF Values

\* A painter's call on one tile.
LEMMA PaintTileKeeps ==
    ASSUME IInv, NEW t \in Interior, PaintTile(t) PROVE Kept
  <1>1. t \in Tiles /\ flood \in Seq(Entries)
    BY InteriorPlace DEF IInv
  <1>2. ASSUME NEW shape \in {"wall", "open"}, Paint(SetTiletypeAt(cache, t, shape))
        PROVE  Kept
    <2>1. shape \in Shapes
      BY DEF Shapes
    <2>2. Sets(cache, cache', t, [View[t] EXCEPT !.shape = shape])
      BY <1>1, <1>2, <2>1, SetTiletypeGood, ViewValues DEF Paint, IInv, CacheInv
    <2>3. [View[t] EXCEPT !.shape = shape] \in Values
      BY <1>1, <2>1, ViewValues DEF IInv
    <2> QED
      BY <1>1, <1>2, <2>2, <2>3, EditStep DEF Paint
  <1>3. ASSUME NEW hidden \in BOOLEAN, NEW dig \in BOOLEAN,
               Paint(SetDesignationAt(cache, t, hidden, dig))
        PROVE  Kept
    <2>1. Sets(cache, cache', t, [View[t] EXCEPT !.hidden = hidden, !.dig = dig])
      BY <1>1, <1>3, SetDesignationGood, ViewValues DEF Paint, IInv, CacheInv
    <2>2. [View[t] EXCEPT !.hidden = hidden, !.dig = dig] \in Values
      BY <1>1, ViewValues DEF IInv
    <2> QED
      BY <1>1, <1>3, <2>1, <2>2, EditStep DEF Paint
  <1>4. ASSUME NEW on \in BOOLEAN, Paint(SetOccupancyAt(cache, t, on))
        PROVE  Kept
    <2>1. Sets(cache, cache', t, [View[t] EXCEPT !.item = on])
      BY <1>1, <1>4, SetOccupancyGood, ViewValues DEF Paint, IInv, CacheInv
    <2>2. [View[t] EXCEPT !.item = on] \in Values
      BY <1>1, ViewValues DEF IInv
    <2> QED
      BY <1>1, <1>4, <2>1, <2>2, EditStep DEF Paint
  <1> QED
    BY <1>2, <1>3, <1>4 DEF PaintTile

\* A painter's call on a block's flags.
LEMMA PaintFlagsKeeps ==
    ASSUME IInv, NEW b \in DOMAIN cache, PaintFlags(b) PROVE Kept
  <1> PICK on \in BOOLEAN : Paint(SetLiquidFlag(cache, b, on))
    BY DEF PaintFlags
  <1>1. map' = map /\ present' = present /\ blockflags' = blockflags
        /\ cursor' = cursor /\ flood' = flood
        /\ cache' = SetLiquidFlag(cache, b, on)
    BY DEF Paint, mapVars
  <1>2. /\ GoodCache(cache', present, map) /\ MarkedCache(cache', present, map)
        /\ ViewOf(cache', map) = ViewOf(cache, map)
    BY <1>1, SetLiquidFlagGood DEF IInv, CacheInv
  <1>3. View' = View
    BY <1>1, <1>2, ViewIs, ViewIsNext
  <1>4. CacheInv'
    BY <1>1, <1>2 DEF IInv, CacheInv, World
  <1>5. Walls'
    BY <1>1, <1>3 DEF IInv, Walls
  <1> QED
    BY <1>1, <1>3, <1>4, <1>5, QuietStep

\* Hiding a tile changes nothing else of it.
LEMMA HiddenValue ==
    ASSUME NEW v \in Values
    PROVE  /\ Hidden(v) \in Values /\ Hidden(v).shape = v.shape
           /\ Hidden(v).dig = v.dig /\ Hidden(v).item = v.item /\ Hidden(v).hidden
  BY DEF Hidden, Values

\* revflood hides the map, with no copies made yet.
LEMMA RevfloodKeeps ==
    ASSUME IInv, Revflood PROVE Kept
  <1>1. cursor' = cursor /\ present' = present /\ blockflags' = blockflags
    BY DEF Revflood
  <1>2. CASE TestCoord(cursor) /\ TileAt(cache, cursor).shape = "wall"
    <2>1. cache' = Load(cache, cursor) /\ map' = map /\ flood' = flood
      BY <1>2 DEF Revflood
    <2>2. UNCHANGED mapVars
      BY <1>1, <2>1 DEF mapVars
    <2>3. CacheInv' /\ Walls' /\ View' = View
      BY <2>1, <2>2, LoadStep DEF IInv
    <2> QED
      BY <1>1, <2>1, <2>3, QuietStep
  <1>3. CASE ~(TestCoord(cursor) /\ TileAt(cache, cursor).shape = "wall")
    <2>1. /\ map' = [t \in Tiles |-> IF BlockOf(t) \in present
                                     THEN Hidden(map[t]) ELSE map[t]]
          /\ cache' = Trashed /\ flood' = << <<cursor, FALSE>> >>
      BY <1>3 DEF Revflood
    <2>2. \A t \in Tiles : /\ map'[t] \in Values /\ map'[t].shape = map[t].shape
                           /\ map'[t].dig = map[t].dig
      BY <2>1, HiddenValue DEF IInv, CacheInv, World
    <2>3. map' \in [Tiles -> Values]
      BY <2>1, <2>2
    <2>4. /\ GoodCache(cache', present', map') /\ MarkedCache(cache', present', map')
          /\ ViewOf(cache', map') = map'
      BY <2>1, <2>3, TrashedGood
    <2>5. View' = map'
      BY <2>4, ViewIsNext
    <2>6. CacheInv'
      BY <1>1, <2>3, <2>4 DEF IInv, CacheInv, World
    <2>7. Walls'
      BY <2>2, <2>5 DEF IInv, Walls
    <2>8. flood' \in Seq(Entries)
      <3>1. <<cursor, FALSE>> \in Entries
        BY InteriorPlace DEF IInv, Entries
      <3> QED
        BY <2>1, <3>1
    <2>9. TM!Next
      BY <2>3, <2>5 DEF TM!Next, TM!Overwrite
    <2>10. DigStep
      BY <2>2 DEF DigStep
    <2> QED
      BY <1>1, <2>6, <2>7, <2>8, <2>9, <2>10 DEF IInv, Kept
  <1> QED
    BY <1>2, <1>3

\* The top of the stack, and what is below it.
LEMMA FloodTop ==
    ASSUME flood \in Seq(Entries), flood # <<>>
    PROVE  /\ Len(flood) \in Nat \ {0}
           /\ Last(flood) = flood[Len(flood)] /\ Last(flood) \in Entries
           /\ Front(flood) \in Seq(Entries)
           /\ Len(Front(flood)) = Len(flood) - 1
           /\ \A k \in 1 .. Len(flood) - 1 : Front(flood)[k] = flood[k]
  <1> PICK n \in Nat \ {0} : n = Len(flood)
    OBVIOUS
  <1>1. \A k \in 1 .. n : flood[k] \in Entries
    OBVIOUS
  <1> DEFINE front == SubSeq(flood, 1, n - 1)
  <1>2. /\ front \in Seq(Entries)
        /\ Len(front) = IF 1 <= n - 1 THEN (n - 1) - 1 + 1 ELSE 0
        /\ \A k \in 1 .. (n - 1) - 1 + 1 : front[k] = flood[1 + k - 1]
    <2>1. \A k \in 1 .. n - 1 : flood[k] \in Entries
      BY <1>1
    <2>2. n - 1 \in Int /\ 1 \in Int
      OBVIOUS
    <2> QED
      BY <2>1, <2>2, SubSeqProperties
  <1> HIDE DEF front
  <1>3. Len(front) = n - 1 /\ \A k \in 1 .. n - 1 : front[k] = flood[k]
    BY <1>2
  <1>4. Front(flood) = front
    BY DEF Front, front
  <1> QED
    BY <1>1, <1>2, <1>3, <1>4 DEF Last

\* An entry of the flood that leads nowhere.
LEMMA SkipTileKeeps ==
    ASSUME IInv, SkipTile PROVE Kept
  <1>1. UNCHANGED mapVars /\ cursor' = cursor /\ flood' = Front(flood)
        /\ cache' = Load(cache, Last(flood)[1]) /\ flood # <<>>
    BY DEF SkipTile
  <1>2. CacheInv' /\ Walls' /\ View' = View
    BY <1>1, LoadStep DEF IInv
  <1>3. flood' \in Seq(Entries)
    BY <1>1, FloodTop DEF IInv
  <1>4. map' = map
    BY <1>1 DEF mapVars
  <1>5. IInv'
    BY <1>1, <1>2, <1>3 DEF IInv
  <1>6. [TM!Next]_tileMapVars /\ DigStep
    BY <1>2, <1>4 DEF tileMapVars, DigStep
  <1> QED
    BY <1>5, <1>6 DEF Kept

\* The flood looks at tiles of the map only.
LEMMA FloodPlace ==
    ASSUME IInv, flood # <<>>, NEW t, t = Last(flood)[1], TestCoord(t)
    PROVE  /\ t \in Tiles /\ TileAt(cache, t) = View[t] /\ View[t] \in Values
           /\ View[t].shape # "wall" => t \in Interior
  <1>1. t \in Nat \X Nat \X Int
    BY FloodTop DEF IInv, Entries
  <1>2. BlockOf(t) \in Blocks
    BY DEF TestCoord, IInv, CacheInv, World
  <1>3. t \in Tiles
    BY <1>1, <1>2, OnMap
  <1>4. TileAt(cache, t) = View[t] /\ View[t] \in Values
    <2>1. World /\ GoodCache(cache, present, map) /\ MarkedCache(cache, present, map)
      BY DEF IInv, CacheInv
    <2>2. TileAt(cache, t) = ViewOf(cache, map)[t]
      BY <1>3, <2>1, TileAtView
    <2> QED
      BY <1>3, <2>2, ViewValues DEF IInv
  <1> QED
    BY <1>3, <1>4 DEF IInv, Walls

\* An entry of the flood that is shown and leads on.
LEMMA FloodTileKeeps ==
    ASSUME IInv, FloodTile PROVE Kept
  <1> DEFINE t == Last(flood)[1]
             v == TileAt(cache, t)
             from_below == Last(flood)[2]
  <1>1. /\ UNCHANGED mapVars /\ cursor' = cursor /\ flood # <<>> /\ TestCoord(t)
        /\ flood' = Front(flood) \o LeadsTo(t, v.shape)
    BY DEF FloodTile
  <1>2. cache' = IF from_below /\ v.shape \in {"wall", "floor"}
                 THEN Load(cache, t) ELSE SetDesignationAt(cache, t, FALSE, v.dig)
    BY DEF FloodTile
  <1> HIDE DEF t, from_below
  <1>3. /\ t \in Tiles /\ v = View[t] /\ v \in Values
        /\ v.shape # "wall" => t \in Interior
    BY <1>1, FloodPlace DEF t
  <1> HIDE DEF v
  <1>4. v.shape \in Shapes /\ v.dig \in BOOLEAN
    BY <1>3 DEF Values
  <1>5. LeadsTo(t, v.shape) \in Seq(Entries)
    <2>1. CASE v.shape = "wall"
      BY <2>1 DEF LeadsTo
    <2>2. CASE v.shape # "wall"
      BY <1>3, <1>4, <2>2, LeadsToType
    <2> QED
      BY <2>1, <2>2
  <1>6. flood' \in Seq(Entries)
    BY <1>1, <1>5, FloodTop, ConcatProperties DEF IInv
  <1>7. CASE from_below /\ v.shape \in {"wall", "floor"}
    <2>1. CacheInv' /\ Walls' /\ View' = View
      BY <1>1, <1>2, <1>7, LoadStep DEF IInv
    <2>2. IInv'
      BY <1>1, <1>6, <2>1 DEF IInv
    <2>3. [TM!Next]_tileMapVars /\ DigStep
      BY <1>1, <2>1 DEF tileMapVars, DigStep, mapVars
    <2> QED
      BY <2>2, <2>3 DEF Kept
  <1>8. CASE ~(from_below /\ v.shape \in {"wall", "floor"})
    <2>1. cache' = SetDesignationAt(cache, t, FALSE, v.dig)
      BY <1>2, <1>8
    <2>2. Sets(cache, cache', t, [View[t] EXCEPT !.hidden = FALSE, !.dig = v.dig])
      BY <1>3, <1>4, <2>1, SetDesignationGood, ViewValues DEF IInv, CacheInv
    <2>3. /\ [View[t] EXCEPT !.hidden = FALSE, !.dig = v.dig] \in Values
          /\ [View[t] EXCEPT !.hidden = FALSE, !.dig = v.dig].shape = v.shape
      BY <1>3, <1>4, ViewValues DEF IInv
    <2> QED
      BY <1>1, <1>3, <1>6, <2>2, <2>3, EditStep
  <1> QED
    BY <1>7, <1>8

\* autodump's checks of the cursor's tile.
LEMMA AutodumpKeeps ==
    ASSUME IInv, Autodump PROVE Kept
  <1>1. UNCHANGED mapVars /\ cursor' = cursor /\ flood' = flood
    BY DEF Autodump
  <1>2. cache' = Load(cache, cursor) \/ cache' = cache
    BY DEF Autodump
  <1>3. CacheInv' /\ Walls' /\ View' = View
    BY <1>1, <1>2, LoadStep, SameStep DEF IInv
  <1> QED
    BY <1>1, <1>3, QuietStep DEF mapVars

\* A step of autodump that clears or sets an item bit.
LEMMA OccupancyKeeps ==
    ASSUME IInv, NEW t \in Interior, NEW on \in BOOLEAN,
           cache' = SetOccupancyAt(cache, t, on), UNCHANGED <<mapVars, cursor, flood>>
    PROVE  Kept
  <1>1. t \in Tiles
    BY InteriorPlace
  <1>2. Sets(cache, cache', t, [View[t] EXCEPT !.item = on])
    BY <1>1, SetOccupancyGood, ViewValues DEF IInv, CacheInv
  <1>3. [View[t] EXCEPT !.item = on] \in Values
    BY <1>1, ViewValues DEF IInv
  <1>4. flood' \in Seq(Entries)
    BY DEF IInv
  <1> QED
    BY <1>1, <1>2, <1>3, <1>4, EditStep

\* Steps that only read.
LEMMA StillKeeps ==
    ASSUME IInv, UNCHANGED <<mapVars, cache, cursor, flood>>
    PROVE  Kept
  <1>1. CacheInv' /\ Walls' /\ View' = View
    BY SameStep DEF IInv
  <1> QED
    BY <1>1, QuietStep DEF mapVars

\* autodump sets the item bit under the cursor.
LEMMA MarkTargetKeeps ==
    ASSUME IInv, MarkTarget PROVE Kept
  <1>1. CASE dumped_total > 0
    BY <1>1, OccupancyKeeps DEF MarkTarget, IInv
  <1>2. CASE ~(dumped_total > 0)
    BY <1>2, StillKeeps DEF MarkTarget
  <1> QED
    BY <1>1, <1>2

\* Every step keeps the invariant, is a step of the abstract map, and marks the
\* blocks of what is newly to be dug.
LEMMA NextKeeps ==
    ASSUME IInv, [Next]_vars PROVE Kept
  <1>1. ASSUME PaintNext PROVE Kept
    <2>1. ASSUME NEW t \in Interior, PaintTile(t) PROVE Kept
      BY <2>1, PaintTileKeeps
    <2>2. ASSUME NEW b \in DOMAIN cache, PaintFlags(b) PROVE Kept
      BY <2>2, PaintFlagsKeeps
    <2>3. CASE PaintWrites
      BY <2>3, PaintWritesKeeps
    <2>4. CASE PaintGivesUp
      BY <2>4, StillKeeps DEF PaintGivesUp
    <2> QED
      BY <1>1, <2>1, <2>2, <2>3, <2>4 DEF PaintNext
  <1>2. ASSUME RevfloodNext PROVE Kept
    <2>1. CASE FloodDone
      BY <2>1, StillKeeps DEF FloodDone
    <2> QED
      BY <1>2, <2>1, RevfloodKeeps, SkipTileKeeps, FloodTileKeeps, WriteBackKeeps,
         DeleteKeeps DEF RevfloodNext
  <1>3. ASSUME AutodumpNext PROVE Kept
    <2>1. CASE Autodump
      BY <2>1, AutodumpKeeps
    <2>2. CASE ItemsDone
      BY <2>2, StillKeeps DEF ItemsDone
    <2>3. CASE MarkTarget
      BY <2>3, MarkTargetKeeps
    <2>4. ASSUME NEW i \in Items, KeepItem(i) \/ DumpItem(i) \/ DestroyItem(i)
          PROVE  Kept
      <3>1. NextItem(i)
        BY <2>4 DEF KeepItem, DumpItem, DestroyItem
      <3> QED
        BY <3>1, StillKeeps DEF NextItem
    <2>5. ASSUME NEW t \in Interior, ClearPile(t) PROVE Kept
      BY <2>5, OccupancyKeeps DEF ClearPile
    <2> QED
      BY <1>3, <2>1, <2>2, <2>3, <2>4, <2>5 DEF AutodumpNext
  <1>4. CASE UNCHANGED vars
    BY <1>4, StillKeeps DEF vars
  <1> QED
    BY <1>1, <1>2, <1>3, <1>4 DEF Next

\* What a command may find.
LEMMA InitKeeps ==
    ASSUME Init PROVE IInv /\ TM!Init
  <1>1. cache = Trashed /\ flood = <<>> /\ cursor \in Interior
    BY DEF Init, InitRevflood, InitPaint, InitAutodump, Start
  <1>2. present \subseteq Blocks
    BY DEF Init, InitRevflood, InitPaint, InitAutodump, SomeBlocks
  <1>3. blockflags \in [Blocks -> SUBSET Flags]
    BY DEF Init, InitRevflood, InitPaint, InitAutodump, Flags
  <1>4. \A shape \in Shapes, hidden, dig \in BOOLEAN :
          /\ Tile(shape, hidden, dig) \in Values
          /\ Tile(shape, hidden, dig).shape = shape
    BY DEF Tile, Values
  <1>5. Rock \in Values /\ Rock.shape = "wall"
    BY <1>4 DEF Rock, Shapes
  <1>6. /\ map \in [Tiles -> Values]
        /\ \A t \in Tiles \ Interior : map[t].shape = "wall"
    <2>1. CASE InitRevflood
      <3> PICK shape \in [Interior -> Shapes], hidden \in BOOLEAN :
             map = [t \in Tiles |-> IF t \in Interior
                                THEN Tile(shape[t], hidden, FALSE) ELSE Rock]
        BY <2>1 DEF InitRevflood
      <3>1. \A t \in Interior : Tile(shape[t], hidden, FALSE) \in Values
        BY <1>4
      <3> QED
        BY <1>5, <3>1
    <2>2. CASE InitPaint
      <3>1. map = [t \in Tiles |-> IF t \in Interior
                              THEN Tile("floor", FALSE, t = cursor) ELSE Rock]
        BY <2>2 DEF InitPaint
      <3>2. \A t : Tile("floor", FALSE, t = cursor) \in Values
        BY DEF Tile, Values, Shapes
      <3> QED
        BY <1>5, <3>1, <3>2
    <2>3. CASE InitAutodump
      <3> PICK shape \in {"floor", "open"} :
            map = [t \in Tiles |->
              IF t \notin Interior THEN Rock
              ELSE [Tile(IF t = cursor THEN shape ELSE "floor", FALSE, FALSE)
                      EXCEPT !.item = Lying(t) # {}]]
        BY <2>3 DEF InitAutodump
      <3>1. \A t : [Tile(IF t = cursor THEN shape ELSE "floor", FALSE, FALSE)
                      EXCEPT !.item = Lying(t) # {}] \in Values
        BY DEF Tile, Values, Shapes
      <3> QED
        BY <1>5, <3>1
    <2> QED
      BY <2>1, <2>2, <2>3 DEF Init
  <1>7. /\ GoodCache(cache, present, map) /\ MarkedCache(cache, present, map)
        /\ ViewOf(cache, map) = map
    BY <1>1, <1>6, TrashedGood
  <1>8. View = map
    BY <1>7, ViewIs
  <1>9. <<>> \in Seq(Entries)
    OBVIOUS
  <1> QED
    BY <1>1, <1>2, <1>3, <1>6, <1>7, <1>8, <1>9
       DEF IInv, CacheInv, World, Walls, TM!Init

\* The invariant holds in every state.
LEMMA SpecIInv == Spec => []IInv
  <1>1. Init => IInv
    BY InitKeeps
  <1>2. IInv /\ [Next]_vars => IInv'
    BY NextKeeps DEF Kept
  <1> QED
    BY <1>1, <1>2, PTL DEF Spec

\* The cache keeps its promise, for any map, any tiles set in any order, and
\* WriteAll, trash or the end of the command in between (modules/MapCache.h).
THEOREM MapCacheIsTileMap == Spec => ImplementsTileMap
  <1>1. Init => TM!Init
    BY InitKeeps
  <1>2. IInv /\ [Next]_vars => [TM!Next]_<<map, View>>
    BY NextKeeps DEF Kept, tileMapVars
  <1> QED
    BY <1>1, <1>2, SpecIInv, PTL DEF Spec, ImplementsTileMap, TM!Spec

\* What is newly to be dug is in a block that the game will look at.
THEOREM DiggingIsMarked == Spec => DigMarked
  <1>1. IInv /\ [Next]_vars =>
          [\A t \in Tiles : map'[t].dig /\ ~map[t].dig =>
             "designated" \in blockflags'[BlockOf(t)]]_vars
    BY NextKeeps DEF Kept, DigStep
  <1> QED
    BY <1>1, SpecIInv, PTL DEF Spec, DigMarked

-----------------------------------------------------------------------------
(* revflood: what it reveals, and what it does not.                        *)

\* u waits on the stack, for more than being led on from.
Waiting(u) ==
    \E k \in 1 .. Len(flood) :
      flood[k] = Entry(u) \/ (flood[k][1] = u /\ map[u].shape = "open")

Reached(u) == ~View[u].hidden \/ Waiting(u)

Passable(t) == TestCoord(t) /\ map[t].shape \in {"open", "floor"}

\* From what is visible the next tile is visible too, or waits.
Frontier ==
    /\ TestCoord(cursor) => Reached(cursor)
    /\ \A t, u \in Tiles :
         Passable(t) /\ ~View[t].hidden /\ TestCoord(u) /\ PathTo(t, u) => Reached(u)

Around(t) == ToSet(Sides(t)) \cup {Above(t), Below(t)}

Sealed(room) ==
    \A t \in Interior \ room : \A u \in room :
      u \in Around(t) => ~TestCoord(t) \/ map[t].shape \in {"wall", "other"}

Rooms == SUBSET (Interior \ {cursor})

\* Sealed rooms are hidden, and nothing of them waits.
RoomsClosed ==
    \A room \in Rooms : Sealed(room) =>
      /\ \A u \in room : TestCoord(u) => View[u].hidden
      /\ \A k \in 1 .. Len(flood) : flood[k][1] \notin room

\* What the flood has done, in the game's map.
Revealed ==
    /\ Visible(cursor)
    /\ \A t, u \in Tiles :
         Passable(t) /\ ~map[t].hidden /\ TestCoord(u) /\ PathTo(t, u) => ~map[u].hidden

RoomsHidden ==
    \A room \in Rooms : Sealed(room) => \A u \in room : TestCoord(u) => map[u].hidden

FloodInv ==
    tool = "revflood" =>
      /\ at \in {"revflood", "flood", "write", "delete", "done"}
      /\ \A t \in Tiles : View[t].shape = map[t].shape
      /\ at \in {"flood", "write"} => Frontier /\ RoomsClosed
      /\ at = "write" => flood = <<>>
      /\ at \in {"delete", "done"} /\ TestCoord(cursor) /\ map[cursor].shape # "wall"
           => Revealed /\ RoomsHidden

\* The eight sides, one by one.
LEMMA SidesAre ==
    ASSUME NEW t PROVE ToSet(Sides(t)) = {Sides(t)[k] : k \in 1..8}
  BY DEF ToSet, Sides

\* Where the entries of two sequences end up in their concatenation.
LEMMA ConcatSplit ==
    ASSUME NEW S, NEW a \in Seq(S), NEW b \in Seq(S), NEW m \in Nat, Len(a) = m,
           NEW n \in Nat, Len(b) = n
    PROVE  /\ a \o b \in Seq(S) /\ Len(a \o b) = m + n
           /\ \A k \in 1 .. m : (a \o b)[k] = a[k]
           /\ \A k \in 1 .. n : (a \o b)[m + k] = b[k]
  OBVIOUS

\* What LeadsTo holds: what lies around the tile, and of that the sides and the
\* tile above, and the tile below one without a floor.
LEMMA LeadsToAround ==
    ASSUME NEW t \in Interior, NEW shape \in {"open", "floor"},
           NEW leads, leads = LeadsTo(t, shape)
    PROVE  /\ leads \in Seq(Entries)
           /\ \A k \in 1 .. Len(leads) : leads[k][1] \in Around(t)
           /\ \A u \in ToSet(Sides(t)) : \E k \in 1 .. Len(leads) : leads[k] = Entry(u)
           /\ \E k \in 1 .. Len(leads) : leads[k] = FromBelow(Above(t))
           /\ shape = "open" => \E k \in 1 .. Len(leads) : leads[k] = Entry(Below(t))
  <1> DEFINE sides == [k \in 1..8 |-> Entry(Sides(t)[k])]
             above == << FromBelow(Above(t)) >>
             below == IF shape = "open" THEN << Entry(Below(t)) >> ELSE <<>>
             both == sides \o above
             All == {Entry(Sides(t)[k]) : k \in 1..8}
                      \cup {FromBelow(Above(t)), Entry(Below(t))}
  <1>1. leads = both \o below
    BY DEF LeadsTo
  <1>2. leads \in Seq(Entries)
    BY LeadsToType DEF Shapes
  <1>3. /\ sides \in Seq(All) /\ Len(sides) = 8
        /\ \A k \in 1..8 : sides[k] = Entry(Sides(t)[k])
    OBVIOUS
  <1>4. above \in Seq(All) /\ Len(above) = 1 /\ above[1] = FromBelow(Above(t))
    OBVIOUS
  <1>5. below \in Seq(All)
    <2>1. << Entry(Below(t)) >> \in Seq(All) /\ <<>> \in Seq(All)
      OBVIOUS
    <2> QED
      BY <2>1
  <1>6. shape = "open" => Len(below) = 1 /\ below[1] = Entry(Below(t))
    OBVIOUS
  <1>7. \A e \in All : e[1] \in Around(t)
    <2>1. \A k \in 1..8 : Entry(Sides(t)[k])[1] = Sides(t)[k]
      BY DEF Entry
    <2>2. FromBelow(Above(t))[1] = Above(t) /\ Entry(Below(t))[1] = Below(t)
      BY DEF Entry, FromBelow
    <2>3. \A k \in 1..8 : Sides(t)[k] \in Around(t)
      BY SidesAre DEF Around
    <2> QED
      BY <2>1, <2>2, <2>3 DEF Around
  <1> HIDE DEF sides, above, below, All
  <1>8. /\ both \in Seq(All) /\ Len(both) = 9
        /\ \A k \in 1..8 : both[k] = sides[k]
        /\ both[9] = above[1]
    <2>1. PICK m, n : m = 8 /\ n = 1
      OBVIOUS
    <2>2. /\ m \in Nat /\ sides \in Seq(All) /\ Len(sides) = m
          /\ n \in Nat /\ above \in Seq(All) /\ Len(above) = n
      BY <1>3, <1>4, <2>1
    <2>3. /\ both \in Seq(All) /\ Len(both) = m + n
          /\ \A k \in 1 .. m : both[k] = sides[k]
          /\ \A k \in 1 .. n : both[m + k] = above[k]
      BY <2>2, ConcatSplit
    <2> HIDE DEF both
    <2> QED
      BY <2>1, <2>3
  <1> HIDE DEF both
  <1>9. /\ leads \in Seq(All) /\ Len(leads) = 9 + Len(below)
        /\ \A k \in 1..9 : leads[k] = both[k]
        /\ \A k \in 1 .. Len(below) : leads[9 + k] = below[k]
    <2>1. PICK m, n : m = 9 /\ n = Len(below)
      OBVIOUS
    <2>2. /\ m \in Nat /\ both \in Seq(All) /\ Len(both) = m
          /\ n \in Nat /\ below \in Seq(All) /\ Len(below) = n
      BY <1>5, <1>8, <2>1
    <2> DEFINE all == both \o below
    <2>3. /\ all \in Seq(All) /\ Len(all) = m + n
          /\ \A k \in 1 .. m : all[k] = both[k]
          /\ \A k \in 1 .. n : all[m + k] = below[k]
      BY <2>2, ConcatSplit
    <2> HIDE DEF all
    <2>4. leads = all
      BY <1>1 DEF all
    <2> QED
      BY <2>1, <2>3, <2>4
  <1>10. \A k \in 1 .. Len(leads) : leads[k][1] \in Around(t)
    BY <1>7, <1>9
  <1>11. Len(below) \in Nat
    BY <1>5
  <1>12. \A k \in 1..8 : k \in 1 .. Len(leads)
    BY <1>9, <1>11
  <1>13. \A k \in 1..8 : leads[k] = Entry(Sides(t)[k])
    BY <1>3, <1>8, <1>9
  <1>14. \A u \in ToSet(Sides(t)) : \E k \in 1 .. Len(leads) : leads[k] = Entry(u)
    BY <1>12, <1>13, SidesAre
  <1>15. 9 \in 1 .. Len(leads) /\ leads[9] = FromBelow(Above(t))
    BY <1>4, <1>8, <1>9, <1>11
  <1>16. shape = "open" => 10 \in 1 .. Len(leads) /\ leads[10] = Entry(Below(t))
    <2> SUFFICES ASSUME shape = "open"
                 PROVE  10 \in 1 .. Len(leads) /\ leads[10] = Entry(Below(t))
      OBVIOUS
    <2>1. Len(below) = 1 /\ below[1] = Entry(Below(t))
      BY <1>6
    <2>2. Len(leads) = 10
      BY <1>9, <2>1
    <2>3. 1 \in 1 .. Len(below) /\ 9 + 1 = 10
      BY <2>1
    <2>4. leads[9 + 1] = below[1]
      BY <1>9, <2>3
    <2> QED
      BY <2>1, <2>2, <2>3, <2>4
  <1> QED
    BY <1>2, <1>10, <1>14, <1>15, <1>16

\* What the steps of revflood do, as the tool sees it.
LEMMA SkipTileFacts ==
    ASSUME IInv, SkipTile
    PROVE  /\ View' = View /\ UNCHANGED <<map, present, cursor, tool, at>>
           /\ flood # <<>> /\ flood' = Front(flood)
           /\ LET t == Last(flood)[1] IN
              TestCoord(t) => t \in Tiles /\ ~View[t].hidden
  <1>1. UNCHANGED mapVars /\ UNCHANGED <<cursor, tool, at>>
        /\ flood' = Front(flood) /\ cache' = Load(cache, Last(flood)[1])
        /\ flood # <<>>
        /\ (TestCoord(Last(flood)[1]) => ~TileAt(cache, Last(flood)[1]).hidden)
    BY DEF SkipTile
  <1>2. View' = View
    BY <1>1, LoadStep DEF IInv
  <1>3. ASSUME NEW t, t = Last(flood)[1], TestCoord(t)
        PROVE  t \in Tiles /\ ~View[t].hidden
    <2>1. t \in Tiles /\ TileAt(cache, t) = View[t]
      BY <1>1, <1>3, FloodPlace
    <2> QED
      BY <1>1, <1>3, <2>1
  <1> QED
    BY <1>1, <1>2, <1>3 DEF mapVars

\* The tile that FloodTile looks at: where it is, and whether it is revealed.
LEMMA FloodTileFacts ==
    ASSUME IInv, FloodTile, NEW t, t = Last(flood)[1]
    PROVE  /\ UNCHANGED <<map, present, cursor, tool, at>>
           /\ flood # <<>> /\ TestCoord(t) /\ t \in Tiles
           /\ View[t].shape # "wall" => t \in Interior
           /\ flood' = Front(flood) \o LeadsTo(t, View[t].shape)
           /\ \A u \in Tiles \ {t} : View'[u] = View[u]
           /\ View'[t].shape = View[t].shape
           /\ \/ /\ Last(flood)[2] /\ View[t].shape \in {"wall", "floor"}
                 /\ View' = View /\ View[t].hidden
              \/ ~View'[t].hidden
  <1> DEFINE v == TileAt(cache, t)
             from_below == Last(flood)[2]
  <1>1. /\ UNCHANGED mapVars /\ UNCHANGED <<cursor, tool, at>>
        /\ flood # <<>> /\ TestCoord(t) /\ v.hidden
        /\ flood' = Front(flood) \o LeadsTo(t, v.shape)
        /\ cache' = IF from_below /\ v.shape \in {"wall", "floor"}
                    THEN Load(cache, t) ELSE SetDesignationAt(cache, t, FALSE, v.dig)
    BY DEF FloodTile
  <1>2. /\ t \in Tiles /\ v = View[t] /\ v \in Values
        /\ v.shape # "wall" => t \in Interior
    BY <1>1, FloodPlace
  <1> HIDE DEF v, from_below
  <1>3. v.shape \in Shapes /\ v.dig \in BOOLEAN
    BY <1>2 DEF Values
  <1>4. UNCHANGED <<map, present, cursor, tool, at>>
    BY <1>1 DEF mapVars
  <1>5. CASE from_below /\ v.shape \in {"wall", "floor"}
    <2>1. View' = View
      BY <1>1, <1>5, LoadStep DEF IInv
    <2> QED
      BY <1>1, <1>2, <1>4, <1>5, <2>1 DEF from_below
  <1>6. CASE ~(from_below /\ v.shape \in {"wall", "floor"})
    <2> DEFINE w == [View[t] EXCEPT !.hidden = FALSE, !.dig = v.dig]
    <2>1. Sets(cache, cache', t, w)
      BY <1>1, <1>2, <1>3, <1>6, SetDesignationGood, ViewValues DEF IInv, CacheInv
    <2>2. w \in Values /\ w.shape = View[t].shape
      BY <1>2, <1>3, ViewValues DEF IInv
    <2>3. ~w.hidden
      BY <1>2 DEF Values
    <2> HIDE DEF w
    <2>4. View' = Seen(View, t, w)
      BY <1>1, <1>2, <2>1, <2>2, SetStep DEF IInv
    <2>5. DOMAIN View = Tiles
      BY DEF View
    <2>6. View'[t] = w /\ \A u \in Tiles \ {t} : View'[u] = View[u]
      BY <1>2, <2>4, <2>5 DEF Seen
    <2> QED
      BY <1>1, <1>2, <1>4, <2>2, <2>3, <2>6
  <1> QED
    BY <1>5, <1>6

\* Steps of the other tools say nothing of revflood.
LEMMA FloodSame ==
    ASSUME FloodInv, View' = View,
           UNCHANGED <<map, present, cursor, tool, at, flood>>
    PROVE  FloodInv'
  <1>1. \A t : TestCoord(t)' <=> TestCoord(t)
    BY DEF TestCoord
  <1>2. \A t : Passable(t)' <=> Passable(t)
    BY <1>1 DEF Passable
  <1>3. \A t, u : PathTo(t, u)' <=> PathTo(t, u)
    BY DEF PathTo
  <1>4. \A u : Reached(u)' <=> Reached(u)
    BY DEF Reached, Waiting
  <1>5. \A room : Sealed(room)' <=> Sealed(room)
    BY <1>1 DEF Sealed
  <1>6. Frontier => Frontier'
    BY <1>1, <1>2, <1>3, <1>4 DEF Frontier
  <1>7. RoomsClosed => RoomsClosed'
    BY <1>1, <1>5 DEF RoomsClosed, Rooms
  <1>8. Revealed => Revealed'
    BY <1>1, <1>2, <1>3 DEF Revealed, Visible
  <1>9. RoomsHidden => RoomsHidden'
    BY <1>1, <1>5 DEF RoomsHidden, Rooms
  <1> QED
    BY <1>1, <1>6, <1>7, <1>8, <1>9 DEF FloodInv

\* The flood invariant holds before a command starts.
LEMMA FloodInit == ASSUME Init PROVE FloodInv
  <1>1. View = map
    BY InitKeeps DEF TM!Init
  <1>2. tool = "revflood" => at = "revflood"
    BY DEF Init, InitRevflood, InitPaint, InitAutodump, Start
  <1> QED
    BY <1>1, <1>2 DEF FloodInv

\* Everything is hidden, and the cursor waits, or the flood does not begin.
LEMMA FloodBegins ==
    ASSUME IInv, FloodInv, Revflood PROVE FloodInv'
  <1> SUFFICES ASSUME tool = "revflood" PROVE FloodInv'
    BY DEF FloodInv, Revflood
  <1>0. UNCHANGED <<present, cursor, tool>>
    BY DEF Revflood
  <1>1. \A t : TestCoord(t)' <=> TestCoord(t)
    BY <1>0 DEF TestCoord
  <1>2. cursor \in Tiles /\ cursor \in Interior
    BY InteriorPlace DEF IInv
  <1>3. \A t \in Tiles : View[t].shape = map[t].shape
    BY DEF FloodInv
  <1>4. CASE TestCoord(cursor) /\ TileAt(cache, cursor).shape = "wall"
    <2>1. at' = "delete" /\ map' = map /\ cache' = Load(cache, cursor) /\ flood' = flood
      BY <1>4 DEF Revflood
    <2>2. View' = View
      BY <1>0, <2>1, LoadStep DEF IInv, Revflood, mapVars
    <2>3. TileAt(cache, cursor) = View[cursor]
      BY <1>2, <1>4, TileAtView, ViewValues DEF IInv, CacheInv
    <2>4. map'[cursor'].shape = "wall"
      BY <1>0, <1>2, <1>3, <1>4, <2>1, <2>3
    <2> QED
      BY <1>3, <2>1, <2>2, <2>4 DEF FloodInv
  <1>5. CASE ~(TestCoord(cursor) /\ TileAt(cache, cursor).shape = "wall")
    <2>1. /\ map' = [t \in Tiles |-> IF BlockOf(t) \in present
                                     THEN Hidden(map[t]) ELSE map[t]]
          /\ cache' = Trashed /\ flood' = << <<cursor, FALSE>> >> /\ at' = "flood"
      BY <1>5 DEF Revflood
    <2>2. \A t \in Tiles : /\ map'[t] \in Values /\ map'[t].shape = map[t].shape
                           /\ TestCoord(t) => map'[t].hidden
      BY <2>1, HiddenValue DEF IInv, CacheInv, World, TestCoord
    <2>3. map' \in [Tiles -> Values]
      BY <2>1, <2>2
    <2>4. View' = map'
      BY <2>1, <2>3, TrashedGood, ViewIsNext
    <2>5. Len(flood') = 1 /\ flood'[1] = Entry(cursor) /\ flood'[1][1] = cursor
      BY <2>1 DEF Entry
    <2>6. Frontier'
      <3>1. Waiting(cursor)'
        BY <1>0, <2>5 DEF Waiting
      <3>2. \A t \in Tiles : Passable(t)' => View'[t].hidden
        BY <1>1, <2>2, <2>4 DEF Passable
      <3> QED
        BY <3>1, <3>2 DEF Frontier, Reached
    <2>7. RoomsClosed'
      <3> SUFFICES ASSUME NEW room \in Rooms
                   PROVE  /\ \A u \in room : TestCoord(u) => View'[u].hidden
                          /\ \A k \in 1 .. Len(flood') : flood'[k][1] \notin room
        BY <1>0, <1>1 DEF RoomsClosed, Rooms
      <3>1. room \subseteq Tiles /\ cursor \notin room
        BY InteriorPlace DEF Rooms
      <3> QED
        BY <2>2, <2>4, <2>5, <3>1
    <2> QED
      BY <1>0, <2>1, <2>4, <2>6, <2>7 DEF FloodInv
  <1> QED
    BY <1>4, <1>5

\* What is skipped is visible, or not on the map.
LEMMA FloodSkips ==
    ASSUME IInv, FloodInv, SkipTile PROVE FloodInv'
  <1> SUFFICES ASSUME tool = "revflood" PROVE FloodInv'
    BY DEF FloodInv, SkipTile
  <1>1. /\ View' = View /\ map' = map /\ present' = present /\ cursor' = cursor
        /\ tool' = tool /\ at' = at /\ at = "flood"
        /\ flood # <<>> /\ flood' = Front(flood)
    BY SkipTileFacts DEF SkipTile
  <1> DEFINE t == Last(flood)[1]
             n == Len(flood)
  <1>2. TestCoord(t) => t \in Tiles /\ ~View[t].hidden
    BY SkipTileFacts
  <1>3. /\ n \in Nat \ {0} /\ Last(flood) = flood[n]
        /\ Len(flood') = n - 1 /\ \A k \in 1 .. n - 1 : flood'[k] = flood[k]
    BY <1>1, FloodTop DEF IInv
  <1>4. Frontier /\ RoomsClosed
    BY <1>1 DEF FloodInv
  <1>5. \A u : TestCoord(u)' <=> TestCoord(u)
    BY <1>1 DEF TestCoord
  <1>6. \A u : TestCoord(u) /\ Reached(u) => Reached(u)'
    <2> SUFFICES ASSUME NEW u, TestCoord(u), View[u].hidden, Waiting(u)
                 PROVE  Waiting(u)'
      BY <1>1 DEF Reached
    <2>1. PICK k \in 1 .. n :
             flood[k] = Entry(u) \/ (flood[k][1] = u /\ map[u].shape = "open")
      BY DEF Waiting
    <2>2. flood[k][1] = u
      <3>1. Entry(u)[1] = u
        BY DEF Entry
      <3> QED
        BY <2>1, <3>1
    <2>3. k # n
      BY <1>2, <1>3, <2>2
    <2>4. k \in 1 .. n - 1
      BY <1>3, <2>3
    <2> QED
      BY <1>1, <1>3, <2>1, <2>4 DEF Waiting
  <1>7. Frontier'
    <2>1. \A v : Passable(v)' <=> Passable(v)
      BY <1>1, <1>5 DEF Passable
    <2>2. \A v, u : PathTo(v, u)' <=> PathTo(v, u)
      BY <1>1 DEF PathTo
    <2> QED
      BY <1>1, <1>4, <1>5, <1>6, <2>1, <2>2 DEF Frontier
  <1>8. RoomsClosed'
    <2>1. \A room : Sealed(room)' <=> Sealed(room)
      BY <1>1, <1>5 DEF Sealed
    <2>2. \A k \in 1 .. n - 1 : k \in 1 .. n
      BY <1>3
    <2> QED
      BY <1>1, <1>3, <1>4, <1>5, <2>1, <2>2 DEF RoomsClosed, Rooms
  <1> QED
    BY <1>1, <1>7, <1>8 DEF FloodInv

\* What is reached stays so when its tile is met, and leads on; a sealed room is
\* not led into, for its walls are not led on from.
LEMMA FloodGoesOn ==
    ASSUME IInv, FloodInv, FloodTile PROVE FloodInv'
  <1> SUFFICES ASSUME tool = "revflood" PROVE FloodInv'
    BY DEF FloodInv, FloodTile
  <1> DEFINE t == Last(flood)[1]
             n == Len(flood)
             leads == LeadsTo(t, View[t].shape)
  <1>1. /\ map' = map /\ present' = present /\ cursor' = cursor
        /\ tool' = tool /\ at' = at /\ at = "flood"
        /\ flood # <<>> /\ TestCoord(t) /\ t \in Tiles
        /\ View[t].shape # "wall" => t \in Interior
        /\ flood' = Front(flood) \o leads
    BY FloodTileFacts DEF FloodTile
  <1>2. /\ \A u \in Tiles \ {t} : View'[u] = View[u]
        /\ View'[t].shape = View[t].shape
        /\ \/ /\ Last(flood)[2] /\ View[t].shape \in {"wall", "floor"}
              /\ View' = View /\ View[t].hidden
           \/ ~View'[t].hidden
    BY FloodTileFacts
  <1>3. /\ n \in Nat \ {0} /\ Last(flood) = flood[n] /\ flood[n][1] = t
        /\ Front(flood) \in Seq(Entries) /\ Len(Front(flood)) = n - 1
        /\ \A k \in 1 .. n - 1 : Front(flood)[k] = flood[k]
    BY <1>1, FloodTop DEF IInv
  <1>4. /\ Frontier /\ RoomsClosed
        /\ \A u \in Tiles : View[u].shape = map[u].shape
    BY <1>1 DEF FloodInv
  <1> DEFINE on == View[t].shape \in {"open", "floor"}
  <1>5. /\ leads \in Seq(Entries)
        /\ \A k \in 1 .. Len(leads) : on /\ leads[k][1] \in Around(t)
        /\ on => /\ \A u \in ToSet(Sides(t)) :
                      \E k \in 1 .. Len(leads) : leads[k] = Entry(u)
                 /\ \E k \in 1 .. Len(leads) : leads[k] = FromBelow(Above(t))
                 /\ View[t].shape = "open" =>
                      \E k \in 1 .. Len(leads) : leads[k] = Entry(Below(t))
    <2> HIDE DEF t
    <2>1. CASE on
      <3>1. t \in Interior
        BY <1>1, <2>1
      <3> PICK shape \in {"open", "floor"} : shape = View[t].shape
        BY <2>1
      <3>2. PICK all : all = LeadsTo(t, shape)
        OBVIOUS
      <3>3. /\ all \in Seq(Entries)
            /\ \A k \in 1 .. Len(all) : all[k][1] \in Around(t)
            /\ \A u \in ToSet(Sides(t)) : \E k \in 1 .. Len(all) : all[k] = Entry(u)
            /\ \E k \in 1 .. Len(all) : all[k] = FromBelow(Above(t))
            /\ shape = "open" => \E k \in 1 .. Len(all) : all[k] = Entry(Below(t))
        BY <3>1, <3>2, LeadsToAround
      <3>4. leads = all
        BY <3>2
      <3> HIDE DEF leads
      <3> QED
        BY <2>1, <3>3, <3>4
    <2>2. CASE ~on
      <3>1. leads = <<>>
        BY <2>2 DEF LeadsTo
      <3> QED
        BY <2>2, <3>1
    <2> QED
      BY <2>1, <2>2
  <1> HIDE DEF leads, t, n
  <1>6. /\ Len(leads) \in Nat /\ Len(flood') = (n - 1) + Len(leads)
        /\ \A k \in 1 .. n - 1 : flood'[k] = flood[k]
        /\ \A k \in 1 .. Len(leads) : flood'[(n - 1) + k] = leads[k]
    <2>1. PICK m, l : m = n - 1 /\ l = Len(leads)
      OBVIOUS
    <2>2. /\ m \in Nat /\ Front(flood) \in Seq(Entries) /\ Len(Front(flood)) = m
          /\ l \in Nat /\ leads \in Seq(Entries) /\ Len(leads) = l
      BY <1>3, <1>5, <2>1
    <2>3. /\ Len(flood') = m + l
          /\ \A k \in 1 .. m : flood'[k] = Front(flood)[k]
          /\ \A k \in 1 .. l : flood'[m + k] = leads[k]
      BY <1>1, <2>2, ConcatSplit
    <2> QED
      BY <1>3, <2>1, <2>2, <2>3
  <1>7. \A k \in 1 .. n - 1 : k \in 1 .. n /\ k \in 1 .. Len(flood')
    BY <1>3, <1>6
  <1>8. \A k \in 1 .. Len(leads) : (n - 1) + k \in 1 .. Len(flood')
    BY <1>3, <1>6
  <1>9. \A u : TestCoord(u)' <=> TestCoord(u)
    BY <1>1 DEF TestCoord
  <1>10. \A u \in Tiles : Reached(u) => Reached(u)'
    <2> SUFFICES ASSUME NEW u \in Tiles, Reached(u), View'[u].hidden
                 PROVE  Waiting(u)'
      BY DEF Reached
    <2>1. View[u].hidden
      BY <1>2
    <2>2. PICK k \in 1 .. n :
             flood[k] = Entry(u) \/ (flood[k][1] = u /\ map[u].shape = "open")
      BY <2>1 DEF Reached, Waiting, n
    <2>3. Entry(u)[1] = u /\ Entry(u)[2] = FALSE
      BY DEF Entry
    <2>4. k # n
      <3> SUFFICES ASSUME k = n PROVE FALSE
        OBVIOUS
      <3>1. u = t
        BY <1>3, <2>2, <2>3
      <3>2. Last(flood)[2] /\ View[t].shape \in {"wall", "floor"}
        BY <1>2, <3>1
      <3>3. map[u].shape # "open"
        BY <1>4, <3>1, <3>2
      <3>4. flood[n] = Entry(u)
        BY <2>2, <3>3
      <3> QED
        BY <1>3, <2>3, <3>2, <3>4
    <2>5. k \in 1 .. n - 1
      BY <1>3, <2>4
    <2> QED
      BY <1>1, <1>6, <1>7, <2>2, <2>5 DEF Waiting
  <1>11. \A u \in Tiles : on /\ PathTo(t, u) => Waiting(u)'
    <2> SUFFICES ASSUME NEW u \in Tiles, on, PathTo(t, u)
                 PROVE  Waiting(u)'
      OBVIOUS
    <2>1. ASSUME NEW k \in 1 .. Len(leads), leads[k] = Entry(u)
          PROVE  Waiting(u)'
      BY <1>6, <1>8, <2>1 DEF Waiting
    <2>2. CASE u \in ToSet(Sides(t))
      BY <1>5, <2>1, <2>2
    <2>3. CASE u = Below(t) /\ map[t].shape = "open"
      BY <1>1, <1>4, <1>5, <2>1, <2>3
    <2>4. CASE u = Above(t) /\ map[u].shape = "open"
      <3>1. PICK k \in 1 .. Len(leads) : leads[k] = FromBelow(u)
        BY <1>5, <2>4
      <3>2. FromBelow(u)[1] = u
        BY DEF FromBelow
      <3>3. flood'[(n - 1) + k][1] = u /\ map'[u].shape = "open"
        BY <1>1, <1>6, <2>4, <3>1, <3>2
      <3> QED
        BY <1>8, <3>3 DEF Waiting
    <2> QED
      BY <2>2, <2>3, <2>4 DEF PathTo
  <1>12. Frontier'
    <2>1. \A v : Passable(v)' <=> Passable(v)
      BY <1>1, <1>9 DEF Passable
    <2>2. \A v, u : PathTo(v, u)' <=> PathTo(v, u)
      BY <1>1 DEF PathTo
    <2>3. TestCoord(cursor)' => Reached(cursor)'
      <3>1. cursor \in Tiles
        BY InteriorPlace DEF IInv
      <3> QED
        BY <1>1, <1>4, <1>9, <1>10, <3>1 DEF Frontier
    <2>4. ASSUME NEW v \in Tiles, NEW u \in Tiles, Passable(v), ~View'[v].hidden,
                 TestCoord(u), PathTo(v, u)
          PROVE  Reached(u)'
      <3>1. CASE v = t
        BY <1>1, <1>4, <1>11, <2>4, <3>1 DEF Passable, Reached
      <3>2. CASE v # t
        BY <1>2, <1>4, <1>10, <2>4, <3>2 DEF Frontier
      <3> QED
        BY <3>1, <3>2
    <2> QED
      BY <1>9, <2>1, <2>2, <2>3, <2>4 DEF Frontier
  <1>13. RoomsClosed'
    <2> SUFFICES ASSUME NEW room \in Rooms, Sealed(room)'
                 PROVE  /\ \A u \in room : TestCoord(u)' => View'[u].hidden
                        /\ \A k \in 1 .. Len(flood') : flood'[k][1] \notin room
      BY <1>1 DEF RoomsClosed, Rooms
    <2>1. Sealed(room)
      BY <1>1, <1>9 DEF Sealed
    <2>2. /\ \A u \in room : TestCoord(u) => View[u].hidden
          /\ \A k \in 1 .. n : flood[k][1] \notin room
      BY <1>4, <2>1 DEF RoomsClosed, n
    <2>3. t \notin room
      <3>1. n \in 1 .. n
        BY <1>3
      <3> QED
        BY <1>3, <2>2, <3>1
    <2>4. room \subseteq Tiles
      BY InteriorPlace DEF Rooms
    <2>5. \A u \in room : TestCoord(u)' => View'[u].hidden
      BY <1>2, <1>9, <2>2, <2>3, <2>4
    <2>6. \A k \in 1 .. Len(leads) : leads[k][1] \notin room
      <3> SUFFICES ASSUME NEW k \in 1 .. Len(leads), leads[k][1] \in room
                   PROVE  FALSE
        OBVIOUS
      <3>1. on /\ leads[k][1] \in Around(t)
        BY <1>5
      <3>2. t \in Interior \ room
        BY <1>1, <2>3, <3>1
      <3>3. map[t].shape \in {"wall", "other"}
        BY <1>1, <2>1, <3>1, <3>2 DEF Sealed
      <3> QED
        BY <1>1, <1>4, <3>1, <3>3
    <2>7. \A k \in 1 .. Len(flood') :
            k \in 1 .. n - 1 \/ \E l \in 1 .. Len(leads) : k = (n - 1) + l
      <3> SUFFICES ASSUME NEW k \in 1 .. Len(flood'), k \notin 1 .. n - 1
                   PROVE  \E l \in 1 .. Len(leads) : k = (n - 1) + l
        OBVIOUS
      <3>1. k - (n - 1) \in 1 .. Len(leads) /\ k = (n - 1) + (k - (n - 1))
        BY <1>3, <1>6
      <3> QED
        BY <3>1
    <2>8. \A k \in 1 .. Len(flood') : flood'[k][1] \notin room
      BY <1>6, <1>7, <2>2, <2>6, <2>7
    <2> QED
      BY <2>5, <2>8
  <1>14. \A u \in Tiles : View'[u].shape = map'[u].shape
    BY <1>1, <1>2, <1>4
  <1> QED
    BY <1>1, <1>12, <1>13, <1>14 DEF FloodInv

\* The stack is empty: nothing waits any more.
LEMMA FloodEnding ==
    ASSUME IInv, FloodInv, FloodDone PROVE FloodInv'
  <1>1. View' = View /\ UNCHANGED <<map, present, cursor, tool, flood>>
    BY SameStep DEF IInv, FloodDone, mapVars
  <1>2. at = "flood" /\ at' = "write" /\ flood = <<>>
    BY DEF FloodDone
  <1> PICK a, b : a = at /\ b = at'
    OBVIOUS
  <1>3. \A t : TestCoord(t)' <=> TestCoord(t)
    BY <1>1 DEF TestCoord
  <1>4. \A t : Passable(t)' <=> Passable(t)
    BY <1>1, <1>3 DEF Passable
  <1>5. \A t, u : PathTo(t, u)' <=> PathTo(t, u)
    BY <1>1 DEF PathTo
  <1>6. \A u : Reached(u)' <=> Reached(u)
    BY <1>1 DEF Reached, Waiting
  <1>7. \A room : Sealed(room)' <=> Sealed(room)
    BY <1>1, <1>3 DEF Sealed
  <1>8. Frontier => Frontier'
    BY <1>1, <1>3, <1>4, <1>5, <1>6 DEF Frontier
  <1>9. RoomsClosed => RoomsClosed'
    BY <1>1, <1>3, <1>7 DEF RoomsClosed, Rooms
  <1> QED
    BY <1>1, <1>2, <1>8, <1>9 DEF FloodInv

\* When the stack is empty, what the tool sees goes into the game's map.
LEMMA FloodWritten ==
    ASSUME IInv, FloodInv, WriteBack PROVE FloodInv'
  <1> SUFFICES ASSUME tool = "revflood" PROVE FloodInv'
    BY DEF FloodInv, WriteBack
  <1>1. /\ at = "write" /\ at' = "delete" /\ tool' = tool
        /\ present' = present /\ cursor' = cursor
    BY DEF WriteBack
  <1>2. map' = View /\ View' = View
    <2>1. WrittenBlockflags(cache) \in [Blocks -> SUBSET Flags]
      BY WrittenMarked DEF IInv, CacheInv
    <2>2. blockflags' \in [Blocks -> SUBSET Flags]
      BY <2>1 DEF WriteBack, Flags
    <2> QED
      BY <2>2, WriteStep DEF IInv, WriteBack
  <1>3. /\ Frontier /\ RoomsClosed /\ flood = <<>>
        /\ \A u \in Tiles : View[u].shape = map[u].shape
    BY <1>1 DEF FloodInv
  <1>4. \A u : ~Waiting(u)
    BY <1>3 DEF Waiting
  <1>5. \A u : TestCoord(u)' <=> TestCoord(u)
    BY <1>1 DEF TestCoord
  <1>6. \A u \in Tiles : map'[u].shape = map[u].shape /\ map'[u] = View[u]
    BY <1>2, <1>3
  <1>7. cursor \in Tiles /\ Interior \subseteq Tiles
    BY InteriorPlace DEF IInv
  <1>8. Revealed' \/ ~TestCoord(cursor)'
    <2>1. \A u \in Tiles : Passable(u)' => Passable(u)
      BY <1>5, <1>6 DEF Passable
    <2>2. \A v, u \in Tiles : PathTo(v, u)' => PathTo(v, u)
      BY <1>6 DEF PathTo
    <2>3. \A u \in Tiles : Reached(u) => ~map'[u].hidden
      BY <1>4, <1>6 DEF Reached
    <2>4. TestCoord(cursor)' => Visible(cursor)'
      BY <1>1, <1>3, <1>5, <1>7, <2>3 DEF Frontier, Visible
    <2>5. \A v, u \in Tiles :
            Passable(v)' /\ ~map'[v].hidden /\ TestCoord(u)' /\ PathTo(v, u)'
              => ~map'[u].hidden
      BY <1>3, <1>5, <1>6, <2>1, <2>2, <2>3 DEF Frontier
    <2> QED
      BY <2>4, <2>5 DEF Revealed
  <1>9. RoomsHidden'
    <2> SUFFICES ASSUME NEW room \in Rooms, Sealed(room)'
                 PROVE  \A u \in room : TestCoord(u)' => map'[u].hidden
      BY <1>1 DEF RoomsHidden, Rooms
    <2>1. room \subseteq Tiles
      BY <1>7 DEF Rooms
    <2>2. Sealed(room)
      BY <1>5, <1>6, <1>7 DEF Sealed
    <2> QED
      BY <1>3, <1>5, <1>6, <2>1, <2>2 DEF RoomsClosed
  <1>10. \A u \in Tiles : View'[u].shape = map'[u].shape
    BY <1>2
  <1> QED
    BY <1>1, <1>8, <1>9, <1>10 DEF FloodInv

\* The cache is deleted, and the map stays what it is.
LEMMA FloodDeleted ==
    ASSUME IInv, FloodInv, Delete PROVE FloodInv'
  <1> SUFFICES ASSUME tool = "revflood" PROVE FloodInv'
    BY DEF FloodInv, Delete
  <1>1. /\ at = "delete" /\ at' = "done" /\ tool' = tool
        /\ map' = map /\ present' = present /\ cursor' = cursor
    BY DEF Delete, mapVars
  <1>2. View' = map'
    BY ForgetStep DEF IInv, Delete
  <1>3. \A t : TestCoord(t)' <=> TestCoord(t)
    BY <1>1 DEF TestCoord
  <1>4. \A t : Passable(t)' <=> Passable(t)
    BY <1>1, <1>3 DEF Passable
  <1>5. \A t, u : PathTo(t, u)' <=> PathTo(t, u)
    BY <1>1 DEF PathTo
  <1>6. \A room : Sealed(room)' <=> Sealed(room)
    BY <1>1, <1>3 DEF Sealed
  <1>7. Revealed => Revealed'
    BY <1>1, <1>3, <1>4, <1>5 DEF Revealed, Visible
  <1>8. RoomsHidden => RoomsHidden'
    BY <1>1, <1>3, <1>6 DEF RoomsHidden, Rooms
  <1> QED
    BY <1>1, <1>2, <1>3, <1>7, <1>8 DEF FloodInv

\* Every step keeps the flood invariant.
LEMMA FloodKept ==
    ASSUME IInv, FloodInv, [Next]_vars PROVE FloodInv'
  <1>1. ASSUME PaintNext PROVE FloodInv'
    <2>1. at = "paint" /\ tool' = tool
      BY <1>1 DEF PaintNext, PaintTile, PaintFlags, Paint, PaintWrites, PaintGivesUp
    <2> QED
      BY <2>1 DEF FloodInv
  <1>2. ASSUME AutodumpNext PROVE FloodInv'
    <2>1. at \in {"autodump", "items", "piles"} /\ tool' = tool
      BY <1>2 DEF AutodumpNext, Autodump, ItemsDone, MarkTarget, KeepItem, DumpItem,
                  DestroyItem, NextItem, ClearPile
    <2> QED
      BY <2>1 DEF FloodInv
  <1>3. ASSUME RevfloodNext PROVE FloodInv'
    BY <1>3, FloodBegins, FloodSkips, FloodGoesOn, FloodEnding, FloodWritten,
       FloodDeleted DEF RevfloodNext
  <1>4. CASE UNCHANGED vars
    <2>1. UNCHANGED <<mapVars, cache, map, present, cursor, tool, at, flood>>
      BY <1>4 DEF vars, mapVars
    <2>2. View' = View
      BY <2>1, SameStep DEF IInv
    <2> QED
      BY <2>1, <2>2, FloodSame
  <1> QED
    BY <1>1, <1>2, <1>3, <1>4 DEF Next

\* The flood invariant holds in every state.
LEMMA SpecFlood == Spec => [](IInv /\ FloodInv)
  <1>1. Init => IInv /\ FloodInv
    BY InitKeeps, FloodInit
  <1>2. (IInv /\ FloodInv) /\ [Next]_vars => (IInv /\ FloodInv)'
    BY NextKeeps, FloodKept DEF Kept
  <1> QED
    BY <1>1, <1>2, PTL DEF Spec

\* The flood gets wherever a path leads: a tile that waits on the stack is not
\* lost, nor is one that was met from below and left hidden.
THEOREM FloodIsComplete == Spec => []FloodReveals
  <1>1. IInv /\ FloodInv => FloodReveals
    <2> SUFFICES ASSUME FloodInv, Flooded PROVE
                   /\ Visible(cursor)
                   /\ \A t, u \in Tiles :
                        /\ Visible(t) /\ map[t].shape \in {"open", "floor"}
                        /\ TestCoord(u) /\ PathTo(t, u)
                        => Visible(u)
      BY DEF FloodReveals
    <2>1. Revealed
      BY DEF FloodInv, Flooded
    <2> QED
      BY <2>1 DEF Revealed, Visible, Passable
  <1> QED
    BY <1>1, SpecFlood, PTL

\* The flood gets nowhere else: nothing of a sealed room is ever on the stack.
THEOREM FloodStopsAtWalls == Spec => []RoomsStayHidden
  <1>1. IInv /\ FloodInv => RoomsStayHidden
    <2> SUFFICES ASSUME FloodInv, Flooded, NEW room \in Rooms, Sealed(room)
                 PROVE  \A u \in room : TestCoord(u) => map[u].hidden
      BY DEF RoomsStayHidden, Rooms, Sealed, Around
    <2>1. RoomsHidden
      BY DEF FloodInv, Flooded
    <2> QED
      BY <2>1 DEF RoomsHidden
  <1> QED
    BY <1>1, SpecFlood, PTL

-----------------------------------------------------------------------------
(* autodump: where items lie, and what the map says of it.                 *)

\* An item that has been looked at lies at t.
Met(t) == \E i \in Items \ rest : items[i].pos = t

\* The game's map is right about the items.
MapExact == \A t \in Interior : map[t].item <=> Lying(t) # {}

\* The piles are counted as they lie; at the cursor as far as they lay there.
PilesCounted ==
    /\ \A t \in Interior \ {cursor} :
         Met(t) <=> t \in DOMAIN counts /\ counts[t] > 0
    /\ Met(cursor) <=> cursor \in DOMAIN counts \/ dumped_total > 0
    /\ cursor \in DOMAIN counts => counts[cursor] > 0

\* The tool sees an item where one has yet to be looked at, or where a pile has
\* been counted and not been cleared.
BitsToClear ==
    \A t \in Interior :
      View[t].item <=> t \in DOMAIN counts \/ \E i \in rest : items[i].pos = t

\* What the tool sees is right.
ViewExact == \A t \in Interior : View[t].item <=> Lying(t) # {}

ItemsType ==
    /\ items \in [Items -> ItemStates]
    /\ rest \subseteq Items
    /\ DOMAIN counts \subseteq Interior
    /\ \A t \in DOMAIN counts : counts[t] \in Nat
    /\ dumped_total \in Nat

ItemInv ==
    tool = "autodump" =>
      /\ at \in {"autodump", "items", "piles", "write", "delete", "done"}
      /\ ItemsType
      /\ \A t \in Interior : TestCoord(t)
      /\ mode # "dump" => at \notin {"piles", "write"}
      /\ mode # "dump" \/ at \in {"autodump", "delete", "done"} => MapExact
      /\ mode = "dump" /\ at \in {"autodump", "items", "piles"}
           => PilesCounted /\ BitsToClear
      /\ at = "piles" => rest = {}
      /\ mode = "dump" /\ at = "write" => ViewExact

\* Every tile of the map is in a block of it.
LEMMA InBlocks == \A t \in Tiles : BlockOf(t) \in Blocks
  <1> SUFFICES ASSUME NEW t \in Tiles PROVE BlockOf(t) \in Blocks
    OBVIOUS
  <1>1. ASSUME NEW x \in Nat, NEW n \in Nat, x <= n * Side - 1
        PROVE  x \div Side \in 0 .. n - 1
    BY <1>1, MapCacheAssumption
  <1>2. /\ t[1] \in Nat /\ t[1] <= XBlocks * Side - 1
        /\ t[2] \in Nat /\ t[2] <= YBlocks * Side - 1
        /\ t[3] \in 0 .. ZMax - 1
    BY MapCacheAssumption DEF Tiles
  <1>3. t[1] \div Side \in 0 .. XBlocks - 1
    BY <1>1, <1>2, MapCacheAssumption
  <1>4. t[2] \div Side \in 0 .. YBlocks - 1
    BY <1>1, <1>2, MapCacheAssumption
  <1>5. Quotient(t[1]) = t[1] \div Side /\ Quotient(t[2]) = t[2] \div Side
    BY <1>2 DEF Quotient
  <1> QED
    BY <1>2, <1>3, <1>4, <1>5 DEF BlockOf, Blocks

\* The item invariant holds before a command starts.
LEMMA ItemInit == ASSUME Init PROVE ItemInv
  <1> SUFFICES ASSUME InitAutodump PROVE ItemInv
    BY DEF Init, InitRevflood, InitPaint, Start, ItemInv
  <1>1. View = map
    BY InitKeeps DEF TM!Init
  <1>2. /\ tool = "autodump" /\ at = "autodump" /\ cursor \in Interior
        /\ counts = <<>> /\ dumped_total = 0 /\ rest = Items /\ present = Blocks
        /\ items \in [Items -> ItemStates]
    BY DEF InitAutodump, Start
  <1>3. ItemsType
    BY <1>2 DEF ItemsType
  <1>4. \A t \in Interior : TestCoord(t)
    BY <1>2, InBlocks, InteriorPlace DEF TestCoord
  <1>5. MapExact
    <2> PICK shape \in {"floor", "open"} :
          map = [t \in Tiles |->
            IF t \notin Interior THEN Rock
            ELSE [Tile(IF t = cursor THEN shape ELSE "floor", FALSE, FALSE)
                    EXCEPT !.item = Lying(t) # {}]]
      BY DEF InitAutodump
    <2> SUFFICES ASSUME NEW t \in Interior PROVE map[t].item <=> Lying(t) # {}
      BY DEF MapExact
    <2>1. t \in Tiles
      BY InteriorPlace
    <2> DEFINE some == Lying(t) # {}
    <2>2. some \in BOOLEAN
      OBVIOUS
    <2> HIDE DEF some
    <2>3. map[t] = [Tile(IF t = cursor THEN shape ELSE "floor", FALSE, FALSE)
                      EXCEPT !.item = some]
      BY <2>1 DEF some
    <2>4. map[t].item = some
      BY <2>2, <2>3 DEF Tile
    <2> QED
      BY <2>4 DEF some
  <1>6. PilesCounted
    BY <1>2 DEF PilesCounted, Met
  <1>7. BitsToClear
    <2>1. \A t : Lying(t) # {} <=> \E i \in rest : items[i].pos = t
      BY <1>2 DEF Lying
    <2> QED
      BY <1>1, <1>2, <1>5, <2>1 DEF BitsToClear, MapExact
  <1> QED
    BY <1>2, <1>3, <1>4, <1>5, <1>6, <1>7 DEF ItemInv

\* What is kept by a step that leaves the items, and what is seen, alone.
LEMMA ItemSame ==
    ASSUME View' = View, UNCHANGED <<present, cursor, counts, itemVars>>
    PROVE  /\ ItemsType => ItemsType'
           /\ \A t : TestCoord(t)' <=> TestCoord(t)
           /\ \A t : (Lying(t) # {})' <=> Lying(t) # {}
           /\ map' = map => (MapExact' <=> MapExact)
           /\ PilesCounted => PilesCounted'
           /\ BitsToClear => BitsToClear'
           /\ ViewExact => ViewExact'
  <1>1. items' = items /\ rest' = rest /\ dumped_total' = dumped_total
    BY DEF itemVars
  <1>2. \A t : (Lying(t) # {})' <=> Lying(t) # {}
    BY <1>1 DEF Lying
  <1>3. \A t : Met(t)' <=> Met(t)
    BY <1>1 DEF Met
  <1>4. ItemsType => ItemsType'
    BY <1>1 DEF ItemsType
  <1>5. \A t : TestCoord(t)' <=> TestCoord(t)
    BY DEF TestCoord
  <1>6. map' = map => (MapExact' <=> MapExact)
    BY <1>2 DEF MapExact
  <1>7. PilesCounted => PilesCounted'
    BY <1>1, <1>3 DEF PilesCounted
  <1>8. BitsToClear => BitsToClear'
    BY <1>1 DEF BitsToClear
  <1>9. ViewExact => ViewExact'
    BY <1>2 DEF ViewExact
  <1> QED
    BY <1>2, <1>4, <1>5, <1>6, <1>7, <1>8, <1>9

\* The items counted at t.
Counted(t) == IF t \in DOMAIN counts THEN counts[t] ELSE 0

\* One more counted at t, and n of them taken away.
LEMMA CountFacts ==
    ASSUME DOMAIN counts \subseteq Interior, \A t \in DOMAIN counts : counts[t] \in Nat,
           NEW t \in Interior, NEW n \in {0, 1}, NEW d, d = Count(t, n)
    PROVE  /\ DOMAIN d = DOMAIN counts \cup {t}
           /\ \A u \in DOMAIN counts \ {t} : d[u] = counts[u]
           /\ d[t] = Counted(t) + (1 - n)
           /\ \A u \in DOMAIN d : d[u] \in Nat
  <1> DEFINE met == IF t \in DOMAIN counts THEN counts[t] ELSE 0
  <1>1. met \in Nat
    OBVIOUS
  <1>2. d = [u \in DOMAIN counts \cup {t} |-> IF u = t THEN met + 1 - n ELSE counts[u]]
    BY DEF Count
  <1> HIDE DEF met
  <1>3. DOMAIN d = DOMAIN counts \cup {t} /\ d[t] = met + 1 - n
        /\ \A u \in DOMAIN counts \ {t} : d[u] = counts[u]
    BY <1>2
  <1>4. met + 1 - n = met + (1 - n) /\ met + 1 - n \in Nat
    BY <1>1
  <1>5. \A u \in DOMAIN d : d[u] \in Nat
    BY <1>3, <1>4
  <1> QED
    BY <1>3, <1>4, <1>5 DEF met, Counted

\* The item that has been looked at has been at pos; it lies there still, or
\* lies at the cursor now.
ItemAt(i, pos, now) ==
    /\ items' \in [Items -> ItemStates]
    /\ \A k \in Items : items'[k].pos = IF k = i THEN now ELSE items[k].pos
    /\ now \in {pos, cursor}

\* The ways autodump changes an item: where it is, and where it goes.
LEMMA ItemsMove ==
    ASSUME items \in [Items -> ItemStates], NEW i \in Items, cursor \in Interior
    PROVE  /\ items[i].pos \in Interior
           /\ items' = items => ItemAt(i, items[i].pos, items[i].pos)
           /\ items' = [items EXCEPT ![i].dump = FALSE]
                => ItemAt(i, items[i].pos, items[i].pos)
           /\ items' = [items EXCEPT ![i].garbage = TRUE]
                => ItemAt(i, items[i].pos, items[i].pos)
           /\ items' = [items EXCEPT ![i].dump = FALSE, ![i].pos = cursor]
                => ItemAt(i, items[i].pos, cursor)
  <1>1. \A k \in Items : items[k] \in ItemStates /\ items[k].pos \in Interior
    BY DEF ItemStates
  <1>2. ASSUME NEW r \in ItemStates, items' = [items EXCEPT ![i] = r]
        PROVE  r.pos \in {items[i].pos, cursor} => ItemAt(i, items[i].pos, r.pos)
    <2>1. items' \in [Items -> ItemStates]
      BY <1>2
    <2>2. \A k \in Items : items'[k].pos = IF k = i THEN r.pos ELSE items[k].pos
      BY <1>2
    <2> QED
      BY <2>1, <2>2 DEF ItemAt
  <1> DEFINE kept == [items[i] EXCEPT !.dump = FALSE]
             gone == [items[i] EXCEPT !.garbage = TRUE]
             moved == [items[i] EXCEPT !.dump = FALSE, !.pos = cursor]
  <1>3. /\ kept \in ItemStates /\ kept.pos = items[i].pos
        /\ gone \in ItemStates /\ gone.pos = items[i].pos
        /\ moved \in ItemStates /\ moved.pos = cursor
    BY <1>1 DEF ItemStates
  <1>4. items = [items EXCEPT ![i] = items[i]]
    OBVIOUS
  <1>5. [items EXCEPT ![i].dump = FALSE] = [items EXCEPT ![i] = kept]
    OBVIOUS
  <1>6. [items EXCEPT ![i].garbage = TRUE] = [items EXCEPT ![i] = gone]
    OBVIOUS
  <1>7. [items EXCEPT ![i].dump = FALSE, ![i].pos = cursor] = [items EXCEPT ![i] = moved]
    OBVIOUS
  <1> HIDE DEF kept, gone, moved
  <1>8. items' = items => ItemAt(i, items[i].pos, items[i].pos)
    BY <1>1, <1>2, <1>4
  <1>9. items' = [items EXCEPT ![i].dump = FALSE]
          => ItemAt(i, items[i].pos, items[i].pos)
    <2> HAVE items' = [items EXCEPT ![i].dump = FALSE]
    <2>1. items' = [items EXCEPT ![i] = kept]
      BY <1>5
    <2> QED
      BY <1>2, <1>3, <2>1
  <1>10. items' = [items EXCEPT ![i].garbage = TRUE]
          => ItemAt(i, items[i].pos, items[i].pos)
    <2> HAVE items' = [items EXCEPT ![i].garbage = TRUE]
    <2>1. items' = [items EXCEPT ![i] = gone]
      BY <1>6
    <2> QED
      BY <1>2, <1>3, <2>1
  <1>11. items' = [items EXCEPT ![i].dump = FALSE, ![i].pos = cursor]
          => ItemAt(i, items[i].pos, cursor)
    <2> HAVE items' = [items EXCEPT ![i].dump = FALSE, ![i].pos = cursor]
    <2>1. items' = [items EXCEPT ![i] = moved]
      BY <1>7
    <2> QED
      BY <1>2, <1>3, <2>1
  <1> QED
    BY <1>1, <1>8, <1>9, <1>10, <1>11

\* What an item looked at changes: of the items met, and of those yet to meet.
LEMMA ItemMet ==
    ASSUME ItemsType, NEW i \in rest, rest' = rest \ {i},
           NEW pos, pos = items[i].pos, NEW now, ItemAt(i, pos, now)
    PROVE  /\ \A t : Met(t)' <=> Met(t) \/ t = now
           /\ \A t : t # pos => ((\E k \in rest' : items'[k].pos = t)
                                    <=> (\E k \in rest : items[k].pos = t))
           /\ \E k \in rest : items[k].pos = pos
           /\ now = pos => \A t : (Lying(t) # {})' <=> Lying(t) # {}
  <1>1. /\ \A k \in Items \ {i} : items'[k].pos = items[k].pos
        /\ items'[i].pos = now /\ i \in Items /\ rest \subseteq Items
    BY DEF ItemAt, ItemsType
  <1>2. \A t : Met(t)' <=> Met(t) \/ t = now
    <2> TAKE t
    <2>1. Items \ rest' = (Items \ rest) \cup {i}
      BY <1>1
    <2> QED
      BY <1>1, <2>1 DEF Met
  <1>3. \A t : t # pos => ((\E k \in rest' : items'[k].pos = t)
                              <=> (\E k \in rest : items[k].pos = t))
    BY <1>1
  <1>4. now = pos => \A t : (Lying(t) # {})' <=> Lying(t) # {}
    <2> HAVE now = pos
    <2>1. \A k \in Items : items'[k].pos = items[k].pos
      BY <1>1
    <2> QED
      BY <2>1 DEF Lying
  <1> QED
    BY <1>2, <1>3, <1>4

\* A step that looks at an item.
LEMMA ItemLooked ==
    ASSUME IInv, ItemInv, tool = "autodump", NEW i \in rest, NextItem(i),
           NEW n \in {0, 1}, counts' = Count(items[i].pos, n), dumped_total' \in Nat,
           NEW now, ItemAt(i, items[i].pos, now),
           mode # "dump" => now = items[i].pos,
           mode = "dump" =>
             \/ n = 0 /\ now = items[i].pos /\ dumped_total' = dumped_total
             \/ n = 1 /\ now = cursor /\ items[i].pos # cursor /\ dumped_total' > 0
    PROVE  ItemInv'
  <1> DEFINE pos == items[i].pos
  <1>1. /\ View' = View /\ map' = map /\ present' = present /\ cursor' = cursor
        /\ tool' = tool /\ at' = at /\ mode' = mode /\ at = "items"
        /\ rest' = rest \ {i}
    BY SameStep DEF IInv, NextItem, mapVars
  <1>2. /\ ItemsType /\ \A t \in Interior : TestCoord(t)
        /\ mode # "dump" => MapExact
        /\ mode = "dump" => PilesCounted /\ BitsToClear
        /\ cursor \in Interior
    BY <1>1 DEF ItemInv, IInv
  <1>3. pos \in Interior
    BY <1>2 DEF ItemsType, ItemStates
  <1> DEFINE met == IF pos \in DOMAIN counts THEN counts[pos] ELSE 0
  <1>4. /\ DOMAIN counts' = DOMAIN counts \cup {pos}
        /\ \A u \in DOMAIN counts \ {pos} : counts'[u] = counts[u]
        /\ counts'[pos] = met + (1 - n)
        /\ \A u \in DOMAIN counts' : counts'[u] \in Nat
    <2>1. PICK p : p = pos
      OBVIOUS
    <2>2. PICK d : d = counts'
      OBVIOUS
    <2>3. p \in Interior /\ d = Count(p, n)
      BY <1>3, <2>1, <2>2
    <2>4. DOMAIN counts \subseteq Interior /\ \A t \in DOMAIN counts : counts[t] \in Nat
      BY <1>2 DEF ItemsType
    <2>5. /\ DOMAIN d = DOMAIN counts \cup {p}
          /\ \A u \in DOMAIN counts \ {p} : d[u] = counts[u]
          /\ d[p] = Counted(p) + (1 - n)
          /\ \A u \in DOMAIN d : d[u] \in Nat
      BY <2>3, <2>4, CountFacts
    <2> QED
      BY <2>1, <2>2, <2>5 DEF Counted
  <1>5. /\ \A t : Met(t)' <=> Met(t) \/ t = now
        /\ \A t : t # pos => ((\E k \in rest' : items'[k].pos = t)
                                 <=> (\E k \in rest : items[k].pos = t))
        /\ \E k \in rest : items[k].pos = pos
        /\ now = pos => \A t : (Lying(t) # {})' <=> Lying(t) # {}
    <2>1. PICK p : p = items[i].pos
      OBVIOUS
    <2>2. ItemAt(i, p, now)
      BY <2>1
    <2>3. /\ \A t : Met(t)' <=> Met(t) \/ t = now
          /\ \A t : t # p => ((\E k \in rest' : items'[k].pos = t)
                                 <=> (\E k \in rest : items[k].pos = t))
          /\ \E k \in rest : items[k].pos = p
          /\ now = p => \A t : (Lying(t) # {})' <=> Lying(t) # {}
      BY <1>1, <1>2, <2>1, <2>2, ItemMet
    <2> QED
      BY <2>1, <2>3
  <1>6. met \in Nat /\ (met > 0 <=> pos \in DOMAIN counts /\ counts[pos] > 0)
    BY <1>2 DEF ItemsType
  <1>7. items' \in [Items -> ItemStates] /\ now \in {pos, cursor}
    BY DEF ItemAt
  <1> HIDE DEF pos, met
  <1>8. ItemsType'
    BY <1>1, <1>2, <1>3, <1>4, <1>7 DEF ItemsType
  <1>9. \A t \in Interior : TestCoord(t)'
    BY <1>1, <1>2 DEF TestCoord
  <1>10. mode' # "dump" => MapExact'
    BY <1>1, <1>2, <1>5 DEF MapExact, pos
  <1>11. ASSUME mode = "dump" PROVE BitsToClear'
    <2> SUFFICES ASSUME NEW t \in Interior
                 PROVE  View'[t].item <=>
                          t \in DOMAIN counts' \/ \E k \in rest' : items'[k].pos = t
      BY DEF BitsToClear
    <2>1. View[t].item <=> t \in DOMAIN counts \/ \E k \in rest : items[k].pos = t
      BY <1>2, <1>11 DEF BitsToClear
    <2>2. CASE t = pos
      BY <1>1, <1>4, <1>5, <2>1, <2>2
    <2>3. CASE t # pos
      BY <1>1, <1>4, <1>5, <2>1, <2>3
    <2> QED
      BY <2>2, <2>3
  <1>12. ASSUME mode = "dump" PROVE PilesCounted'
    <2>1. /\ \A t \in Interior \ {cursor} :
               Met(t) <=> t \in DOMAIN counts /\ counts[t] > 0
          /\ Met(cursor) <=> cursor \in DOMAIN counts \/ dumped_total > 0
          /\ cursor \in DOMAIN counts => counts[cursor] > 0
      BY <1>2, <1>12 DEF PilesCounted
    <2>2. CASE n = 0 /\ now = pos /\ dumped_total' = dumped_total
      <3>1. counts'[pos] > 0
        BY <1>4, <1>6, <2>2
      <3>2. \A t \in Interior \ {cursor} :
              Met(t)' <=> t \in DOMAIN counts' /\ counts'[t] > 0
        <4> SUFFICES ASSUME NEW t \in Interior \ {cursor}
                     PROVE  Met(t)' <=> t \in DOMAIN counts' /\ counts'[t] > 0
          OBVIOUS
        <4>1. CASE t = pos
          BY <1>4, <1>5, <2>2, <3>1, <4>1
        <4>2. CASE t # pos
          BY <1>4, <1>5, <2>1, <2>2, <4>2
        <4> QED
          BY <4>1, <4>2
      <3>3. \A t : t = cursor =>
              (Met(t)' <=> t \in DOMAIN counts' \/ dumped_total' > 0)
        BY <1>4, <1>5, <2>1, <2>2
      <3>4. cursor \in DOMAIN counts' => counts'[cursor] > 0
        BY <1>4, <2>1, <3>1
      <3> QED
        BY <1>1, <3>2, <3>3, <3>4 DEF PilesCounted, Met
    <2>3. CASE n = 1 /\ now = cursor /\ pos # cursor /\ dumped_total' > 0
      <3>1. counts'[pos] = met
        BY <1>4, <1>6, <2>3
      <3>2. \A t \in Interior \ {cursor} :
              Met(t)' <=> t \in DOMAIN counts' /\ counts'[t] > 0
        <4> SUFFICES ASSUME NEW t \in Interior \ {cursor}
                     PROVE  Met(t)' <=> t \in DOMAIN counts' /\ counts'[t] > 0
          OBVIOUS
        <4>1. CASE t = pos
          BY <1>4, <1>5, <1>6, <2>1, <2>3, <3>1, <4>1
        <4>2. CASE t # pos
          BY <1>4, <1>5, <2>1, <2>3, <4>2
        <4> QED
          BY <4>1, <4>2
      <3>3. dumped_total' > 0 /\ \A t : t = cursor => Met(t)'
        BY <1>5, <2>3
      <3>4. cursor \in DOMAIN counts' => counts'[cursor] > 0
        BY <1>4, <2>1, <2>3
      <3> QED
        BY <1>1, <3>2, <3>3, <3>4 DEF PilesCounted, Met
    <2> QED
      BY <1>12, <2>2, <2>3 DEF pos
  <1> QED
    BY <1>1, <1>8, <1>9, <1>10, <1>11, <1>12 DEF ItemInv

\* autodump passes over an item.
LEMMA ItemKept ==
    ASSUME IInv, ItemInv, tool = "autodump", NEW i \in Items, KeepItem(i)
    PROVE  ItemInv'
  <1>1. ItemsType /\ cursor \in Interior
    BY DEF ItemInv, IInv, KeepItem, NextItem
  <1>2. items' = items \/ items' = [items EXCEPT ![i].dump = FALSE]
    BY DEF KeepItem
  <1>3. ItemAt(i, items[i].pos, items[i].pos)
    BY <1>1, <1>2, ItemsMove DEF ItemsType
  <1>4. /\ i \in rest /\ NextItem(i) /\ counts' = Count(items[i].pos, 0)
        /\ dumped_total' = dumped_total /\ dumped_total \in Nat
    BY <1>1 DEF KeepItem, NextItem, ItemsType
  <1> PICK now : now = items[i].pos
    OBVIOUS
  <1> QED
    BY <1>3, <1>4, ItemLooked

\* autodump moves an item to the cursor.
LEMMA ItemDumped ==
    ASSUME IInv, ItemInv, tool = "autodump", NEW i \in Items, DumpItem(i)
    PROVE  ItemInv'
  <1>1. ItemsType /\ cursor \in Interior
    BY DEF ItemInv, IInv, DumpItem, NextItem
  <1>2. ItemAt(i, items[i].pos, cursor)
    BY <1>1, ItemsMove DEF ItemsType, DumpItem
  <1>3. /\ i \in rest /\ NextItem(i) /\ counts' = Count(items[i].pos, 1)
        /\ mode = "dump" /\ items[i].pos # cursor
        /\ dumped_total' = dumped_total + 1 /\ dumped_total \in Nat
    BY <1>1 DEF DumpItem, NextItem, ItemsType
  <1>4. dumped_total' \in Nat /\ dumped_total' > 0
    BY <1>3
  <1> QED
    BY <1>2, <1>3, <1>4, ItemLooked

\* autodump marks an item to be destroyed.
LEMMA ItemDestroyed ==
    ASSUME IInv, ItemInv, tool = "autodump", NEW i \in Items, DestroyItem(i)
    PROVE  ItemInv'
  <1>1. ItemsType /\ cursor \in Interior
    BY DEF ItemInv, IInv, DestroyItem, NextItem
  <1>2. ItemAt(i, items[i].pos, items[i].pos)
    BY <1>1, ItemsMove DEF ItemsType, DestroyItem
  <1>3. /\ i \in rest /\ NextItem(i) /\ counts' = Count(items[i].pos, 1)
        /\ mode # "dump" /\ dumped_total' \in Nat
    BY <1>1 DEF DestroyItem, NextItem, ItemsType
  <1> PICK now : now = items[i].pos
    OBVIOUS
  <1> QED
    BY <1>2, <1>3, ItemLooked

\* What a step of autodump sets in a tile, the tool sees there.
LEMMA BitSet ==
    ASSUME IInv, ItemInv, tool = "autodump", NEW t \in Interior, NEW on \in BOOLEAN,
           cache' = SetOccupancyAt(cache, t, on), UNCHANGED mapVars
    PROVE  /\ View'[t].item = on
           /\ \A u \in Interior \ {t} : View'[u] = View[u]
  <1>1. t \in Tiles /\ TestCoord(t)
    BY InteriorPlace DEF ItemInv
  <1> DEFINE v == [View[t] EXCEPT !.item = on]
  <1>2. Sets(cache, cache', t, v)
    BY <1>1, SetOccupancyGood, ViewValues DEF IInv, CacheInv
  <1>3. v \in Values /\ v.shape = View[t].shape
    BY <1>1, ViewValues DEF IInv
  <1>4. v.item = on
    BY <1>1, ViewValues DEF IInv, Values
  <1> HIDE DEF v
  <1>5. View' = Seen(View, t, v)
    BY <1>1, <1>2, <1>3, SetStep DEF IInv
  <1>6. DOMAIN View = Tiles
    BY DEF View
  <1> QED
    BY <1>1, <1>4, <1>5, <1>6, InteriorPlace DEF Seen

\* A pile that was taken away is at no tile where an item was met.
LEMMA PileCleared ==
    ASSUME IInv, ItemInv, tool = "autodump", NEW t \in Interior, ClearPile(t)
    PROVE  ItemInv'
  <1>1. /\ at = "piles" /\ at' = at /\ tool' = tool /\ mode' = mode /\ cursor' = cursor
        /\ present' = present /\ items' = items /\ rest' = rest
        /\ dumped_total' = dumped_total /\ map' = map
        /\ t \in DOMAIN counts /\ counts[t] = 0
        /\ counts' = [u \in DOMAIN counts \ {t} |-> counts[u]]
    BY DEF ClearPile, mapVars, itemVars, Restrict
  <1>2. /\ ItemsType /\ \A u \in Interior : TestCoord(u)
        /\ mode = "dump" /\ PilesCounted /\ BitsToClear /\ rest = {}
    BY <1>1 DEF ItemInv
  <1>3. ~View'[t].item /\ \A u \in Interior \ {t} : View'[u] = View[u]
    BY BitSet DEF ClearPile
  <1>4. /\ DOMAIN counts' = DOMAIN counts \ {t}
        /\ \A u \in DOMAIN counts' : counts'[u] = counts[u]
    BY <1>1
  <1>5. ItemsType'
    BY <1>1, <1>2, <1>4 DEF ItemsType
  <1>6. \A u \in Interior : TestCoord(u)'
    BY <1>1, <1>2 DEF TestCoord
  <1>7. BitsToClear'
    BY <1>1, <1>2, <1>3, <1>4 DEF BitsToClear
  <1>8. PilesCounted'
    <2>1. \A u : Met(u)' <=> Met(u)
      BY <1>1 DEF Met
    <2>2. t # cursor
      BY <1>1, <1>2 DEF PilesCounted
    <2>3. \A u \in Interior \ {cursor} :
            Met(u)' <=> u \in DOMAIN counts' /\ counts'[u] > 0
      BY <1>1, <1>2, <1>4, <2>1 DEF PilesCounted
    <2>4. \A u : u = cursor => (Met(u)' <=> u \in DOMAIN counts' \/ dumped_total' > 0)
      BY <1>1, <1>2, <1>4, <2>1, <2>2 DEF PilesCounted
    <2>5. cursor \in DOMAIN counts' => counts'[cursor] > 0
      BY <1>2, <1>4 DEF PilesCounted
    <2> QED
      BY <1>1, <2>3, <2>4, <2>5 DEF PilesCounted, Met
  <1> QED
    BY <1>1, <1>2, <1>5, <1>6, <1>7, <1>8 DEF ItemInv

\* The piles that are left are where items lie.
LEMMA TargetMarked ==
    ASSUME IInv, ItemInv, tool = "autodump", MarkTarget PROVE ItemInv'
  <1>1. /\ at = "piles" /\ at' = "write" /\ tool' = tool /\ mode' = mode
        /\ cursor' = cursor /\ present' = present /\ map' = map
        /\ items' = items /\ rest' = rest /\ dumped_total' = dumped_total
        /\ counts' = counts /\ \A t \in DOMAIN counts : counts[t] # 0
    BY DEF MarkTarget, mapVars, itemVars
  <1>2. /\ ItemsType /\ \A u \in Interior : TestCoord(u)
        /\ mode = "dump" /\ PilesCounted /\ BitsToClear /\ rest = {}
        /\ cursor \in Interior
    BY <1>1 DEF ItemInv, IInv
  <1>3. \A t : Lying(t) # {} <=> Met(t)
    BY <1>2 DEF Lying, Met
  <1>4. \A t : (Lying(t) # {})' <=> Lying(t) # {}
    BY <1>1 DEF Lying
  <1>5. \A t \in Interior \ {cursor} : View[t].item <=> Lying(t) # {}
    <2> SUFFICES ASSUME NEW t \in Interior \ {cursor}
                 PROVE  View[t].item <=> Met(t)
      BY <1>3
    <2>1. View[t].item <=> t \in DOMAIN counts
      BY <1>2 DEF BitsToClear
    <2>2. t \in DOMAIN counts => counts[t] \in Nat /\ counts[t] # 0
      BY <1>1, <1>2 DEF ItemsType
    <2>3. t \in DOMAIN counts => counts[t] > 0
      BY <2>2
    <2>4. Met(t) <=> t \in DOMAIN counts /\ counts[t] > 0
      BY <1>2 DEF PilesCounted
    <2> QED
      BY <2>1, <2>3, <2>4
  <1>6. ViewExact'
    <2>1. CASE dumped_total > 0
      <3>1. cache' = SetOccupancyAt(cache, cursor, TRUE) /\ UNCHANGED mapVars
        BY <2>1 DEF MarkTarget
      <3>2. /\ View'[cursor].item
            /\ \A u \in Interior \ {cursor} : View'[u] = View[u]
        BY <1>2, <3>1, BitSet
      <3>3. Lying(cursor) # {}
        BY <1>2, <1>3, <2>1 DEF PilesCounted
      <3> QED
        BY <1>4, <1>5, <3>2, <3>3 DEF ViewExact
    <2>2. CASE ~(dumped_total > 0)
      <3>1. View' = View
        BY <2>2, SameStep DEF IInv, MarkTarget
      <3>2. View[cursor].item <=> cursor \in DOMAIN counts
        BY <1>2 DEF BitsToClear
      <3>3. Lying(cursor) # {} <=> cursor \in DOMAIN counts
        BY <1>2, <1>3, <2>2 DEF PilesCounted
      <3> QED
        BY <1>4, <1>5, <3>1, <3>2, <3>3 DEF ViewExact
    <2> QED
      BY <2>1, <2>2
  <1>7. ItemsType'
    BY <1>1, <1>2 DEF ItemsType
  <1>8. \A u \in Interior : TestCoord(u)'
    BY <1>1, <1>2 DEF TestCoord
  <1> QED
    BY <1>1, <1>2, <1>6, <1>7, <1>8 DEF ItemInv

\* WriteAll: the bits that were changed reach the map.
LEMMA ItemsWritten ==
    ASSUME IInv, ItemInv, tool = "autodump", WriteBack PROVE ItemInv'
  <1>1. /\ at = "write" /\ at' = "delete" /\ tool' = tool /\ mode' = mode
        /\ cursor' = cursor /\ present' = present /\ counts' = counts
        /\ items' = items /\ rest' = rest /\ dumped_total' = dumped_total
    BY DEF WriteBack, itemVars
  <1>2. ItemsType /\ (\A u \in Interior : TestCoord(u)) /\ mode = "dump" /\ ViewExact
    BY <1>1 DEF ItemInv
  <1>3. map' = View
    <2>1. WrittenBlockflags(cache) \in [Blocks -> SUBSET Flags]
      BY WrittenMarked DEF IInv, CacheInv
    <2>2. blockflags' \in [Blocks -> SUBSET Flags]
      BY <2>1 DEF WriteBack, Flags
    <2> QED
      BY <2>2, WriteStep DEF IInv, WriteBack
  <1>4. \A t : (Lying(t) # {})' <=> Lying(t) # {}
    BY <1>1 DEF Lying
  <1>5. MapExact'
    BY <1>2, <1>3, <1>4 DEF MapExact, ViewExact
  <1>6. ItemsType' /\ \A u \in Interior : TestCoord(u)'
    BY <1>1, <1>2 DEF ItemsType, TestCoord
  <1> QED
    BY <1>1, <1>2, <1>5, <1>6 DEF ItemInv

\* The steps that leave the items alone, and what the tool sees or the map.
LEMMA ItemsLeft ==
    ASSUME IInv, ItemInv, tool = "autodump",
           Autodump \/ ItemsDone \/ Delete \/ UNCHANGED vars
    PROVE  ItemInv'
  <1>1. /\ UNCHANGED <<mapVars, map, present, cursor, counts, itemVars>>
        /\ items' = items /\ rest' = rest /\ dumped_total' = dumped_total
        /\ tool' = tool /\ mode' = mode
    BY DEF Autodump, ItemsDone, Delete, vars, itemVars, mapVars
  <1>2. CASE Delete
    <2>1. at = "delete" /\ at' = "done"
      BY <1>2 DEF Delete
    <2>2. ItemsType' /\ (\A u \in Interior : TestCoord(u)') /\ MapExact'
      <3>1. \A t : (Lying(t) # {})' <=> Lying(t) # {}
        BY <1>1 DEF Lying
      <3> QED
        BY <1>1, <2>1, <3>1 DEF ItemInv, ItemsType, TestCoord, MapExact
    <2> QED
      BY <1>1, <2>1, <2>2 DEF ItemInv
  <1>3. CASE ~Delete
    <2>1. cache' = Load(cache, cursor) \/ cache' = cache
      BY <1>3 DEF Autodump, ItemsDone, vars
    <2>2. View' = View
      BY <1>1, <2>1, LoadStep, SameStep DEF IInv
    <2>3. /\ ItemsType => ItemsType'
          /\ \A t : TestCoord(t)' <=> TestCoord(t)
          /\ MapExact' <=> MapExact
          /\ PilesCounted => PilesCounted'
          /\ BitsToClear => BitsToClear'
          /\ ViewExact => ViewExact'
      BY <1>1, <2>2, ItemSame
    <2>4. CASE Autodump
      <3>1. /\ at = "autodump" /\ at' \in {"items", "delete"}
            /\ mode # "dump" => at' = "items"
        BY <2>4 DEF Autodump
      <3> QED
        BY <1>1, <2>3, <3>1 DEF ItemInv
    <2>5. CASE ItemsDone
      <3>1. /\ at = "items" /\ rest = {}
            /\ at' = IF mode = "dump" THEN "piles" ELSE "delete"
        BY <2>5 DEF ItemsDone
      <3> QED
        BY <1>1, <2>3, <3>1 DEF ItemInv
    <2>6. CASE UNCHANGED vars
      <3>1. at' = at
        BY <2>6 DEF vars
      <3> QED
        BY <1>1, <2>3, <3>1 DEF ItemInv
    <2> QED
      BY <1>3, <2>4, <2>5, <2>6
  <1> QED
    BY <1>2, <1>3

\* Every step keeps the item invariant.
LEMMA ItemNext ==
    ASSUME IInv, ItemInv, [Next]_vars PROVE ItemInv'
  <1>1. tool' = tool
    BY DEF Next, PaintNext, PaintTile, PaintFlags, Paint, PaintWrites, PaintGivesUp,
           RevfloodNext, Revflood, SkipTile, FloodTile, FloodDone, WriteBack, Delete,
           AutodumpNext, Autodump, ItemsDone, MarkTarget, KeepItem, DumpItem,
           DestroyItem, NextItem, ClearPile, vars
  <1> SUFFICES ASSUME tool = "autodump" PROVE ItemInv'
    BY <1>1 DEF ItemInv
  <1>2. at \in {"autodump", "items", "piles", "write", "delete", "done"}
    BY DEF ItemInv
  <1>3. ~PaintNext /\ ~Revflood /\ ~SkipTile /\ ~FloodTile /\ ~FloodDone
    BY <1>2 DEF PaintNext, PaintTile, PaintFlags, Paint, PaintWrites, PaintGivesUp,
                Revflood, SkipTile, FloodTile, FloodDone
  <1>4. CASE WriteBack
    BY <1>4, ItemsWritten
  <1>5. CASE Autodump \/ ItemsDone \/ Delete \/ UNCHANGED vars
    BY <1>5, ItemsLeft
  <1>6. CASE MarkTarget
    BY <1>6, TargetMarked
  <1>7. ASSUME NEW i \in Items, KeepItem(i) \/ DumpItem(i) \/ DestroyItem(i)
        PROVE  ItemInv'
    BY <1>7, ItemKept, ItemDumped, ItemDestroyed
  <1>8. ASSUME NEW t \in Interior, ClearPile(t) PROVE ItemInv'
    BY <1>8, PileCleared
  <1> QED
    BY <1>3, <1>4, <1>5, <1>6, <1>7, <1>8 DEF Next, RevfloodNext, AutodumpNext

\* The piles are counted rightly through any order of items kept and taken away,
\* so the bits that are cleared are those of empty tiles (autodump_main).
THEOREM ItemBitsAreRight == Spec => []ItemBitExact
  <1>1. Init => IInv /\ ItemInv
    BY InitKeeps, ItemInit
  <1>2. (IInv /\ ItemInv) /\ [Next]_vars => (IInv /\ ItemInv)'
    BY NextKeeps, ItemNext DEF Kept
  <1>3. IInv /\ ItemInv => ItemBitExact
    BY DEF ItemInv, ItemBitExact, MapExact
  <1> QED
    BY <1>1, <1>2, <1>3, PTL DEF Spec
-----------------------------------------------------------------------------
(* The types.  No pile is counted above the number of items looked at, and *)
(* none is counted down below zero.                                        *)

CommandType ==
    /\ tool \in {"paint", "revflood", "autodump"}
    /\ at \in {"paint", "revflood", "flood", "autodump", "items", "piles",
               "write", "delete", "done"}
    /\ painted \in 0..MaxPaint
    /\ mode \in {"dump", "destroy", "destroy_here"}

PilesBounded ==
    /\ ItemsType
    /\ block_items \in [Blocks -> Seq(Items)]
    /\ \A t \in DOMAIN counts : counts[t] <= Cardinality(Items \ rest)
    /\ dumped_total <= Cardinality(Items \ rest)

\* std::remove leaves a vector of items one of items.
LEMMA RemovedType ==
    ASSUME NEW s \in Seq(Items), NEW i \in Items PROVE Removed(s, i) \in Seq(Items)
  <1>1. PICK d, n, m : d = Drop(s, {i}) /\ n = Len(s) /\ m = Len(d) + 1
    OBVIOUS
  <1>2. d \in Seq(Items) /\ Len(d) \in Nat
    BY <1>1, Dropped
  <1>3. n \in Nat /\ m \in Nat /\ m >= 1 /\ \A k \in 1 .. n : s[k] \in Items
    BY <1>1, <1>2
  <1>4. SubSeq(s, m, n) \in Seq(Items)
    BY <1>3
  <1>5. d \o SubSeq(s, m, n) \in Seq(Items)
    BY <1>2, <1>4
  <1>6. Removed(s, i) = d \o SubSeq(s, m, n)
    BY <1>1 DEF Removed
  <1> QED
    BY <1>5, <1>6

\* The items looked at are one more.
LEMMA LookedAtMore ==
    ASSUME rest \subseteq Items, NEW i \in rest, rest' = rest \ {i}
    PROVE  /\ Cardinality(Items \ rest) \in Nat
           /\ Cardinality(Items \ rest') = Cardinality(Items \ rest) + 1
  <1>1. PICK S : S = Items \ rest
    OBVIOUS
  <1>2. IsFiniteSet(S) /\ i \notin S /\ Items \ rest' = S \cup {i}
    BY <1>1, FS_Subset, MapToolsAssumption
  <1>3. Cardinality(S) \in Nat /\ Cardinality(S \cup {i}) = Cardinality(S) + 1
    BY <1>2, FS_CardinalityType, FS_AddElement
  <1> QED
    BY <1>1, <1>2, <1>3

\* An item moved leaves the vectors of the blocks vectors of items.
LEMMA MovedType ==
    ASSUME block_items \in [Blocks -> Seq(Items)], NEW i \in Items, NEW b, NEW c
    PROVE  MovedItem(i, b, c) \in [Blocks -> Seq(Items)]
  <1>1. \A s \in Seq(Items) : Removed(s, i) \in Seq(Items) /\ Append(s, i) \in Seq(Items)
    BY RemovedType
  <1>2. CASE b = c
    BY <1>2 DEF MovedItem
  <1>3. CASE b # c
    <2>1. PICK f : f = [block_items EXCEPT ![b] = Removed(@, i)]
      OBVIOUS
    <2>2. f \in [Blocks -> Seq(Items)]
      BY <1>1, <2>1
    <2>3. [f EXCEPT ![c] = Append(@, i)] \in [Blocks -> Seq(Items)]
      BY <1>1, <2>2
    <2>4. MovedItem(i, b, c) = [f EXCEPT ![c] = Append(@, i)]
      BY <1>3, <2>1 DEF MovedItem
    <2> QED
      BY <2>3, <2>4
  <1> QED
    BY <1>2, <1>3

\* Looking at an item keeps the bounds: at most one more is counted.
LEMMA BoundsLooked ==
    ASSUME PilesBounded, cursor \in Interior, NEW i \in Items,
           KeepItem(i) \/ DumpItem(i) \/ DestroyItem(i)
    PROVE  PilesBounded'
  <1>1. /\ ItemsType /\ i \in rest /\ rest' = rest \ {i} /\ rest \subseteq Items
        /\ block_items \in [Blocks -> Seq(Items)]
        /\ dumped_total' \in {dumped_total, dumped_total + 1} /\ dumped_total \in Nat
        /\ \A t \in DOMAIN counts : counts[t] \in Nat
        /\ DOMAIN counts \subseteq Interior /\ items \in [Items -> ItemStates]
    BY DEF PilesBounded, ItemsType, KeepItem, DumpItem, DestroyItem, NextItem
  <1>2. items[i].pos \in Interior /\ items' \in [Items -> ItemStates]
    <2>1. \/ items' = items \/ items' = [items EXCEPT ![i].dump = FALSE]
          \/ items' = [items EXCEPT ![i].garbage = TRUE]
          \/ items' = [items EXCEPT ![i].dump = FALSE, ![i].pos = cursor]
      BY DEF KeepItem, DumpItem, DestroyItem
    <2> QED
      BY <1>1, <2>1, ItemsMove DEF ItemAt
  <1>3. PICK t, n, d, N :
          /\ t = items[i].pos /\ n \in {0, 1} /\ d = counts' /\ d = Count(t, n)
          /\ N = Cardinality(Items \ rest)
    BY DEF KeepItem, DumpItem, DestroyItem
  <1>4. N \in Nat /\ Cardinality(Items \ rest') = N + 1
    BY <1>1, <1>3, LookedAtMore
  <1>5. t \in Interior
    BY <1>2, <1>3
  <1>6. /\ DOMAIN d = DOMAIN counts \cup {t}
        /\ \A u \in DOMAIN counts \ {t} : d[u] = counts[u]
        /\ d[t] = Counted(t) + (1 - n)
        /\ \A u \in DOMAIN d : d[u] \in Nat
    BY <1>1, <1>3, <1>5, CountFacts
  <1>7. \A u \in DOMAIN counts : counts[u] \in Nat /\ counts[u] <= N
    BY <1>1, <1>3 DEF PilesBounded
  <1>8. Counted(t) \in Nat /\ Counted(t) <= N
    BY <1>4, <1>7 DEF Counted
  <1>9. \A u \in DOMAIN d : d[u] <= N + 1
    <2> SUFFICES ASSUME NEW u \in DOMAIN d PROVE d[u] <= N + 1
      OBVIOUS
    <2>1. CASE u = t
      BY <1>3, <1>4, <1>6, <1>8, <2>1
    <2>2. CASE u # t
      BY <1>4, <1>6, <1>7, <2>2
    <2> QED
      BY <2>1, <2>2
  <1>10. dumped_total' \in Nat /\ dumped_total' <= N + 1
    BY <1>1, <1>3, <1>4 DEF PilesBounded
  <1>11. block_items' \in [Blocks -> Seq(Items)]
    <2>1. \/ block_items' = block_items
          \/ block_items' = MovedItem(i, BlockOf(items[i].pos), BlockOf(cursor))
      BY DEF KeepItem, DumpItem, DestroyItem
    <2> QED
      BY <1>1, <2>1, MovedType
  <1>12. DOMAIN counts' \subseteq Interior /\ \A u \in DOMAIN counts' : counts'[u] \in Nat
    BY <1>1, <1>3, <1>5, <1>6
  <1>13. ItemsType'
    BY <1>1, <1>2, <1>10, <1>12 DEF ItemsType
  <1> QED
    BY <1>3, <1>4, <1>9, <1>10, <1>11, <1>13 DEF PilesBounded

\* Every step keeps the bounds.
LEMMA BoundsNext ==
    ASSUME PilesBounded, cursor \in Interior, [Next]_vars PROVE PilesBounded'
  <1>1. CASE UNCHANGED <<counts, itemVars>>
    BY <1>1 DEF itemVars, PilesBounded, ItemsType
  <1>2. CASE \E i \in Items : KeepItem(i) \/ DumpItem(i) \/ DestroyItem(i)
    BY <1>2, BoundsLooked
  <1>3. CASE \E t \in Interior : ClearPile(t)
    <2>1. PICK t \in Interior : counts' = [u \in DOMAIN counts \ {t} |-> counts[u]]
      BY <1>3 DEF ClearPile, Restrict
    <2>2. /\ items' = items /\ rest' = rest /\ dumped_total' = dumped_total
          /\ block_items' = block_items
      BY <1>3 DEF ClearPile, itemVars
    <2>3. /\ DOMAIN counts' = DOMAIN counts \ {t}
          /\ \A u \in DOMAIN counts' : counts'[u] = counts[u]
      BY <2>1
    <2> QED
      BY <2>2, <2>3 DEF PilesBounded, ItemsType
  <1>4. \/ UNCHANGED <<counts, itemVars>>
        \/ \E i \in Items : KeepItem(i) \/ DumpItem(i) \/ DestroyItem(i)
        \/ \E t \in Interior : ClearPile(t)
    BY DEF Next, PaintNext, PaintTile, PaintFlags, Paint, PaintWrites, PaintGivesUp,
           RevfloodNext, Revflood, SkipTile, FloodTile, FloodDone, WriteBack, Delete,
           AutodumpNext, Autodump, ItemsDone, MarkTarget, vars
  <1> QED
    BY <1>1, <1>2, <1>3, <1>4

\* Every step keeps the types of the command's own state.
LEMMA CommandNext ==
    ASSUME CommandType, [Next]_vars PROVE CommandType'
  <1>1. MaxPaint \in Nat
    BY MapToolsAssumption
  <1>2. tool' = tool /\ mode' = mode
    BY DEF Next, PaintNext, PaintTile, PaintFlags, Paint, PaintWrites, PaintGivesUp,
           RevfloodNext, Revflood, SkipTile, FloodTile, FloodDone, WriteBack, Delete,
           AutodumpNext, Autodump, ItemsDone, MarkTarget, KeepItem, DumpItem,
           DestroyItem, NextItem, ClearPile, vars
  <1>3. at' \in {at, "paint", "delete", "done", "flood", "write", "items", "piles"}
    BY DEF Next, PaintNext, PaintTile, PaintFlags, Paint, PaintWrites, PaintGivesUp,
           RevfloodNext, Revflood, SkipTile, FloodTile, FloodDone, WriteBack, Delete,
           AutodumpNext, Autodump, ItemsDone, MarkTarget, KeepItem, DumpItem,
           DestroyItem, NextItem, ClearPile, vars
  <1>4. painted' = painted \/ (painted < MaxPaint /\ painted' = painted + 1)
    BY DEF Next, PaintNext, PaintTile, PaintFlags, Paint, PaintWrites, PaintGivesUp,
           RevfloodNext, Revflood, SkipTile, FloodTile, FloodDone, WriteBack, Delete,
           AutodumpNext, Autodump, ItemsDone, MarkTarget, KeepItem, DumpItem,
           DestroyItem, NextItem, ClearPile, vars
  <1>5. painted' \in 0..MaxPaint
    BY <1>1, <1>4 DEF CommandType
  <1> QED
    BY <1>2, <1>3, <1>5 DEF CommandType

\* The list of items of a block that a command finds.
LEMMA AscendingItems ==
    ASSUME NEW S \in SUBSET Items PROVE Ascending(S) \in Seq(Items)
  <1>1. Items \subseteq Nat /\ IsFiniteSet(Items)
    BY MapToolsAssumption
  <1>2. S \in SUBSET Int
    BY <1>1
  <1>3. IsFiniteSet(S)
    BY <1>1, FS_Subset
  <1>4. PICK s, n : s = Ascending(S) /\ n = Len(s)
    OBVIOUS
  <1>5. s \in Seq(S)
    BY <1>2, <1>3, <1>4, AscendingList
  <1>6. n \in Nat /\ s = [k \in 1 .. n |-> s[k]] /\ \A k \in 1 .. n : s[k] \in S
    BY <1>4, <1>5
  <1>7. s \in Seq(Items)
    BY <1>6
  <1> QED
    BY <1>4, <1>7

\* A command starts with nothing counted.
LEMMA TypesInit == ASSUME Init PROVE CommandType /\ PilesBounded
  <1>1. /\ tool \in {"paint", "revflood", "autodump"} /\ at = tool /\ painted = 0
        /\ mode \in {"dump", "destroy", "destroy_here"} /\ cursor \in Interior
        /\ counts = <<>> /\ dumped_total = 0 /\ rest \subseteq Items
    BY DEF Init, InitRevflood, InitPaint, InitAutodump, Start, NoItems
  <1>2. CommandType
    BY <1>1, MapToolsAssumption DEF CommandType
  <1>3. items \in [Items -> ItemStates]
    <2>1. CASE NoItems
      BY <1>1, <2>1 DEF NoItems, ItemStates
    <2>2. CASE InitAutodump
      BY <2>2 DEF InitAutodump
    <2> QED
      BY <2>1, <2>2 DEF Init, InitRevflood, InitPaint
  <1>4. block_items \in [Blocks -> Seq(Items)]
    <2>1. CASE NoItems
      BY <2>1 DEF NoItems
    <2>2. CASE InitAutodump
      <3>1. ASSUME NEW b \in Blocks, NEW S, S = {i \in Items : BlockOf(items[i].pos) = b}
            PROVE  Ascending(S) \in Seq(Items)
        <4>1. S \in SUBSET Items
          BY <3>1
        <4> QED
          BY <4>1, AscendingItems
      <3>2. block_items = [b \in Blocks |->
              Ascending({i \in Items : BlockOf(items[i].pos) = b})]
        BY <2>2 DEF InitAutodump
      <3> QED
        BY <3>1, <3>2
    <2> QED
      BY <2>1, <2>2 DEF Init, InitRevflood, InitPaint
  <1>5. Cardinality(Items \ rest) \in Nat
    BY FS_Subset, FS_CardinalityType, MapToolsAssumption
  <1> QED
    BY <1>1, <1>2, <1>3, <1>4, <1>5 DEF PilesBounded, ItemsType

\* The state of the commands is of its type, whatever is painted, flooded or
\* dumped: the stack holds places, and the piles are counted within what there is.
THEOREM TypeCorrect == Spec => []TypeOK
  <1>1. Init => IInv /\ CommandType /\ PilesBounded
    BY InitKeeps, TypesInit
  <1>2. (IInv /\ CommandType /\ PilesBounded) /\ [Next]_vars
          => (IInv /\ CommandType /\ PilesBounded)'
    <2> SUFFICES ASSUME IInv, CommandType, PilesBounded, [Next]_vars
                 PROVE  IInv' /\ CommandType' /\ PilesBounded'
      OBVIOUS
    <2>1. cursor \in Interior
      BY DEF IInv
    <2> QED
      BY <2>1, NextKeeps, CommandNext, BoundsNext DEF Kept
  <1>3. IInv /\ CommandType /\ PilesBounded => TypeOK
    <2> SUFFICES ASSUME IInv, CommandType, PilesBounded PROVE TypeOK
      OBVIOUS
    <2>1. World /\ CachedBlocks(cache) /\ cursor \in Interior /\ flood \in Seq(Entries)
      BY GoodCacheType DEF IInv, CacheInv
    <2>2. flood \in Seq((Int \X Int \X Int) \X BOOLEAN)
      <3>1. \A e \in Entries : e \in (Int \X Int \X Int) \X BOOLEAN
        BY DEF Entries
      <3> QED
        BY <2>1, <3>1
    <2>3. IsFiniteSet(Items) /\ rest \subseteq Items
      BY MapToolsAssumption DEF PilesBounded, ItemsType
    <2>4. PICK n, N : n = Cardinality(Items \ rest) /\ N = Cardinality(Items)
      OBVIOUS
    <2>5. n \in Nat /\ N \in Nat /\ n <= N
      <3>1. Items \ rest \in SUBSET Items
        OBVIOUS
      <3> QED
        BY <2>3, <2>4, <3>1, FS_Subset, FS_CardinalityType
    <2>6. /\ \A t \in DOMAIN counts : counts[t] \in 0..N
          /\ dumped_total \in 0..N
      BY <2>4, <2>5 DEF PilesBounded, ItemsType
    <2>7. /\ items \in [Items -> ItemStates] /\ rest \subseteq Items
          /\ block_items \in [Blocks -> Seq(Items)] /\ DOMAIN counts \subseteq Interior
      BY DEF PilesBounded, ItemsType
    <2> QED
      BY <2>1, <2>2, <2>4, <2>6, <2>7 DEF TypeOK, World, CommandType
  <1> QED
    BY <1>1, <1>2, <1>3, PTL DEF Spec
=============================================================================
