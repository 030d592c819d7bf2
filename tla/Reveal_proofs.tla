---------------------------- MODULE Reveal_proofs ----------------------------
(***************************************************************************)
(* Reveal, for any number of threads and of worlds, and any maps: its      *)
(* types, with what it saves bounded; HellStaysPaused; and that what is    *)
(* saved is what has been found, in the world that is loaded and in those  *)
(* that were left, but for the spoiled ones.                               *)
(***************************************************************************)
EXTENDS Reveal, FiniteSetTheorems, SequenceTheorems, NaturalsInduction,
        WellFoundedInduction, TLAPS

\* at is a function on the threads.
Functional == at = [t \in Threads |-> at[t]]

\* A thread past the test that finds the map revealed by another, or that is
\* not alone there, has raced.
Alone ==
    /\ \A t \in Threads : Revealing(t) /\ revealed # "NOT_REVEALED" => t \in raced
    /\ \A t, u \in Threads :
         t # u /\ Revealing(t) /\ Revealing(u) => t \in raced

\* Hell lies open only while the pause is forced, in the world that is loaded
\* and in those that were left, of which it is none.
Forced ==
    /\ world \notin DOMAIN left
    /\ opened /\ world \notin spoiled => revealed = "REVEALED"
    /\ \A w \in DOMAIN left : left[w].opened => revealed = "REVEALED"

IInv ==
    /\ Functional
    /\ Alone
    /\ Forced

\* A thread that goes elsewhere than past the test leaves nobody else there.
LEMMA Leaves ==
    ASSUME Functional, NEW t \in Threads, NEW where, Goto(t, where),
           where[1] # "revealing"
    PROVE  /\ Functional'
           /\ \A u \in Threads : Revealing(u)' => Revealing(u)
           /\ ~Revealing(t)'
  <1>1. Functional'
    BY DEF Functional, Goto
  <1>2. \A u \in Threads : at'[u] = IF u = t THEN where ELSE at[u]
    BY DEF Functional, Goto
  <1>3. \A u \in Threads : Revealing(u)' => Revealing(u)
    BY <1>2 DEF Revealing
  <1>4. ~Revealing(t)'
    BY <1>2 DEF Revealing
  <1> QED
    BY <1>1, <1>3, <1>4

\* Init establishes the invariant.
LEMMA IInvInit == Init => IInv
  <1> SUFFICES ASSUME Init PROVE IInv
    OBVIOUS
  <1>1. Functional
    BY DEF Init, Functional
  <1>2. \A t \in Threads : ~Revealing(t)
    BY DEF Init, Revealing, Idle
  <1>3. DOMAIN left = {}
    BY DEF Init
  <1> QED
    BY <1>1, <1>2, <1>3 DEF Init, IInv, Alone, Forced

\* Steps that leave the plugin's state, the worlds and the places of threads
\* alone.
LEMMA OthersKeep ==
    ASSUME IInv, UNCHANGED <<at, world, revealed, auxVars>>
    PROVE  IInv'
  <1>1. \A t \in Threads : Revealing(t)' <=> Revealing(t)
    BY DEF Revealing
  <1>2. UNCHANGED <<at, world, revealed, opened, left, spoiled, raced>>
    BY DEF auxVars, worldVars
  <1> QED
    BY <1>1, <1>2 DEF IInv, Functional, Alone, Forced

\* Steps of a thread that goes elsewhere than past the test.
LEMMA LeavingKeeps ==
    ASSUME IInv, NEW t \in Threads, NEW where, Goto(t, where),
           where[1] # "revealing", raced \ {t} \subseteq raced',
           UNCHANGED <<world, revealed, worldVars>>
    PROVE  IInv'
  <1>1. /\ Functional' /\ ~Revealing(t)'
        /\ \A u \in Threads : Revealing(u)' => Revealing(u)
    BY Leaves DEF IInv
  <1>2. UNCHANGED <<world, revealed, opened, left, spoiled>>
    BY DEF worldVars
  <1>3. Alone'
    BY <1>1, <1>2 DEF IInv, Alone
  <1>4. Forced'
    BY <1>2 DEF IInv, Forced
  <1> QED
    BY <1>1, <1>3, <1>4 DEF IInv

\* reveal's test, of a thread that may go past it.
LEMMA TestKeeps ==
    ASSUME IInv, NEW t \in Threads, RevealTest(t)
    PROVE  IInv'
  <1>1. CASE revealed # "NOT_REVEALED"
    BY <1>1, LeavingKeeps DEF RevealTest, Idle, saveVars, gameVars
  <1>2. CASE revealed = "NOT_REVEALED"
    <2> DEFINE others == {u \in Threads \ {t} : Revealing(u)}
    <2>1. /\ Goto(t, <<"revealing", at[t][2]>>)
          /\ raced' = IF others = {} THEN raced ELSE raced \cup others \cup {t}
          /\ UNCHANGED <<world, revealed, opened, left, spoiled>>
      BY <1>2 DEF RevealTest, Pass, saveVars, gameVars, worldVars
    <2>2. Functional'
      BY <2>1 DEF Goto, IInv, Functional
    <2>3. \A u \in Threads : u # t => (Revealing(u)' <=> Revealing(u))
      BY <2>1 DEF Goto, IInv, Functional, Revealing
    <2>4. raced \subseteq raced'
      BY <2>1
    <2>5. ASSUME NEW u \in Threads, NEW v \in Threads, u # v,
                 Revealing(u)', Revealing(v)'
          PROVE  u \in raced'
      <3>1. CASE u # t /\ v # t
        BY <2>3, <2>4, <2>5, <3>1 DEF IInv, Alone
      <3>2. CASE u = t
        <4>1. v \in others
          BY <2>3, <2>5, <3>2
        <4> QED
          BY <2>1, <3>2, <4>1
      <3>3. CASE v = t
        <4>1. u \in others
          BY <2>3, <2>5, <3>3
        <4> QED
          BY <2>1, <4>1
      <3> QED
        BY <3>1, <3>2, <3>3
    <2> HIDE DEF others
    <2>6. Alone'
      BY <1>2, <2>1, <2>5 DEF Alone
    <2>7. Forced'
      BY <2>1 DEF IInv, Forced
    <2> QED
      BY <2>2, <2>6, <2>7 DEF IInv
  <1> QED
    BY <1>1, <1>2

\* Nothing is left of the worlds left.
LEMMA SpoilKeeps ==
    ASSUME IInv, NEW W, Spoil(W),
           opened' /\ world' \notin spoiled' => revealed' = "REVEALED"
    PROVE  Forced'
  <1>1. DOMAIN left' = {}
    BY DEF Spoil
  <1> QED
    BY <1>1 DEF Forced

\* reveal, once it has the game.
LEMMA RevealKeeps ==
    ASSUME IInv, NEW t \in Threads, NEW how \in Hows, Reveal(t, how)
    PROVE  IInv'
  <1>1. /\ Functional' /\ ~Revealing(t)'
        /\ \A u \in Threads : Revealing(u)' => Revealing(u)
    BY Leaves DEF Reveal, Idle, IInv
  <1>2. /\ Revealing(t) /\ raced' = raced \ {t} /\ world' = world
        /\ opened' = (opened \/ how = "hell")
        /\ how = "hell" => revealed' = "REVEALED"
    BY DEF Reveal, Revealing
  <1>3. Alone'
    BY <1>1, <1>2 DEF IInv, Alone
  <1>4. CASE revealed # "NOT_REVEALED" /\ t \in raced
    <2>1. Spoil({world})
      BY <1>4 DEF Reveal
    <2>2. world' \in spoiled'
      BY <1>2, <2>1 DEF Spoil
    <2> QED
      BY <1>1, <1>3, <2>1, <2>2, SpoilKeeps DEF IInv
  <1>5. CASE ~(revealed # "NOT_REVEALED" /\ t \in raced)
    <2>1. left' = left /\ spoiled' = spoiled
      BY <1>5 DEF Reveal
    <2>2. revealed = "NOT_REVEALED"
      BY <1>2, <1>5 DEF IInv, Alone
    <2>3. Forced'
      BY <1>2, <2>1, <2>2 DEF IInv, Forced
    <2> QED
      BY <1>1, <1>3, <2>3 DEF IInv
  <1> QED
    BY <1>4, <1>5

\* unreveal, once it has the game.
LEMMA UnrevealKeeps ==
    ASSUME IInv, NEW t \in Threads, Unreveal(t)
    PROVE  IInv'
  <1>1. /\ Functional' /\ ~Revealing(t)'
        /\ \A u \in Threads : Revealing(u)' => Revealing(u)
    BY Leaves DEF Unreveal, Idle, IInv
  <1>2. /\ raced' = raced /\ revealed' = "NOT_REVEALED" /\ Spoil({})
        /\ opened' = (opened /\ world \in spoiled) /\ world' = world
    BY DEF Unreveal
  <1>3. opened' => world' \in spoiled'
    BY <1>2 DEF Spoil
  <1>4. Forced'
    BY <1>2, <1>3, SpoilKeeps
  <1> QED
    BY <1>1, <1>2, <1>4 DEF IInv, Alone

\* The plugin loaded again.
LEMMA ReloadKeeps ==
    ASSUME IInv, Reload
    PROVE  IInv'
  <1>1. \A t \in Threads : ~Revealing(t)'
    BY DEF Reload, Revealing, Idle
  <1>2. Functional'
    BY DEF Reload, IInv, Functional
  <1>3. /\ opened' = opened /\ world' = world
        /\ Spoil({w \in {world} : opened \/ before # <<>>})
    BY DEF Reload, gameVars
  <1>4. opened' => world' \in spoiled'
    BY <1>3 DEF Spoil
  <1>5. Forced'
    BY <1>3, <1>4, SpoilKeeps
  <1> QED
    BY <1>1, <1>2, <1>5 DEF IInv, Alone

\* Another world is entered.
LEMMA EnteringKeeps ==
    ASSUME IInv, NEW w \in Worlds, EnterAnother(w),
           opened' => w \in DOMAIN left /\ left[w].opened
    PROVE  IInv'
  <1>1. /\ UNCHANGED <<at, revealed, spoiled, raced>>
        /\ left' = [v \in (DOMAIN left \cup {u \in {world} : Shows}) \ {w} |->
                      IF v = world THEN Here ELSE left[v]]
    BY DEF EnterAnother, saveVars
  <1>2. Functional' /\ Alone'
    BY <1>1 DEF IInv, Functional, Alone, Revealing
  <1>3. ASSUME NEW v \in DOMAIN left', left'[v].opened
        PROVE  revealed' = "REVEALED"
    <2>1. CASE v = world
      <3>1. Shows
        BY <1>1, <2>1 DEF IInv, Forced
      <3>2. left'[v] = Here
        BY <1>1, <2>1
      <3>3. opened
        BY <1>3, <3>2 DEF Here
      <3> QED
        BY <1>1, <3>1, <3>3 DEF IInv, Forced, Shows
    <2>2. CASE v # world
      <3>1. v \in DOMAIN left /\ left'[v] = left[v]
        BY <1>1, <2>2
      <3> QED
        BY <1>1, <1>3, <3>1 DEF IInv, Forced
    <2> QED
      BY <2>1, <2>2
  <1>4. opened' => revealed' = "REVEALED"
    BY <1>1 DEF IInv, Forced
  <1>5. world' \notin DOMAIN left'
    BY <1>1 DEF EnterAnother
  <1>6. Forced'
    BY <1>3, <1>4, <1>5 DEF Forced
  <1> QED
    BY <1>2, <1>6 DEF IInv

\* A step of a command keeps the invariant.
LEMMA CommandKeeps ==
    ASSUME IInv, NEW t \in Threads, CommandNext(t)
    PROVE  IInv'
  <1>1. CASE \E on \in BOOLEAN : Nopause(t, on)
    BY <1>1, OthersKeep DEF Nopause, gameVars, saveVars
  <1>2. CASE \E how \in Hows : RevealCmd(t, how)
    BY <1>2, LeavingKeeps DEF RevealCmd, Call, gameVars, saveVars, auxVars
  <1>3. CASE \E how \in Hows : Revtoggle(t, how)
    <2>1. PICK where : Call(t, where) /\ where[1] # "revealing"
      BY <1>3 DEF Revtoggle
    <2> QED
      BY <2>1, LeavingKeeps DEF Call, gameVars, saveVars, auxVars
  <1>4. CASE \E how \in Hows : Reveal(t, how)
    BY <1>4, RevealKeeps
  <1>5. CASE UnrevealCmd(t)
    BY <1>5, LeavingKeeps DEF UnrevealCmd, Call, gameVars, saveVars, auxVars
  <1>6. CASE RevealTest(t)
    BY <1>6, TestKeeps
  <1>7. CASE NotHere(t) \/ UnrevealElsewhere(t)
    BY <1>7, LeavingKeeps DEF NotHere, UnrevealElsewhere, Idle, gameVars,
                              saveVars, auxVars
  <1>8. CASE UnrevealTest(t)
    <2>1. PICK where : Goto(t, where) /\ where[1] # "revealing"
      BY <1>8 DEF UnrevealTest, Idle
    <2> QED
      BY <1>8, <2>1, LeavingKeeps DEF UnrevealTest, gameVars, saveVars, auxVars
  <1>9. CASE UnrevealCrashes(t)
    BY <1>9, OthersKeep DEF UnrevealCrashes, gameVars, saveVars
  <1>10. CASE Unreveal(t)
    BY <1>10, UnrevealKeeps
  <1>11. CASE \E f \in Maps : Revflood(t, f)
    BY <1>11, OthersKeep DEF Revflood, saveVars
  <1> QED
    BY <1>1, <1>2, <1>3, <1>4, <1>5, <1>6, <1>7, <1>8, <1>9, <1>10, <1>11
       DEF CommandNext

\* Every step keeps the invariant.
LEMMA IInvNext == IInv /\ [Next]_vars => IInv'
  <1> SUFFICES ASSUME IInv, [Next]_vars PROVE IInv'
    OBVIOUS
  <1>1. CASE UNCHANGED vars
    BY <1>1, OthersKeep DEF vars, gameVars, saveVars
  <1>2. CASE OnUpdate \/ LeaveWorld \/ EnterWorld \/ TogglePause
    <2>1. UNCHANGED <<at, world, saveVars, auxVars>>
      BY <1>2 DEF OnUpdate, LeaveWorld, EnterWorld, TogglePause, gameVars
    <2> QED
      BY <2>1, OthersKeep DEF saveVars
  <1>3. CASE \E b \in Blocks : Discover(b)
    BY <1>3, OthersKeep DEF Discover, saveVars
  <1>6. CASE \E w \in Worlds : EnterLeft(w)
    BY <1>6, EnteringKeeps DEF EnterLeft
  <1>7. CASE \E w \in Worlds, s \in Sizes, f \in Maps : EnterOther(w, s, f)
    BY <1>7, EnteringKeeps DEF EnterOther
  <1>4. CASE Reload
    BY <1>4, ReloadKeeps
  <1>5. CASE \E t \in Threads : CommandNext(t)
    BY <1>5, CommandKeeps
  <1> QED
    BY <1>1, <1>2, <1>3, <1>4, <1>5, <1>6, <1>7 DEF Next, GameNext

\* The invariant holds in every state.
THEOREM Invariance == Spec => []IInv
  BY IInvInit, IInvNext, PTL DEF Spec

\* "With hell revealed, you won't be able to unpause until you hide the map
\* again" (plugin_onupdate), in every world but those the plugin has lost hold
\* of: by being loaded again with the map revealed, by an unreveal in another
\* world, or by a race of two reveals.
THEOREM HellIsPaused == Spec => HellStaysPaused
  <1>1. IInv /\ [Next]_vars
          => [OnUpdate /\ fortress /\ opened /\ world \notin spoiled => paused']_vars
    BY DEF IInv, Forced, OnUpdate
  <1>2. Spec => []IInv
    BY Invariance
  <1> QED
    BY <1>1, <1>2, PTL DEF Spec, HellStaysPaused

-----------------------------------------------------------------------------
(* What is saved.                                                          *)

Revealers == {t \in Threads : Revealing(t)}

\* Those past the test have room for what they will save.
Room ==
    Len(hidesaved) + Cardinality(Revealers) * Cardinality(Blocks)
      <= Cardinality(Threads) * Cardinality(Blocks)

\* In S each block of f is saved once, as f has it, for a map h of size z with
\* those blocks.
Exact(S, y, z, h, f) ==
    /\ y = z
    /\ DOMAIN f \subseteq DOMAIN h
    /\ \A k \in 1 .. Len(S) : S[k][1] \in DOMAIN f /\ S[k][2] = f[S[k][1]]
    /\ \A b \in DOMAIN f : \E k \in 1 .. Len(S) : S[k][1] = b
    /\ \A k, l \in 1 .. Len(S) : S[k][1] = S[l][1] => k = l

SavedAsFound == Exact(hidesaved, saved_size, size, hidden, before)

\* The same of the worlds that were left.
LeftAsFound ==
    \A w \in DOMAIN left : left[w].before # <<>> =>
        /\ revealed # "NOT_REVEALED"
        /\ Exact(hidesaved, saved_size, left[w].size, left[w].hidden, left[w].before)

\* Nothing is saved of a map that is not revealed, and what is saved of a world
\* is exact.
SaveInv ==
    /\ revealed = "NOT_REVEALED" => hidesaved = <<>> /\ before = <<>>
    /\ Room
    /\ before # <<>> => SavedAsFound
    /\ LeftAsFound

Lefts == DOMAIN left \subseteq Worlds /\ \A w \in DOMAIN left : IsLeft(left[w])

Types ==
    /\ fortress \in BOOLEAN /\ world \in Worlds /\ size \in Sizes /\ IsMap(hidden)
    /\ paused \in BOOLEAN
    /\ revealed \in {"NOT_REVEALED", "REVEALED", "SAFE_REVEALED", "DEMON_REVEALED"}
    /\ hidesaved \in Seq(Blocks \X BOOLEAN)
    /\ saved_size \in Sizes \cup {NoSize}
    /\ nopause_state \in BOOLEAN
    /\ at \in [Threads -> Places]
    /\ crashed \in BOOLEAN
    /\ IsMap(before) /\ opened \in BOOLEAN
    /\ Lefts
    /\ spoiled \subseteq Worlds /\ raced \subseteq Threads

\* Among numbers up to n there is a greatest.
LEMMA Greatest ==
    ASSUME NEW n \in Nat, NEW K \in SUBSET (1 .. n), K # {}
    PROVE  \E k \in K : \A l \in K : l <= k
  <1> DEFINE T == {x \in Nat : \E k \in K : x = n - k}
  <1>1. T \subseteq Nat /\ T # {}
    <2>1. PICK k \in K : TRUE
      OBVIOUS
    <2>2. n - k \in T
      OBVIOUS
    <2> QED
      BY <2>2
  <1>2. PICK x \in T : \A y \in T : <<y, x>> \notin OpToRel(<, Nat)
    BY <1>1, NatLessThanWellFounded, WFMin
  <1>3. \A y \in T : ~(y < x)
    BY <1>1, <1>2 DEF OpToRel
  <1>4. PICK k \in K : x = n - k
    OBVIOUS
  <1>5. \A l \in K : l <= k
    <2> SUFFICES ASSUME NEW l \in K PROVE l <= k
      OBVIOUS
    <2>1. n - l \in T /\ k \in Nat /\ l \in Nat
      OBVIOUS
    <2> HIDE DEF T
    <2>2. ~(n - l < x)
      BY <1>3, <2>1
    <2> QED
      BY <1>4, <2>1, <2>2
  <1> QED
    BY <1>5

\* m blocks are saved, and there is room for the b blocks of each of r threads.
Fits(m, r, b, T) == m + r * b <= T

\* One of the threads uses its room.
LEMMA SavedFits ==
    ASSUME NEW m \in Nat, NEW n \in Nat, NEW r \in Nat, NEW q \in Nat, NEW b \in Nat,
           NEW T \in Nat, Fits(m, r, b, T), q <= r - 1, n <= b
    PROVE  Fits(m + n, q, b, T)
  <1>1. q * b <= (r - 1) * b /\ (r - 1) * b + b = r * b
    OBVIOUS
  <1>2. q * b \in Int /\ r * b \in Int /\ (r - 1) * b \in Int
    OBVIOUS
  <1> PICK x, y, z : x = q * b /\ y = (r - 1) * b /\ z = r * b
    OBVIOUS
  <1>3. x \in Int /\ y \in Int /\ z \in Int /\ x <= y /\ y + b = z /\ m + z <= T
    BY <1>1, <1>2 DEF Fits
  <1>4. (m + n) + x <= T
    BY <1>3
  <1> QED
    BY <1>4 DEF Fits

\* SetToSeq lists a finite set, each element once.
LEMMA SeqOfSet ==
    ASSUME NEW S, IsFiniteSet(S), NEW s, s = SetToSeq(S)
    PROVE  /\ s \in Seq(S) /\ Len(s) = Cardinality(S) /\ Cardinality(S) \in Nat
           /\ \A k, l \in 1 .. Len(s) : s[k] = s[l] => k = l
           /\ \A x \in S : \E k \in 1 .. Len(s) : s[k] = x
  <1> PICK n : n = Cardinality(S)
    OBVIOUS
  <1>1. n \in Nat /\ ExistsBijection(1 .. n, S)
    BY FS_CardinalityType
  <1>2. \E f \in [1 .. n -> S] : IsInjective(f)
    BY <1>1 DEF ExistsBijection, Bijection, Injection
  <1>3. s \in [1 .. n -> S] /\ IsInjective(s)
    BY <1>2 DEF SetToSeq
  <1>4. IsFiniteSet(1 .. n) /\ Cardinality(1 .. n) = n
    BY <1>1, FS_Interval
  <1>5. s \in Injection(1 .. n, S)
    BY <1>3 DEF Injection
  <1>6. s \in Surjection(1 .. n, S)
    BY <1>4, <1>5, FS_Injection
  <1>7. s \in Seq(S) /\ Len(s) = n
    BY <1>1, <1>3
  <1> QED
    BY <1>1, <1>3, <1>6, <1>7 DEF IsInjective, Surjection

\* What Goto does to the places of the threads.
LEMMA Moves ==
    ASSUME Types, NEW t \in Threads, NEW where \in Places, Goto(t, where)
    PROVE  /\ at' \in [Threads -> Places]
           /\ at'[t] = where /\ \A u \in Threads \ {t} : at'[u] = at[u]
  BY DEF Types, Goto

\* Of the map only its blocks count.
LEMMA SameBlocks ==
    ASSUME NEW S, NEW y, NEW z, NEW h, NEW g, NEW f, DOMAIN g = DOMAIN h,
           Exact(S, y, z, h, f)
    PROVE  Exact(S, y, z, g, f)
  BY DEF Exact

\* Those past the test are finitely many, and no more than there are threads.
LEMMA RevealersFinite ==
    /\ IsFiniteSet(Revealers) /\ Cardinality(Revealers) \in Nat
    /\ Cardinality(Revealers) <= Cardinality(Threads)
    /\ Cardinality(Threads) \in Nat /\ Cardinality(Blocks) \in Nat
  <1>1. Revealers \in SUBSET Threads
    BY DEF Revealers
  <1> QED
    BY <1>1, FS_Subset, FS_CardinalityType, RevealAssumption

\* The same in the next state.
LEMMA RevealersFiniteNext ==
    /\ IsFiniteSet(Revealers') /\ Cardinality(Revealers') \in Nat
    /\ Cardinality(Revealers') <= Cardinality(Threads)
    /\ Cardinality(Revealers)' = Cardinality(Revealers')
  <1>1. Revealers' \in SUBSET Threads
    BY DEF Revealers
  <1> QED
    BY <1>1, FS_Subset, FS_CardinalityType, RevealAssumption

\* A step past which there are no more revealers than before.
LEMMA RoomKept ==
    ASSUME Room, Types, Len(hidesaved') <= Len(hidesaved), Len(hidesaved') \in Nat,
           \A u \in Threads : Revealing(u)' => Revealing(u)
    PROVE  Room'
  <1> PICK m, n, r, b, T : /\ m = Len(hidesaved) /\ n = Len(hidesaved')
                           /\ r = Cardinality(Revealers) /\ b = Cardinality(Blocks)
                           /\ T = Cardinality(Threads) * b
    OBVIOUS
  <1>1. Revealers' \in SUBSET Revealers
    BY DEF Revealers
  <1> PICK q : q = Cardinality(Revealers')
    OBVIOUS
  <1>2. q <= r /\ q \in Nat /\ r \in Nat /\ b \in Nat
    BY <1>1, RevealersFinite, RevealersFiniteNext, FS_Subset
  <1>3. q * b <= r * b
    BY <1>2
  <1>4. m \in Nat /\ n \in Nat /\ n <= m /\ m + r * b <= T /\ T \in Nat
    BY RevealersFinite DEF Types, Room
  <1>5. q * b \in Nat /\ r * b \in Nat
    BY <1>2
  <1>6. n + q * b <= T
    BY <1>3, <1>4, <1>5
  <1> QED
    BY <1>6, RevealersFiniteNext DEF Room

\* Steps that save nothing and let nobody past the test.
LEMMA SaveSame ==
    ASSUME SaveInv, Types, UNCHANGED <<saveVars, size, before, left>>,
           DOMAIN hidden' = DOMAIN hidden,
           \A u \in Threads : Revealing(u)' => Revealing(u)
    PROVE  SaveInv'
  <1>1. /\ hidesaved' = hidesaved /\ revealed' = revealed /\ saved_size' = saved_size
        /\ size' = size /\ before' = before /\ left' = left
    BY DEF saveVars
  <1>2. Len(hidesaved') <= Len(hidesaved) /\ Len(hidesaved') \in Nat
    BY <1>1 DEF Types
  <1>3. Room'
    BY <1>2, RoomKept DEF SaveInv
  <1>4. SavedAsFound => SavedAsFound'
    BY <1>1, SameBlocks DEF SavedAsFound
  <1>5. LeftAsFound'
    BY <1>1 DEF SaveInv, LeftAsFound
  <1> QED
    BY <1>1, <1>3, <1>4, <1>5 DEF SaveInv

\* A thread goes elsewhere than past the test, and nothing else happens.
LEMMA SaveGoes ==
    ASSUME Types, SaveInv, NEW t \in Threads, NEW where \in Places, Goto(t, where),
           where[1] # "revealing", raced' \subseteq raced,
           UNCHANGED <<gameVars, paused, saveVars, nopause_state, crashed, worldVars>>
    PROVE  Types' /\ SaveInv'
  <1>1. at' \in [Threads -> Places]
        /\ at'[t] = where /\ \A u \in Threads \ {t} : at'[u] = at[u]
    BY Moves
  <1>2. Types'
    BY <1>1 DEF Types, Lefts, IsMap, gameVars, saveVars, worldVars
  <1>3. \A u \in Threads : Revealing(u)' => Revealing(u)
    BY <1>1 DEF Revealing
  <1>4. SaveInv'
    BY <1>3, SaveSame DEF gameVars, worldVars
  <1> QED
    BY <1>2, <1>4

\* Steps that leave the places of the threads alone.
LEMMA SaveStays ==
    ASSUME Types, SaveInv,
           UNCHANGED <<size, saveVars, at, before, left>>,
           DOMAIN hidden' = DOMAIN hidden
    PROVE  SaveInv'
  <1>1. \A u \in Threads : Revealing(u)' => Revealing(u)
    BY DEF Revealing
  <1> QED
    BY <1>1, SaveSame

\* reveal's test, passed or not.
LEMMA SaveTest ==
    ASSUME IInv, Types, SaveInv, NEW t \in Threads, RevealTest(t)
    PROVE  Types' /\ SaveInv'
  <1>0. at[t] \in Places /\ at[t][1] = "reveal"
    BY DEF RevealTest, Types
  <1>1. CASE revealed # "NOT_REVEALED"
    <2>1. Idle \in Places /\ Idle[1] # "revealing" /\ Goto(t, Idle)
      BY <1>1 DEF RevealTest, Places, Idle
    <2>2. /\ raced' \subseteq raced
          /\ UNCHANGED <<gameVars, paused, saveVars, nopause_state, crashed, worldVars>>
      BY <1>1 DEF RevealTest
    <2> QED
      BY <2>1, <2>2, SaveGoes
  <1>2. CASE revealed = "NOT_REVEALED"
    <2>1. /\ Goto(t, <<"revealing", at[t][2]>>)
          /\ raced' \subseteq Threads
          /\ UNCHANGED <<gameVars, paused, saveVars, nopause_state, crashed, worldVars>>
      BY <1>2 DEF RevealTest, Pass, Types
    <2>2. at[t][2] \in Hows
      BY <1>0 DEF Places, Idle
    <2>3. <<"revealing", at[t][2]>> \in Places
      BY <2>2 DEF Places
    <2>4. at' \in [Threads -> Places]
      BY <2>1, <2>3, Moves
    <2>5. LeftAsFound' /\ before' = <<>>
      BY <1>2, <2>1 DEF SaveInv, LeftAsFound, saveVars, worldVars
    <2>6. Types'
      BY <2>1, <2>4 DEF Types, Lefts, IsMap, gameVars, saveVars, worldVars
    <2>7. hidesaved' = <<>> /\ revealed' = "NOT_REVEALED"
      BY <1>2, <2>1 DEF SaveInv, saveVars
    <2>8. Room'
      <3> PICK q, b, T : /\ q = Cardinality(Revealers') /\ b = Cardinality(Blocks)
                         /\ T = Cardinality(Threads)
        OBVIOUS
      <3>1. q \in Nat /\ b \in Nat /\ T \in Nat /\ q <= T
        BY RevealersFinite, RevealersFiniteNext
      <3>2. q * b <= T * b /\ q * b \in Nat
        BY <3>1
      <3>3. Len(hidesaved') = 0
        BY <2>7
      <3> QED
        BY <3>2, <3>3, RevealersFiniteNext DEF Room
    <2> QED
      BY <2>5, <2>6, <2>7, <2>8 DEF SaveInv
  <1> QED
    BY <1>1, <1>2

\* reveal saves every block it shows once, with what it has found.
LEMMA SaveReveals ==
    ASSUME IInv, Types, SaveInv, NEW t \in Threads, NEW how \in Hows, Reveal(t, how)
    PROVE  Types' /\ SaveInv'
  <1> DEFINE shown == Shown(how)
             order == SetToSeq(shown)
             entries == [k \in DOMAIN order |-> <<order[k], hidden[order[k]]>>]
             Entry == Blocks \X BOOLEAN
  <1>1. /\ hidesaved' = hidesaved \o entries /\ saved_size' = size /\ size' = size
        /\ hidden' = [b \in DOMAIN hidden |-> hidden[b] /\ b \notin shown]
        /\ Goto(t, Idle) /\ raced' = raced \ {t} /\ crashed' = crashed
        /\ fortress' = fortress /\ nopause_state' = nopause_state /\ world' = world
        /\ paused' = (paused \/ how = "hell") /\ opened' = (opened \/ how = "hell")
    BY DEF Reveal
  <1>2. revealed' \in {"REVEALED", "SAFE_REVEALED", "DEMON_REVEALED"}
    BY DEF Reveal, Hows
  <1>3. /\ shown \subseteq DOMAIN hidden /\ shown \subseteq Blocks
        /\ \A b \in DOMAIN hidden : hidden[b] \in BOOLEAN
        /\ DOMAIN hidden \subseteq Blocks
    BY DEF Shown, Types, IsMap
  <1>4. Revealing(t) /\ Idle \in Places
    BY DEF Reveal, Revealing, Places
  <1>0. \/ /\ revealed # "NOT_REVEALED"
           /\ spoiled' = spoiled \cup {world} \cup DOMAIN left /\ left' = <<>>
           /\ before' = <<>>
        \/ /\ revealed = "NOT_REVEALED" /\ left' = left /\ spoiled' = spoiled
           /\ \/ before' = <<>>
              \/ before' = [b \in DOMAIN before \cup shown |->
                              IF b \in DOMAIN before THEN before[b] ELSE hidden[b]]
    <2>1. CASE revealed # "NOT_REVEALED"
      <3>1. t \in raced
        BY <1>4, <2>1 DEF IInv, Alone
      <3> QED
        BY <2>1, <3>1 DEF Reveal, Spoil
    <2>2. CASE revealed = "NOT_REVEALED"
      BY <2>2 DEF Reveal, FoundBy
    <2> QED
      BY <2>1, <2>2
  <1> PICK s, n : s = order /\ n = Cardinality(shown)
    OBVIOUS
  <1>5. /\ IsFiniteSet(shown) /\ n \in Nat /\ n <= Cardinality(Blocks)
    BY <1>3, RevealAssumption, FS_Subset, FS_CardinalityType
  <1>6. /\ s \in Seq(shown) /\ Len(s) = n
        /\ \A k, l \in 1 .. n : s[k] = s[l] => k = l
        /\ \A x \in shown : \E k \in 1 .. n : s[k] = x
    BY <1>5, SeqOfSet
  <1> HIDE DEF shown
  <1>7. entries \in Seq(Entry) /\ Len(entries) = n
        /\ \A k \in 1 .. n : entries[k][1] = s[k] /\ entries[k][2] = hidden[s[k]]
    <2>1. DOMAIN s = 1 .. n /\ \A k \in 1 .. n : s[k] \in shown
      BY <1>6
    <2>2. entries = [k \in 1 .. n |-> <<s[k], hidden[s[k]]>>]
      BY <2>1
    <2> HIDE DEF entries
    <2>3. \A k \in 1 .. n : <<s[k], hidden[s[k]]>> \in Entry
      BY <1>3, <2>1
    <2>4. \A k \in 1 .. n : entries[k][1] = s[k] /\ entries[k][2] = hidden[s[k]]
      BY <2>2
    <2>5. entries \in Seq(Entry) /\ Len(entries) = n
      BY <1>5, <2>2, <2>3
    <2> QED
      BY <2>4, <2>5
  <1> HIDE DEF order, entries
  <1> PICK m : m = Len(hidesaved)
    OBVIOUS
  <1>8. hidesaved \in Seq(Entry) /\ m \in Nat
    BY DEF Types
  <1>9. /\ hidesaved' \in Seq(Entry) /\ Len(hidesaved') = m + n
        /\ \A k \in 1 .. n : hidesaved'[m + k] = entries[k]
    BY <1>1, <1>7, <1>8
  <1>10. at' \in [Threads -> Places] /\ at'[t] = Idle
         /\ \A u \in Threads \ {t} : at'[u] = at[u]
    BY <1>1, <1>4, Moves
  <1>11. Types'
    <2>1. IsMap(hidden')
      BY <1>1, <1>3 DEF IsMap
    <2>2. IsMap(before')
      <3>1. CASE before' = <<>>
        BY <3>1 DEF IsMap
      <3>2. CASE before' # <<>>
        BY <1>0, <1>3, <3>2 DEF Types, IsMap
      <3> QED
        BY <3>1, <3>2
    <2>3. size' \in Sizes /\ saved_size' \in Sizes
      BY <1>1 DEF Types
    <2>4. /\ paused' \in BOOLEAN /\ opened' \in BOOLEAN /\ raced' \subseteq Threads
          /\ crashed' \in BOOLEAN /\ fortress' \in BOOLEAN /\ nopause_state' \in BOOLEAN
          /\ world' \in Worlds
      BY <1>1 DEF Types
    <2>5. Lefts' /\ spoiled' \subseteq Worlds
      BY <1>0 DEF Types, Lefts
    <2> QED
      BY <1>2, <1>9, <1>10, <2>1, <2>2, <2>3, <2>4, <2>5 DEF Types
  <1>12. Room'
    <2> PICK r, q, b, T : /\ r = Cardinality(Revealers) /\ q = Cardinality(Revealers')
                          /\ b = Cardinality(Blocks) /\ T = Cardinality(Threads) * b
      OBVIOUS
    <2>1. t \in Revealers /\ t \notin Revealers'
      BY <1>4, <1>10 DEF Revealers, Revealing, Idle
    <2>2. Revealers' \subseteq Revealers \ {t}
      BY <1>10, <2>1 DEF Revealers, Revealing
    <2>3. IsFiniteSet(Revealers \ {t}) /\ Cardinality(Revealers \ {t}) = r - 1
      BY <2>1, RevealersFinite, FS_RemoveElement
    <2>4. Revealers' \in SUBSET (Revealers \ {t})
      BY <2>2
    <2>5. q <= r - 1 /\ q \in Nat /\ r \in Nat /\ b \in Nat /\ T \in Nat
      BY <2>3, <2>4, RevealersFinite, RevealersFiniteNext, FS_Subset
    <2>6. Fits(m, r, b, T) /\ n <= b /\ n \in Nat /\ m \in Nat
      BY <1>5, <1>8 DEF SaveInv, Room, Fits
    <2>7. Fits(m + n, q, b, T)
      BY <2>5, <2>6, SavedFits
    <2> QED
      BY <1>9, <2>7, RevealersFiniteNext DEF Room, Fits
  <1>13. before' # <<>> => SavedAsFound'
    <2> SUFFICES ASSUME before' # <<>> PROVE SavedAsFound'
      OBVIOUS
    <2>1. hidesaved = <<>> /\ before = <<>>
      BY <1>0 DEF SaveInv
    <2>2. m = 0
      BY <2>1
    <2>3. Len(hidesaved') = n /\ \A k \in 1 .. n : hidesaved'[k] = entries[k]
      BY <1>5, <1>9, <2>2
    <2>4. \A k \in 1 .. n : hidesaved'[k][1] = s[k] /\ hidesaved'[k][2] = hidden[s[k]]
      BY <1>7, <2>3
    <2>5. DOMAIN before' = shown /\ \A b \in shown : before'[b] = hidden[b]
      BY <1>0, <2>1
    <2>6. \A k \in 1 .. n : s[k] \in shown
      BY <1>6
    <2>7. DOMAIN hidden' = DOMAIN hidden
      BY <1>1
    <2>8. saved_size' = size' /\ DOMAIN before' \subseteq DOMAIN hidden'
      BY <1>1, <1>3, <2>5, <2>7
    <2>9. \A k \in 1 .. Len(hidesaved') :
            /\ hidesaved'[k][1] \in DOMAIN before'
            /\ hidesaved'[k][2] = before'[hidesaved'[k][1]]
      BY <2>3, <2>4, <2>5, <2>6
    <2>10. \A b \in DOMAIN before' :
             \E k \in 1 .. Len(hidesaved') : hidesaved'[k][1] = b
      BY <1>6, <2>3, <2>4, <2>5
    <2>11. \A k, l \in 1 .. Len(hidesaved') :
             hidesaved'[k][1] = hidesaved'[l][1] => k = l
      BY <1>6, <2>3, <2>4
    <2> QED
      BY <2>8, <2>9, <2>10, <2>11 DEF SavedAsFound, Exact
  <1>14. LeftAsFound'
    BY <1>0 DEF SaveInv, LeftAsFound
  <1> QED
    BY <1>2, <1>11, <1>12, <1>13, <1>14 DEF SaveInv

\* What unreveal hides and shows again is as it was found.
LEMMA RestoredAsFound ==
    ASSUME SavedAsFound, Types
    PROVE  \A b \in DOMAIN before : Restored[b] = before[b]
  <1> SUFFICES ASSUME NEW b \in DOMAIN before PROVE Restored[b] = before[b]
    OBVIOUS
  <1>1. DOMAIN hidesaved = 1 .. Len(hidesaved) /\ Len(hidesaved) \in Nat
    BY DEF Types
  <1>2. PICK k \in 1 .. Len(hidesaved) : hidesaved[k][1] = b
    BY DEF SavedAsFound, Exact
  <1> DEFINE last(l) == /\ hidesaved[l][1] = b
                        /\ \A i \in (l + 1) .. Len(hidesaved) : hidesaved[i][1] # b
  <1>3. last(k)
    BY <1>1, <1>2 DEF SavedAsFound, Exact
  <1>4. PICK l : l = CHOOSE e \in DOMAIN hidesaved : last(e)
    OBVIOUS
  <1>5. l \in 1 .. Len(hidesaved) /\ last(l)
    BY <1>1, <1>3, <1>4
  <1>6. LastSaved(b) = hidesaved[l][2]
    BY <1>4 DEF LastSaved
  <1>7. LastSaved(b) = before[b]
    BY <1>5, <1>6 DEF SavedAsFound, Exact
  <1>8. b \in SavedBlocks /\ b \in DOMAIN hidden
    BY <1>1, <1>2 DEF SavedBlocks, SavedAsFound, Exact
  <1> QED
    BY <1>7, <1>8 DEF Restored

\* unreveal gives everything back.
LEMMA SaveUnreveals ==
    ASSUME IInv, Types, SaveInv, NEW t \in Threads, Unreveal(t)
    PROVE  Types' /\ SaveInv'
  <1>1. /\ hidden' = Restored /\ hidesaved' = <<>> /\ revealed' = "NOT_REVEALED"
        /\ Goto(t, Idle) /\ before' = <<>> /\ opened' \in BOOLEAN
        /\ left' = <<>> /\ spoiled' = spoiled \cup DOMAIN left
        /\ UNCHANGED <<fortress, world, size, paused, saved_size, nopause_state,
                       crashed, raced>>
    BY DEF Unreveal, Spoil
  <1>2. Idle \in Places /\ Idle[1] # "revealing"
    BY DEF Places, Idle
  <1>3. at' \in [Threads -> Places] /\ at'[t] = Idle
        /\ \A u \in Threads \ {t} : at'[u] = at[u]
    BY <1>1, <1>2, Moves
  <1>4. \A b \in SavedBlocks : LastSaved(b) \in BOOLEAN
    <2> SUFFICES ASSUME NEW b \in SavedBlocks PROVE LastSaved(b) \in BOOLEAN
      OBVIOUS
    <2> DEFINE n == Len(hidesaved)
               K == {k \in 1 .. n : hidesaved[k][1] = b}
    <2>1. n \in Nat /\ DOMAIN hidesaved = 1 .. n
      BY DEF Types
    <2>2. K \in SUBSET (1 .. n) /\ K # {}
      BY <2>1 DEF SavedBlocks
    <2> HIDE DEF n
    <2>3. PICK k \in K : \A l \in K : l <= k
      <3> HIDE DEF K
      <3> QED
        BY <2>1, <2>2, Greatest
    <2> DEFINE last(l) == /\ hidesaved[l][1] = b
                          /\ \A i \in (l + 1) .. n : hidesaved[i][1] # b
    <2>4. k \in 1 .. n /\ last(k)
      <3>1. k \in 1 .. n /\ hidesaved[k][1] = b
        OBVIOUS
      <3>2. ASSUME NEW i \in (k + 1) .. n PROVE hidesaved[i][1] # b
        <4>1. i \in 1 .. n /\ ~(i <= k)
          BY <2>1, <3>1
        <4> QED
          BY <2>3, <4>1
      <3> QED
        BY <3>1, <3>2
    <2>5. PICK l : l = CHOOSE e \in DOMAIN hidesaved : last(e)
      OBVIOUS
    <2>6. l \in 1 .. n
      BY <2>1, <2>4, <2>5
    <2>7. LastSaved(b) = hidesaved[l][2]
      BY <2>5 DEF LastSaved, n
    <2> QED
      BY <2>6, <2>7 DEF Types, n
  <1>5. IsMap(hidden')
    BY <1>1, <1>4 DEF Types, IsMap, Restored
  <1>6. IsMap(before')
    BY <1>1 DEF IsMap
  <1>7. Lefts' /\ spoiled' \subseteq Worlds /\ LeftAsFound'
    BY <1>1 DEF Types, Lefts, LeftAsFound
  <1>8. Types'
    <2>1. hidesaved' \in Seq(Blocks \X BOOLEAN)
      BY <1>1
    <2>2. /\ fortress' \in BOOLEAN /\ size' \in Sizes /\ paused' \in BOOLEAN
          /\ saved_size' \in Sizes \cup {NoSize} /\ nopause_state' \in BOOLEAN
          /\ crashed' \in BOOLEAN /\ opened' \in BOOLEAN /\ raced' \subseteq Threads
          /\ world' \in Worlds
      BY <1>1 DEF Types
    <2> QED
      BY <1>1, <1>3, <1>5, <1>6, <1>7, <2>1, <2>2 DEF Types
  <1>9. Len(hidesaved') = 0
    BY <1>1
  <1>10. \A u \in Threads : Revealing(u)' => Revealing(u)
    BY <1>2, <1>3 DEF Revealing
  <1>11. Room'
    BY <1>9, <1>10, RoomKept DEF SaveInv, Types
  <1> QED
    BY <1>1, <1>7, <1>8, <1>11 DEF SaveInv

\* The plugin loaded again has saved nothing.
LEMMA SaveReloads ==
    ASSUME Types, SaveInv, Reload
    PROVE  Types' /\ SaveInv'
  <1>1. /\ revealed' = "NOT_REVEALED" /\ hidesaved' = <<>> /\ saved_size' = NoSize
        /\ nopause_state' = FALSE /\ before' = <<>> /\ left' = <<>>
        /\ spoiled' \subseteq spoiled \cup {world} \cup DOMAIN left
        /\ UNCHANGED <<fortress, world, size, hidden, paused, at, crashed, opened,
                       raced>>
    BY DEF Reload, Spoil, gameVars
  <1>2. hidesaved' \in Seq(Blocks \X BOOLEAN) /\ Len(hidesaved') = 0
    BY <1>1
  <1>3. Types'
    <2>1. IsMap(hidden') /\ IsMap(before')
      BY <1>1 DEF Types, IsMap
    <2>2. Lefts' /\ spoiled' \subseteq Worlds
      BY <1>1 DEF Types, Lefts
    <2> QED
      BY <1>1, <1>2, <2>1, <2>2 DEF Types
  <1>4. \A u \in Threads : Revealing(u)' => Revealing(u)
    BY <1>1 DEF Revealing
  <1>5. Room'
    BY <1>2, <1>4, RoomKept DEF SaveInv, Types
  <1>6. LeftAsFound'
    BY <1>1 DEF LeftAsFound
  <1> QED
    BY <1>1, <1>3, <1>5, <1>6 DEF SaveInv

\* Maps are maps.
LEMMA MapsAreMaps ==
    ASSUME NEW f \in Maps
    PROVE  IsMap(f)
  BY DEF Maps, IsMap

\* Another world is entered, in which nothing has been found, or what is known
\* of it.
LEMMA SaveEnters ==
    ASSUME IInv, Types, SaveInv, NEW w \in Worlds, EnterAnother(w),
           size' \in Sizes, IsMap(hidden'), IsMap(before'), opened' \in BOOLEAN,
           before' # <<>> =>
             /\ w \in DOMAIN left /\ size' = left[w].size
             /\ hidden' = left[w].hidden /\ before' = left[w].before
    PROVE  Types' /\ SaveInv'
  <1>1. /\ fortress' = TRUE /\ paused' = TRUE /\ world' = w
        /\ UNCHANGED <<revealed, hidesaved, saved_size, nopause_state, at, crashed,
                       spoiled, raced>>
    BY DEF EnterAnother, saveVars
  <1>2. /\ DOMAIN left' \subseteq DOMAIN left \cup {world}
        /\ \A v \in DOMAIN left' : left'[v] = IF v = world THEN Here ELSE left[v]
    BY DEF EnterAnother
  <1>3. IsLeft(Here)
    BY DEF IsLeft, Here, Types
  <1>4. Lefts'
    BY <1>2, <1>3 DEF Types, Lefts
  <1>5. Types'
    BY <1>1, <1>4 DEF Types
  <1>6. /\ \A u \in Threads : Revealing(u)' => Revealing(u)
        /\ Len(hidesaved') <= Len(hidesaved) /\ Len(hidesaved') \in Nat
    BY <1>1 DEF Revealing, Types
  <1>7. Room'
    BY <1>6, RoomKept DEF SaveInv
  <1>8. before' # <<>> => SavedAsFound' /\ revealed' # "NOT_REVEALED"
    BY <1>1 DEF SaveInv, LeftAsFound, SavedAsFound
  <1>9. ASSUME NEW v \in DOMAIN left', left'[v].before # <<>>
        PROVE  /\ revealed # "NOT_REVEALED"
               /\ Exact(hidesaved, saved_size, left'[v].size, left'[v].hidden,
                        left'[v].before)
    <2>1. CASE v = world
      <3>1. left'[v] = Here
        BY <1>2, <2>1
      <3>2. /\ left'[v].size = size /\ left'[v].hidden = hidden
            /\ left'[v].before = before
        BY <3>1 DEF Here
      <3> QED
        BY <1>9, <3>2 DEF SaveInv, SavedAsFound
    <2>2. CASE v # world
      <3>1. v \in DOMAIN left /\ left'[v] = left[v]
        BY <1>2, <2>2
      <3> QED
        BY <1>9, <3>1 DEF SaveInv, LeftAsFound
    <2> QED
      BY <2>1, <2>2
  <1>10. LeftAsFound'
    BY <1>1, <1>9 DEF LeftAsFound
  <1>11. revealed' = "NOT_REVEALED" => hidesaved' = <<>> /\ before' = <<>>
    BY <1>1, <1>8 DEF SaveInv
  <1> QED
    BY <1>5, <1>7, <1>8, <1>10, <1>11 DEF SaveInv

\* The game digs on, or revflood has hidden what it did not reach.
LEMMA SaveDigs ==
    ASSUME Types, SaveInv, IsMap(hidden'), DOMAIN hidden' = DOMAIN hidden,
           UNCHANGED <<fortress, world, size, paused, saveVars, nopause_state, at,
                       crashed, auxVars>>
    PROVE  Types' /\ SaveInv'
  <1>1. Types'
    BY DEF Types, Lefts, IsMap, saveVars, auxVars, worldVars
  <1>2. SaveInv'
    BY SaveStays DEF auxVars, worldVars
  <1> QED
    BY <1>1, <1>2

\* Pausing, and worlds left and entered again.
LEMMA SavePauses ==
    ASSUME Types, SaveInv,
           fortress' \in BOOLEAN, paused' \in BOOLEAN, nopause_state' \in BOOLEAN,
           UNCHANGED <<world, size, hidden, saveVars, at, auxVars>>,
           crashed' \in BOOLEAN
    PROVE  Types' /\ SaveInv'
  <1>1. Types'
    BY DEF Types, Lefts, IsMap, saveVars, auxVars, worldVars
  <1>2. SaveInv'
    BY SaveStays DEF auxVars, worldVars
  <1> QED
    BY <1>1, <1>2

\* A step of a command keeps what is saved exact.
LEMMA SaveCommand ==
    ASSUME IInv, Types, SaveInv, NEW t \in Threads, CommandNext(t)
    PROVE  Types' /\ SaveInv'
  <1>0. /\ Idle \in Places /\ Idle[1] # "revealing"
        /\ <<"unreveal">> \in Places /\ <<"unrevealing">> \in Places
        /\ \A how \in Hows : <<"reveal", how>> \in Places
    BY DEF Places, Idle
  <1>1. CASE \E on \in BOOLEAN : Nopause(t, on)
    BY <1>1, SavePauses DEF Nopause, gameVars, Types
  <1>2. CASE \E how \in Hows : RevealCmd(t, how)
    BY <1>0, <1>2, SaveGoes DEF RevealCmd, Call, auxVars
  <1>3. CASE \E how \in Hows : Revtoggle(t, how)
    <2>1. PICK where \in Places : Call(t, where) /\ where[1] # "revealing"
      BY <1>0, <1>3 DEF Revtoggle
    <2> QED
      BY <2>1, SaveGoes DEF Call, auxVars
  <1>4. CASE \E how \in Hows : Reveal(t, how)
    BY <1>4, SaveReveals
  <1>5. CASE UnrevealCmd(t)
    BY <1>0, <1>5, SaveGoes DEF UnrevealCmd, Call, auxVars
  <1>6. CASE RevealTest(t)
    BY <1>6, SaveTest
  <1>7. CASE NotHere(t) \/ UnrevealElsewhere(t)
    BY <1>0, <1>7, SaveGoes DEF NotHere, UnrevealElsewhere, auxVars
  <1>8. CASE UnrevealTest(t)
    <2>1. PICK where \in Places : Goto(t, where) /\ where[1] # "revealing"
      BY <1>0, <1>8 DEF UnrevealTest
    <2> QED
      BY <1>8, <2>1, SaveGoes DEF UnrevealTest, auxVars
  <1>9. CASE UnrevealCrashes(t)
    BY <1>9, SavePauses DEF UnrevealCrashes, gameVars, Types
  <1>10. CASE Unreveal(t)
    BY <1>10, SaveUnreveals
  <1>11. CASE \E f \in Maps : Revflood(t, f)
    BY <1>11, SaveDigs, MapsAreMaps DEF Revflood
  <1> QED
    BY <1>1, <1>2, <1>3, <1>4, <1>5, <1>6, <1>7, <1>8, <1>9, <1>10, <1>11
       DEF CommandNext

\* Every step keeps what is saved exact.
LEMMA SaveNext ==
    ASSUME IInv, Types, SaveInv, [Next]_vars
    PROVE  Types' /\ SaveInv'
  <1>1. CASE UNCHANGED vars
    BY <1>1, SavePauses DEF vars, gameVars, Types
  <1>2. CASE OnUpdate \/ LeaveWorld \/ EnterWorld \/ TogglePause
    <2>1. /\ fortress' \in BOOLEAN /\ paused' \in BOOLEAN
          /\ nopause_state' \in BOOLEAN /\ crashed' \in BOOLEAN
          /\ UNCHANGED <<world, size, hidden, saveVars, at, auxVars>>
      BY <1>2 DEF OnUpdate, LeaveWorld, EnterWorld, TogglePause, Types, gameVars
    <2> QED
      BY <2>1, SavePauses
  <1>3. CASE \E w \in Worlds, s \in Sizes, f \in Maps : EnterOther(w, s, f)
    <2>1. PICK w \in Worlds, s \in Sizes, f \in Maps : EnterOther(w, s, f)
      BY <1>3
    <2>2. IsMap(before') /\ before' = <<>>
      BY <2>1 DEF EnterOther, IsMap
    <2> QED
      BY <2>1, <2>2, SaveEnters, MapsAreMaps DEF EnterOther
  <1>7. CASE \E w \in Worlds : EnterLeft(w)
    <2>1. PICK w \in Worlds : EnterLeft(w)
      BY <1>7
    <2>2. IsLeft(left[w])
      BY <2>1 DEF EnterLeft, Types, Lefts
    <2> QED
      BY <2>1, <2>2, SaveEnters DEF EnterLeft, IsLeft
  <1>4. CASE \E b \in Blocks : Discover(b)
    <2>1. PICK b \in Blocks : Discover(b)
      BY <1>4
    <2>2. IsMap(hidden') /\ DOMAIN hidden' = DOMAIN hidden
      BY <2>1 DEF Discover, IsMap, Types
    <2> QED
      BY <2>1, <2>2, SaveDigs DEF Discover
  <1>5. CASE Reload
    BY <1>5, SaveReloads
  <1>6. CASE \E t \in Threads : CommandNext(t)
    BY <1>6, SaveCommand
  <1> QED
    BY <1>1, <1>2, <1>3, <1>4, <1>5, <1>6, <1>7 DEF Next, GameNext

\* Nothing is saved at first.
LEMMA SaveInit == Init => Types /\ SaveInv
  <1> SUFFICES ASSUME Init PROVE Types /\ SaveInv
    OBVIOUS
  <1>1. hidesaved = <<>> /\ before = <<>> /\ revealed = "NOT_REVEALED"
    BY DEF Init
  <1>2. hidesaved \in Seq(Blocks \X BOOLEAN) /\ Len(hidesaved) = 0
    BY <1>1
  <1>3. Idle \in Places /\ IsMap(before) /\ IsMap(hidden)
    BY <1>1, MapsAreMaps DEF Places, IsMap, Init
  <1>4. DOMAIN left = {}
    BY DEF Init
  <1>10. Types
    BY <1>1, <1>2, <1>3, <1>4 DEF Init, Types, Lefts
  <1>5. Revealers = {}
    BY DEF Init, Revealers, Revealing, Idle
  <1>6. Cardinality(Revealers) = 0
    BY <1>5, FS_EmptySet
  <1> PICK b, n : b = Cardinality(Blocks) /\ n = Cardinality(Threads)
    OBVIOUS
  <1>7. b \in Nat /\ n \in Nat
    BY RevealersFinite
  <1>8. n * b \in Nat /\ 0 * b = 0
    BY <1>7
  <1>9. Room
    BY <1>2, <1>6, <1>8 DEF Room
  <1> QED
    BY <1>1, <1>4, <1>9, <1>10 DEF SaveInv, LeftAsFound

\* What is saved is exact in every state.
THEOREM SavedIsExact == Spec => [](Types /\ SaveInv)
  <1>1. IInv /\ Types /\ SaveInv /\ [Next]_vars => (Types /\ SaveInv)'
    BY SaveNext
  <1> QED
    BY <1>1, SaveInit, Invariance, PTL DEF Spec

\* The variables have their types, and hidesaved its bound: a race of all the
\* threads saves each block once for each of them (reveal).
THEOREM TypeCorrect == Spec => []TypeOK
  <1>1. ASSUME Types, SaveInv PROVE TypeOK
    <2> PICK r, b, n, l : /\ r = Cardinality(Revealers) /\ b = Cardinality(Blocks)
                          /\ n = Cardinality(Threads) * b /\ l = Len(hidesaved)
      OBVIOUS
    <2>1. r \in Nat /\ b \in Nat /\ n \in Nat /\ l \in Nat /\ l + r * b <= n
      BY <1>1, RevealersFinite DEF SaveInv, Room, Types
    <2>2. r * b \in Nat
      BY <2>1
    <2>3. l <= n
      BY <2>1, <2>2
    <2> QED
      BY <1>1, <2>3 DEF Types, Lefts, TypeOK
  <1> QED
    BY <1>1, SavedIsExact, PTL

\* unreveal writes through the NULL of getBlockAbs only in a world that is not
\* the one that was revealed, or that is spoiled.
THEOREM CrashesElsewhere == Spec => []CrashesOnlyElsewhere
  <1>1. Init => CrashesOnlyElsewhere
    BY DEF Init, CrashesOnlyElsewhere
  <1>2. ASSUME Types, SaveInv, CrashesOnlyElsewhere, [Next]_vars
        PROVE  CrashesOnlyElsewhere'
    <2>1. CASE crashed \/ UNCHANGED vars
      <3>1. UNCHANGED vars
        <4>1. CASE crashed
          <5>1. ~GameNext /\ ~OnUpdate /\ ~Reload
            BY <4>1 DEF GameNext, LeaveWorld, EnterWorld, TogglePause, EnterAnother,
                        EnterOther, EnterLeft,
                        Discover, OnUpdate, Reload
          <5>2. \A t \in Threads : ~CommandNext(t)
            BY <4>1 DEF CommandNext, Nopause, RevealCmd, Revtoggle, Call, Reveal,
                        UnrevealCmd, RevealTest, NotHere, UnrevealTest,
                        UnrevealElsewhere, UnrevealCrashes, Unreveal, Revflood
          <5> QED
            BY <1>2, <5>1, <5>2 DEF Next
        <4> QED
          BY <2>1, <4>1
      <3> QED
        BY <1>2, <3>1 DEF vars, gameVars, auxVars, worldVars, CrashesOnlyElsewhere
    <2>2. CASE ~crashed /\ crashed'
      <3>1. PICK t \in Threads : UnrevealCrashes(t)
        <4>1. ~GameNext /\ ~OnUpdate /\ ~Reload
          BY <2>2 DEF GameNext, LeaveWorld, EnterWorld, TogglePause, EnterAnother,
                      EnterOther, EnterLeft,
                      Discover, OnUpdate, Reload
        <4>2. \A t \in Threads : CommandNext(t) => UnrevealCrashes(t)
          BY <2>2 DEF CommandNext, Nopause, RevealCmd, Revtoggle, Call, Reveal,
                      UnrevealCmd, RevealTest, NotHere, UnrevealTest,
                      UnrevealElsewhere, Unreveal, Revflood
        <4> QED
          BY <1>2, <2>2, <4>1, <4>2 DEF Next, vars
      <3>2. ~(SavedBlocks \subseteq DOMAIN hidden)
        BY <3>1 DEF UnrevealCrashes
      <3>3. ~SavedAsFound
        <4>1. DOMAIN hidesaved = 1 .. Len(hidesaved)
          BY <1>2 DEF Types
        <4> QED
          BY <3>2, <4>1 DEF SavedAsFound, Exact, SavedBlocks
      <3>4. before = <<>>
        BY <1>2, <3>3 DEF SaveInv
      <3> QED
        BY <3>1, <3>4 DEF UnrevealCrashes, auxVars, worldVars, CrashesOnlyElsewhere
    <2>3. CASE ~crashed'
      BY <2>3 DEF CrashesOnlyElsewhere
    <2> QED
      BY <2>1, <2>2, <2>3
  <1> QED
    BY <1>1, <1>2, SavedIsExact, PTL DEF Spec

\* "Reverts the effects of 'reveal'": unreveal puts every block that reveal has
\* shown back as it was, in the world that was revealed, in every world but
\* those the plugin has lost hold of (see HellIsPaused).
THEOREM UnrevealIsExact == Spec => UnrevealRestores
  <1> DEFINE Restores ==
        /\ \E t \in Threads : at[t] = <<"unrevealing">> /\ at'[t] = Idle
        /\ revealed' = "NOT_REVEALED" /\ world \notin spoiled
        => \A b \in DOMAIN before : hidden'[b] = before[b]
  <1>1. ASSUME Types, SaveInv, [Next]_vars PROVE [Restores]_vars
    <2> SUFFICES ASSUME Next, revealed' = "NOT_REVEALED", before # <<>>,
                        NEW t \in Threads, at[t] = <<"unrevealing">>, at'[t] = Idle
                 PROVE  \A b \in DOMAIN before : hidden'[b] = before[b]
      BY <1>1
    <2>1. revealed # "NOT_REVEALED" /\ SavedAsFound
      BY <1>1 DEF SaveInv
    <2>2. ~GameNext /\ ~OnUpdate
      BY <2>1 DEF GameNext, LeaveWorld, EnterWorld, TogglePause, EnterAnother,
                  EnterOther, EnterLeft,
                  Discover, OnUpdate, saveVars
    <2>3. ~Reload
      BY DEF Reload, Idle
    <2>4. PICK u \in Threads : CommandNext(u)
      BY <2>2, <2>3 DEF Next
    <2>5. Unreveal(u)
      BY <2>1, <2>4 DEF CommandNext, Nopause, RevealCmd, Revtoggle, Call, Reveal,
                  UnrevealCmd, RevealTest, NotHere, UnrevealTest, Hows,
                  UnrevealElsewhere, UnrevealCrashes, Revflood, saveVars
    <2> QED
      BY <1>1, <2>1, <2>5, RestoredAsFound DEF Unreveal
  <1>2. Restores = (/\ \E t \in Threads : at[t] = <<"unrevealing">> /\ at'[t] = Idle
                    /\ revealed' = "NOT_REVEALED" /\ world \notin spoiled
                    => \A b \in DOMAIN before : hidden'[b] = before[b])
    OBVIOUS
  <1> HIDE DEF Restores
  <1>3. Spec => [][Restores]_vars
    BY <1>1, SavedIsExact, PTL DEF Spec
  <1> QED
    BY <1>3 DEF Restores, UnrevealRestores
=============================================================================
