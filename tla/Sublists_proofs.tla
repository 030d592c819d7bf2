-------------------------- MODULE Sublists_proofs --------------------------
(***************************************************************************)
(* Facts about sequences that other proofs cite: what Ascending and        *)
(* Sublist return, which list of places a sublist is made of, and what     *)
(* Append, InsertAt and RemoveAt do to the elements of a list.             *)
(***************************************************************************)
EXTENDS Sublists, SequencesExt, FiniteSetTheorems, SequenceTheorems, TLAPS

-----------------------------------------------------------------------------
(* Ascending, Sublist and Drop.                                            *)

\* How many of S there are up to n.
Rank(S, n) == Cardinality({m \in S : m <= n})

\* The ranks of a finite set of numbers are those up to its cardinality, each
\* of one of them, and grow with them.
LEMMA Ranks ==
    ASSUME NEW S \in SUBSET Int, IsFiniteSet(S)
    PROVE  /\ Cardinality(S) \in Nat
           /\ \A n \in S : n \in Int /\ Rank(S, n) \in 1 .. Cardinality(S)
           /\ \A m, n \in S : m < n <=> Rank(S, m) < Rank(S, n)
           /\ \A k \in 1 .. Cardinality(S) : \E n \in S : Rank(S, n) = k
  <1> DEFINE upto(n) == {m \in S : m <= n}
             c == Cardinality(S)
             rank == [n \in S |-> Rank(S, n)]
  <1>1. c \in Nat
    BY FS_CardinalityType
  <1>0. \A n \in S : n \in Int
    OBVIOUS
  <1>2. ASSUME NEW n \in S
        PROVE  IsFiniteSet(upto(n)) /\ Rank(S, n) \in 1 .. c /\ Rank(S, n) \in Int
    <2>1. upto(n) \in SUBSET S /\ n \in upto(n)
      OBVIOUS
    <2> PICK T, r : T = upto(n) /\ r = Rank(S, n)
      OBVIOUS
    <2>2. T \in SUBSET S /\ T # {} /\ r = Cardinality(T) /\ T = upto(n)
      BY <2>1 DEF Rank
    <2> HIDE DEF upto, c
    <2>3. IsFiniteSet(T) /\ r <= c
      BY <2>2, FS_Subset DEF c
    <2>4. r \in Nat /\ r # 0
      BY <2>2, <2>3, FS_CardinalityType, FS_EmptySet
    <2> QED
      BY <1>1, <2>2, <2>3, <2>4
  <1>3. ASSUME NEW m \in S, NEW n \in S, m < n
        PROVE  Rank(S, m) < Rank(S, n)
    <2>0. m \in Int /\ n \in Int
      BY <1>0
    <2>1. upto(m) \in SUBSET upto(n) /\ n \in upto(n) /\ n \notin upto(m)
      <3>1. \A x \in S : x <= m => x <= n
        BY <1>0, <1>3, <2>0
      <3>2. n <= n /\ ~(n <= m)
        BY <1>3, <2>0
      <3> QED
        BY <3>1, <3>2
    <2> PICK T, U : T = upto(m) /\ U = upto(n)
      OBVIOUS
    <2>2. IsFiniteSet(U) /\ Rank(S, m) = Cardinality(T) /\ Rank(S, n) = Cardinality(U)
      BY <1>2 DEF Rank
    <2>3. T \in SUBSET U /\ T # U
      BY <2>1
    <2> HIDE DEF upto
    <2>4. Cardinality(T) <= Cardinality(U) /\ Cardinality(T) # Cardinality(U)
      BY <2>2, <2>3, FS_Subset
    <2>5. Rank(S, m) \in Int /\ Rank(S, n) \in Int
      BY <1>2
    <2> QED
      BY <2>2, <2>4, <2>5
  <1>4. ASSUME NEW m \in S, NEW n \in S, Rank(S, m) < Rank(S, n)
        PROVE  m < n
    <2>1. Rank(S, m) \in Int /\ Rank(S, n) \in Int /\ m \in Int /\ n \in Int
      BY <1>0, <1>2
    <2> PICK a, b : a = Rank(S, m) /\ b = Rank(S, n)
      OBVIOUS
    <2>2. a < b /\ a \in Int /\ b \in Int /\ (m = n => a = b) /\ (n < m => b < a)
      BY <1>3, <1>4, <2>1
    <2> QED
      BY <2>1, <2>2
  <1>5. \A k \in 1 .. c : \E n \in S : Rank(S, n) = k
    <2>1. rank \in [S -> 1 .. c]
      BY <1>2
    <2>2. \A m, n \in S : rank[m] = rank[n] => m = n
      <3> SUFFICES ASSUME NEW m \in S, NEW n \in S, Rank(S, m) = Rank(S, n)
                   PROVE  m = n
        OBVIOUS
      <3> PICK a, b : a = Rank(S, m) /\ b = Rank(S, n)
        OBVIOUS
      <3>1. /\ a = b /\ a \in Int /\ b \in Int
            /\ (m < n => a < b) /\ (n < m => b < a)
        BY <1>2, <1>3
      <3> QED
        BY <1>0, <3>1
    <2>3. rank \in Injection(S, 1 .. c)
      BY <2>1, <2>2 DEF Injection, IsInjective
    <2>4. IsFiniteSet(1 .. c) /\ Cardinality(1 .. c) = Cardinality(S)
      BY <1>1, FS_Interval
    <2>5. rank \in Surjection(S, 1 .. c)
      <3> HIDE DEF rank, c
      <3> QED
        BY <2>3, <2>4, FS_Injection
    <2> QED
      BY <2>5 DEF Surjection
  <1> QED
    BY <1>0, <1>1, <1>2, <1>3, <1>4, <1>5

\* Ascending lists a finite set of numbers, each once, upward.
LEMMA AscendingList ==
    ASSUME NEW S \in SUBSET Int, IsFiniteSet(S), NEW s, s = Ascending(S)
    PROVE  /\ s \in Seq(S) /\ Len(s) = Cardinality(S) /\ Len(s) \in Nat
           /\ \A k, l \in 1 .. Len(s) : k < l => s[k] < s[l]
           /\ \A n \in S : \E k \in 1 .. Len(s) : s[k] = n
  <1> PICK c : c = Cardinality(S)
    OBVIOUS
  <1>1. c \in Nat
    BY Ranks
  <1>2. s = [k \in 1 .. c |-> CHOOSE n \in S : Rank(S, n) = k]
    BY DEF Ascending, Rank
  <1>3. \A k \in 1 .. c : s[k] \in S /\ Rank(S, s[k]) = k
    BY <1>2, Ranks
  <1>4. s \in Seq(S) /\ Len(s) = c
    BY <1>1, <1>2, <1>3
  <1>5. \A k, l \in 1 .. c : k < l => s[k] < s[l]
    <2> SUFFICES ASSUME NEW k \in 1 .. c, NEW l \in 1 .. c, k < l
                 PROVE  s[k] < s[l]
      OBVIOUS
    <2> PICK m, n : m = s[k] /\ n = s[l]
      OBVIOUS
    <2>1. m \in S /\ n \in S /\ Rank(S, m) = k /\ Rank(S, n) = l
      BY <1>3
    <2>2. \A x, y \in S : x < y <=> Rank(S, x) < Rank(S, y)
      BY Ranks
    <2>3. m < n <=> Rank(S, m) < Rank(S, n)
      BY <2>1, <2>2
    <2> QED
      BY <2>1, <2>3
  <1>6. \A n \in S : \E k \in 1 .. c : s[k] = n
    <2> SUFFICES ASSUME NEW n \in S PROVE \E k \in 1 .. c : s[k] = n
      OBVIOUS
    <2>1. PICK k \in 1 .. c : k = Rank(S, n)
      BY Ranks
    <2>2. Rank(S, s[k]) = Rank(S, n) /\ s[k] \in S
      BY <1>3, <2>1
    <2>7. PICK m, r : m = s[k] /\ r = Rank(S, n)
      OBVIOUS
    <2>3. m \in S /\ Rank(S, m) = r /\ r \in Int /\ m \in Int /\ n \in Int
      <3>1. m \in S /\ Rank(S, m) = r
        BY <2>2, <2>7
      <3>2. m \in Int /\ n \in Int /\ Rank(S, n) \in 1 .. Cardinality(S)
        BY <3>1, Ranks
      <3> QED
        BY <2>7, <3>1, <3>2
    <2>4. (m < n <=> Rank(S, m) < Rank(S, n)) /\ (n < m <=> Rank(S, n) < Rank(S, m))
      BY <2>3, Ranks
    <2>6. (m < n => r < r) /\ (n < m => r < r)
      BY <2>3, <2>4, <2>7
    <2>5. m = n
      BY <2>3, <2>6
    <2> QED
      BY <2>5, <2>7
  <1> QED
    BY <1>1, <1>4, <1>5, <1>6

\* Only one list of a set's numbers is ascending.
LEMMA AscendingUnique ==
    ASSUME NEW S \in SUBSET Int, IsFiniteSet(S), NEW n \in Nat,
           NEW at \in [1 .. n -> S],
           \A k, l \in 1 .. n : k < l => at[k] < at[l],
           \A x \in S : \E k \in 1 .. n : at[k] = x
    PROVE  at = Ascending(S)
  <1>1. \A k, l \in 1 .. n : at[k] \in Int /\ (at[k] <= at[l] <=> k <= l)
    <2> SUFFICES ASSUME NEW k \in 1 .. n, NEW l \in 1 .. n
                 PROVE  at[k] \in Int /\ (at[k] <= at[l] <=> k <= l)
      OBVIOUS
    <2>1. at[k] \in Int /\ at[l] \in Int
      OBVIOUS
    <2>2. (k < l => at[k] < at[l]) /\ (l < k => at[l] < at[k])
      OBVIOUS
    <2>3. k = l => at[k] = at[l]
      OBVIOUS
    <2> QED
      BY <2>1, <2>2, <2>3
  <1>2. \A k, l \in 1 .. n : at[k] = at[l] => k = l
    BY <1>1
  <1>3. Cardinality(S) = n
    <2>1. at \in Bijection(1 .. n, S)
      BY <1>2 DEF Bijection, Injection, Surjection, IsInjective
    <2>2. ExistsBijection(1 .. n, S)
      BY <2>1 DEF ExistsBijection
    <2> QED
      BY <2>2, FS_CountingElements
  <1>4. ASSUME NEW k \in 1 .. n PROVE Rank(S, at[k]) = k
    <2>1. PICK T : T = {m \in S : m <= at[k]}
      OBVIOUS
    <2>2. PICK low : low = [l \in 1 .. k |-> at[l]]
      OBVIOUS
    <2>3. k \in Nat /\ \A l \in 1 .. k : l \in 1 .. n /\ l <= k
      OBVIOUS
    <2>4. \A l \in 1 .. k : low[l] = at[l] /\ low[l] \in T
      BY <1>1, <2>1, <2>2, <2>3
    <2>5. \A x \in T : \E l \in 1 .. k : low[l] = x
      <3> SUFFICES ASSUME NEW x \in T PROVE \E l \in 1 .. k : low[l] = x
        OBVIOUS
      <3>1. x \in S /\ x <= at[k]
        BY <2>1
      <3>2. PICK l \in 1 .. n : at[l] = x
        BY <3>1
      <3>3. l \in 1 .. k
        BY <1>1, <3>1, <3>2
      <3> QED
        BY <2>4, <3>2, <3>3
    <2>6. low \in [1 .. k -> T]
      BY <2>2, <2>4
    <2>7. \A l, m \in 1 .. k : low[l] = low[m] => l = m
      BY <1>2, <2>3, <2>4
    <2>8. low \in Bijection(1 .. k, T)
      BY <2>5, <2>6, <2>7 DEF Bijection, Injection, Surjection, IsInjective
    <2>9. ExistsBijection(1 .. k, T)
      BY <2>8 DEF ExistsBijection
    <2>10. Cardinality(T) = k
      BY <2>3, <2>9, FS_CountingElements
    <2> QED
      BY <2>1, <2>10 DEF Rank
  <1>5. PICK s : s = Ascending(S)
    OBVIOUS
  <1>6. s = [k \in 1 .. n |-> CHOOSE x \in S : Rank(S, x) = k]
    BY <1>3, <1>5 DEF Ascending, Rank
  <1>7. ASSUME NEW k \in 1 .. n PROVE s[k] = at[k]
    <2>1. s[k] = CHOOSE x \in S : Rank(S, x) = k
      BY <1>6
    <2>2. at[k] \in S /\ Rank(S, at[k]) = k
      BY <1>4
    <2>3. s[k] \in S /\ Rank(S, s[k]) = k
      BY <2>1, <2>2
    <2>4. PICK l \in 1 .. n : at[l] = s[k]
      BY <2>3
    <2>5. Rank(S, at[l]) = l
      BY <1>4
    <2> QED
      BY <2>3, <2>4, <2>5
  <1>8. s = at
    BY <1>6, <1>7
  <1> QED
    BY <1>5, <1>8

\* at lists the places of S upward, and d is what s has at them.
Places(at, s, S, d) ==
    /\ at \in [1 .. Len(d) -> S]
    /\ \A k \in 1 .. Len(d) : d[k] = s[at[k]]
    /\ \A k, l \in 1 .. Len(d) : k < l => at[k] < at[l]
    /\ \A i \in S : \E k \in 1 .. Len(d) : at[k] = i

\* A set of places of a sequence is finite.
LEMMA FinitePlaces ==
    ASSUME NEW n \in Nat, NEW S, \A i \in S : i \in 1 .. n
    PROVE  S \in SUBSET Int /\ IsFiniteSet(S)
  <1>1. PICK N : N = 1 .. n
    OBVIOUS
  <1>2. S \in SUBSET N
    BY <1>1
  <1>3. IsFiniteSet(N)
    BY <1>1, FS_Interval
  <1>4. IsFiniteSet(S)
    BY <1>2, <1>3, FS_Subset
  <1> QED
    BY <1>4

\* A sublist has the elements at the places of S, in their order.
LEMMA SublistPlaces ==
    ASSUME NEW T, NEW s \in Seq(T), NEW S, \A i \in S : i \in 1 .. Len(s),
           NEW d, d = Sublist(s, S)
    PROVE  d \in Seq(T) /\ Len(d) \in Nat /\ \E at : Places(at, s, S, d)
  <1>1. PICK n : n = Len(s)
    OBVIOUS
  <1>2. n \in Nat /\ \A k \in 1 .. n : s[k] \in T
    BY <1>1
  <1>3. \A i \in S : i \in 1 .. n
    BY <1>1
  <1>4. PICK at, m : at = Ascending(S) /\ m = Len(at)
    OBVIOUS
  <1>5. S \in SUBSET Int /\ IsFiniteSet(S)
    BY <1>2, <1>3, FinitePlaces
  <1>6. /\ at \in Seq(S) /\ m \in Nat
        /\ \A k, l \in 1 .. m : k < l => at[k] < at[l]
        /\ \A i \in S : \E k \in 1 .. m : at[k] = i
    BY <1>4, <1>5, AscendingList
  <1>7. DOMAIN at = 1 .. m /\ at \in [1 .. m -> S]
    BY <1>4, <1>6
  <1>8. d = [k \in 1 .. m |-> s[at[k]]]
    BY <1>4, <1>7 DEF Sublist
  <1>9. \A k \in 1 .. m : s[at[k]] \in T
    BY <1>2, <1>3, <1>7
  <1>10. d \in Seq(T) /\ Len(d) = m
    BY <1>6, <1>8, <1>9
  <1>11. Places(at, s, S, d)
    BY <1>6, <1>7, <1>8, <1>10 DEF Places
  <1> QED
    BY <1>6, <1>10, <1>11

\* There is only one such list.
LEMMA SublistUnique ==
    ASSUME NEW T, NEW s \in Seq(T), NEW S, \A i \in S : i \in 1 .. Len(s),
           NEW d \in Seq(T), NEW at, Places(at, s, S, d)
    PROVE  d = Sublist(s, S)
  <1>1. PICK n, m : n = Len(s) /\ m = Len(d)
    OBVIOUS
  <1>2. n \in Nat /\ m \in Nat /\ d = [k \in 1 .. m |-> d[k]]
    BY <1>1
  <1>3. \A i \in S : i \in 1 .. n
    BY <1>1
  <1>4. /\ at \in [1 .. m -> S]
        /\ \A k \in 1 .. m : d[k] = s[at[k]]
        /\ \A k, l \in 1 .. m : k < l => at[k] < at[l]
        /\ \A i \in S : \E k \in 1 .. m : at[k] = i
    BY <1>1 DEF Places
  <1>5. S \in SUBSET Int /\ IsFiniteSet(S)
    BY <1>2, <1>3, FinitePlaces
  <1>6. at = Ascending(S)
    BY <1>2, <1>4, <1>5, AscendingUnique
  <1>7. DOMAIN at = 1 .. m
    BY <1>4
  <1>8. Sublist(s, S) = [k \in 1 .. m |-> s[at[k]]]
    BY <1>6, <1>7 DEF Sublist
  <1> QED
    BY <1>2, <1>4, <1>8

\* Drop leaves the other entries, in their order.
LEMMA Dropped ==
    ASSUME NEW T, NEW s \in Seq(T), NEW S, NEW d, d = Drop(s, S)
    PROVE  /\ d \in Seq(T) /\ Len(d) \in Nat
           /\ ToSet(d) = ToSet(s) \ S
           /\ \E at \in [1 .. Len(d) -> 1 .. Len(s)] :
                /\ \A k \in 1 .. Len(d) : d[k] = s[at[k]]
                /\ \A k, l \in 1 .. Len(d) : k < l => at[k] < at[l]
  <1>1. PICK left, n : left = {k \in DOMAIN s : s[k] \notin S} /\ n = Len(s)
    OBVIOUS
  <1>2. n \in Nat /\ DOMAIN s = 1 .. n
    BY <1>1
  <1>3. \A i \in left : i \in 1 .. Len(s)
    BY <1>1, <1>2
  <1>4. d = Sublist(s, left)
    BY <1>1 DEF Drop
  <1>5. d \in Seq(T) /\ Len(d) \in Nat /\ \E at : Places(at, s, left, d)
    BY <1>3, <1>4, SublistPlaces
  <1>6. PICK m, at : m = Len(d) /\ Places(at, s, left, d)
    BY <1>5
  <1>7. /\ at \in [1 .. m -> left]
        /\ \A k \in 1 .. m : d[k] = s[at[k]]
        /\ \A k, l \in 1 .. m : k < l => at[k] < at[l]
        /\ \A i \in left : \E k \in 1 .. m : at[k] = i
    BY <1>6 DEF Places
  <1>8. at \in [1 .. m -> 1 .. n] /\ DOMAIN d = 1 .. m
    BY <1>1, <1>3, <1>5, <1>6, <1>7
  <1>9. ToSet(d) = ToSet(s) \ S
    <2>1. ToSet(d) \subseteq ToSet(s) \ S
      BY <1>1, <1>2, <1>7, <1>8 DEF ToSet
    <2>2. ASSUME NEW x \in ToSet(s) \ S PROVE x \in ToSet(d)
      <3>1. PICK i \in DOMAIN s : s[i] = x
        BY DEF ToSet
      <3>2. PICK k \in 1 .. m : at[k] = i
        BY <1>1, <1>7, <3>1
      <3> QED
        BY <1>7, <1>8, <3>1, <3>2 DEF ToSet
    <2> QED
      BY <2>1, <2>2
  <1>10. \E up \in [1 .. m -> 1 .. n] :
           /\ \A k \in 1 .. m : d[k] = s[up[k]]
           /\ \A k, l \in 1 .. m : k < l => up[k] < up[l]
    BY <1>7, <1>8
  <1> QED
    BY <1>1, <1>5, <1>6, <1>9, <1>10

\* Keep leaves the entries that are in S, in their order.
LEMMA KeptPlaces ==
    ASSUME NEW T, NEW s \in Seq(T), NEW S, NEW d, d = Keep(s, S),
           NEW kept, kept = {k \in DOMAIN s : s[k] \in S}
    PROVE  d \in Seq(T) /\ Len(d) \in Nat /\ \E at : Places(at, s, kept, d)
  <1>1. \A i \in kept : i \in 1 .. Len(s)
    OBVIOUS
  <1>2. d = Sublist(s, kept)
    BY DEF Keep
  <1> QED
    BY <1>1, <1>2, SublistPlaces

\* A list of entries in S, all of them, in their order, is what Keep leaves.
LEMMA KeptUnique ==
    ASSUME NEW T, NEW s \in Seq(T), NEW S,
           NEW kept, kept = {k \in DOMAIN s : s[k] \in S},
           NEW d \in Seq(T), NEW at, Places(at, s, kept, d)
    PROVE  d = Keep(s, S)
  <1>1. \A i \in kept : i \in 1 .. Len(s)
    OBVIOUS
  <1>2. d = Sublist(s, kept)
    BY <1>1, SublistUnique
  <1> QED
    BY <1>2 DEF Keep

\* Something is kept if it is in the list and in S.
LEMMA KeptSet ==
    ASSUME NEW T, NEW s \in Seq(T), NEW S
    PROVE  ToSet(Keep(s, S)) = ToSet(s) \cap S
  <1>1. PICK d, kept, n :
          d = Keep(s, S) /\ kept = {k \in DOMAIN s : s[k] \in S} /\ n = Len(s)
    OBVIOUS
  <1>2. n \in Nat /\ DOMAIN s = 1 .. n
    BY <1>1
  <1>3. d \in Seq(T) /\ Len(d) \in Nat /\ \E at : Places(at, s, kept, d)
    BY <1>1, KeptPlaces
  <1>4. PICK m, at : m = Len(d) /\ Places(at, s, kept, d)
    BY <1>3
  <1>5. /\ at \in [1 .. m -> kept]
        /\ \A k \in 1 .. m : d[k] = s[at[k]]
        /\ \A i \in kept : \E k \in 1 .. m : at[k] = i
    BY <1>4 DEF Places
  <1>6. DOMAIN d = 1 .. m
    BY <1>3, <1>4
  <1>7. ToSet(d) \subseteq ToSet(s) \cap S
    BY <1>1, <1>2, <1>5, <1>6 DEF ToSet
  <1>8. ASSUME NEW x \in ToSet(s) \cap S PROVE x \in ToSet(d)
    <2>1. PICK i \in DOMAIN s : s[i] = x
      BY DEF ToSet
    <2>2. PICK k \in 1 .. m : at[k] = i
      BY <1>1, <1>5, <2>1
    <2> QED
      BY <1>5, <1>6, <2>1, <2>2 DEF ToSet
  <1>9. ToSet(d) = ToSet(s) \cap S
    BY <1>7, <1>8
  <1> QED
    BY <1>1, <1>9

\* Keep leaves a list of the same type.
LEMMA KeptType ==
    ASSUME NEW T, NEW s \in Seq(T), NEW S
    PROVE  Keep(s, S) \in Seq(T)
  <1>1. PICK kept : kept = {k \in DOMAIN s : s[k] \in S}
    OBVIOUS
  <1> QED
    BY <1>1, KeptPlaces

\* What has been dropped is not kept.
LEMMA DroppedNotKept ==
    ASSUME NEW T, NEW s \in Seq(T), NEW S
    PROVE  Keep(Drop(s, S), S) = <<>>
  <1>1. PICK d, e : d = Drop(s, S) /\ e = Keep(d, S)
    OBVIOUS
  <1>2. d \in Seq(T) /\ ToSet(d) = ToSet(s) \ S
    BY <1>1, Dropped
  <1>3. d \in Seq(T)
    BY <1>2
  <1>4. Keep(d, S) \in Seq(T)
    BY <1>3, KeptType
  <1>5. ToSet(Keep(d, S)) = ToSet(d) \cap S
    BY <1>3, KeptSet
  <1>6. e \in Seq(T) /\ ToSet(e) = {}
    BY <1>1, <1>2, <1>4, <1>5
  <1>7. DOMAIN e = {}
    BY <1>6 DEF ToSet
  <1>8. Len(e) = 0
    <2>1. PICK n : n = Len(e)
      OBVIOUS
    <2>2. n \in Nat /\ DOMAIN e = 1 .. n
      BY <1>6, <2>1
    <2>3. ~(1 \in 1 .. n)
      BY <1>7, <2>2
    <2> QED
      BY <2>1, <2>2, <2>3
  <1>9. e = <<>>
    BY <1>6, <1>8
  <1> QED
    BY <1>1, <1>9

\* Keeping what is not dropped takes no notice of the dropping.
LEMMA KeptOfDropped ==
    ASSUME NEW T, NEW s \in Seq(T), NEW P, NEW S, P \cap S = {}
    PROVE  Keep(Drop(s, S), P) = Keep(s, P)
  <1>1. PICK d, left, n :
          d = Drop(s, S) /\ left = {k \in DOMAIN s : s[k] \notin S} /\ n = Len(s)
    OBVIOUS
  <1>2. n \in Nat /\ DOMAIN s = 1 .. n /\ \A i \in left : i \in 1 .. Len(s)
    BY <1>1
  <1>3. d = Sublist(s, left)
    BY <1>1 DEF Drop
  <1>4. d \in Seq(T) /\ Len(d) \in Nat /\ \E at : Places(at, s, left, d)
    BY <1>2, <1>3, SublistPlaces
  <1>5. PICK m, at : m = Len(d) /\ Places(at, s, left, d)
    BY <1>4
  <1>6. /\ at \in [1 .. m -> left]
        /\ \A k \in 1 .. m : d[k] = s[at[k]]
        /\ \A k, l \in 1 .. m : k < l => at[k] < at[l]
        /\ \A i \in left : \E k \in 1 .. m : at[k] = i
    BY <1>5 DEF Places
  <1>7. PICK e, found, kept :
          /\ e = Keep(d, P) /\ found = {k \in DOMAIN d : d[k] \in P}
          /\ kept = {k \in DOMAIN s : s[k] \in P}
    OBVIOUS
  <1>8. e \in Seq(T) /\ Len(e) \in Nat /\ \E up : Places(up, d, found, e)
    BY <1>4, <1>7, KeptPlaces
  <1>9. PICK c, up : c = Len(e) /\ Places(up, d, found, e)
    BY <1>8
  <1>10. /\ up \in [1 .. c -> found]
         /\ \A k \in 1 .. c : e[k] = d[up[k]]
         /\ \A k, l \in 1 .. c : k < l => up[k] < up[l]
         /\ \A i \in found : \E k \in 1 .. c : up[k] = i
    BY <1>9 DEF Places
  <1>11. DOMAIN d = 1 .. m /\ \A k \in 1 .. c : up[k] \in 1 .. m /\ d[up[k]] \in P
    BY <1>4, <1>5, <1>7, <1>10
  <1>12. PICK to : to = [k \in 1 .. c |-> at[up[k]]]
    OBVIOUS
  <1>13. \A k \in 1 .. c : to[k] = at[up[k]] /\ to[k] \in left /\ e[k] = s[to[k]]
    BY <1>6, <1>10, <1>11, <1>12
  <1>14. \A k \in 1 .. c : to[k] \in kept
    BY <1>1, <1>7, <1>10, <1>11, <1>13
  <1>15. to \in [1 .. c -> kept]
    BY <1>12, <1>13, <1>14
  <1>16. \A k, l \in 1 .. c : k < l => to[k] < to[l]
    <2> SUFFICES ASSUME NEW k \in 1 .. c, NEW l \in 1 .. c, k < l
                 PROVE  to[k] < to[l]
      OBVIOUS
    <2>1. up[k] < up[l] /\ up[k] \in 1 .. m /\ up[l] \in 1 .. m
      BY <1>10, <1>11
    <2>2. at[up[k]] < at[up[l]]
      BY <1>6, <2>1
    <2> QED
      BY <1>13, <2>2
  <1>17. \A i \in kept : \E k \in 1 .. c : to[k] = i
    <2> SUFFICES ASSUME NEW i \in kept PROVE \E k \in 1 .. c : to[k] = i
      OBVIOUS
    <2>1. i \in left /\ s[i] \in P
      BY <1>1, <1>7
    <2>2. PICK l \in 1 .. m : at[l] = i
      BY <1>6, <2>1
    <2>3. l \in found
      BY <1>6, <1>7, <1>11, <2>1, <2>2
    <2>4. PICK k \in 1 .. c : up[k] = l
      BY <1>10, <2>3
    <2> QED
      BY <1>13, <2>2, <2>4
  <1>18. Places(to, s, kept, e)
    BY <1>9, <1>13, <1>15, <1>16, <1>17 DEF Places
  <1>19. e = Keep(s, P)
    BY <1>7, <1>8, <1>18, KeptUnique
  <1> QED
    BY <1>1, <1>7, <1>19

\* An entry put at the end is the last that is kept, if it is in P ...
LEMMA KeptOfAppended ==
    ASSUME NEW T, NEW s \in Seq(T), NEW e \in T, NEW P, e \in P
    PROVE  Keep(Append(s, e), P) = Append(Keep(s, P), e)
  <1>1. PICK d, r, n, kept, more :
          /\ d = Keep(s, P) /\ r = Append(s, e) /\ n = Len(s)
          /\ kept = {k \in DOMAIN s : s[k] \in P}
          /\ more = {k \in DOMAIN r : r[k] \in P}
    OBVIOUS
  <1>2. /\ n \in Nat /\ DOMAIN s = 1 .. n /\ r \in Seq(T) /\ DOMAIN r = 1 .. n + 1
        /\ r[n + 1] = e /\ \A i \in 1 .. n : r[i] = s[i]
        /\ \A i \in 1 .. n + 1 : i = n + 1 \/ i \in 1 .. n
        /\ \A i \in 1 .. n : i \in 1 .. n + 1 /\ i < n + 1
        /\ n + 1 \in 1 .. n + 1
    BY <1>1
  <1>3. /\ \A i \in kept : i \in more /\ i < n + 1 /\ r[i] = s[i]
        /\ n + 1 \in more
        /\ \A i \in more : i = n + 1 \/ i \in kept
    BY <1>1, <1>2
  <1>4. d \in Seq(T) /\ Len(d) \in Nat /\ \E at : Places(at, s, kept, d)
    BY <1>1, KeptPlaces
  <1>5. PICK m, at : m = Len(d) /\ Places(at, s, kept, d)
    BY <1>4
  <1>6. /\ at \in [1 .. m -> kept]
        /\ \A k \in 1 .. m : d[k] = s[at[k]]
        /\ \A k, l \in 1 .. m : k < l => at[k] < at[l]
        /\ \A i \in kept : \E k \in 1 .. m : at[k] = i
    BY <1>5 DEF Places
  <1>7. PICK a : a = Append(d, e)
    OBVIOUS
  <1>8. /\ a \in Seq(T) /\ Len(a) = m + 1 /\ m \in Nat
        /\ a[m + 1] = e /\ \A k \in 1 .. m : a[k] = d[k]
        /\ \A k \in 1 .. m + 1 : k = m + 1 \/ k \in 1 .. m
        /\ \A k \in 1 .. m : k \in 1 .. m + 1 /\ k # m + 1
        /\ m + 1 \in 1 .. m + 1
    BY <1>4, <1>5, <1>7
  <1>9. PICK to : to = [k \in 1 .. m + 1 |-> IF k = m + 1 THEN n + 1 ELSE at[k]]
    OBVIOUS
  <1>10. to[m + 1] = n + 1 /\ \A k \in 1 .. m : to[k] = at[k] /\ at[k] \in kept
    BY <1>6, <1>8, <1>9
  <1>11. \A k \in 1 .. m + 1 : to[k] \in more /\ a[k] = r[to[k]]
    BY <1>2, <1>3, <1>6, <1>8, <1>10
  <1>12. to \in [1 .. m + 1 -> more]
    BY <1>9, <1>11
  <1>13. \A k, l \in 1 .. m + 1 : k < l => to[k] < to[l]
    <2> SUFFICES ASSUME NEW k \in 1 .. m + 1, NEW l \in 1 .. m + 1, k < l
                 PROVE  to[k] < to[l]
      OBVIOUS
    <2>1. k \in 1 .. m
      BY <1>8
    <2>2. CASE l = m + 1
      BY <1>3, <1>10, <2>1, <2>2
    <2>3. CASE l \in 1 .. m
      BY <1>6, <1>10, <2>1, <2>3
    <2> QED
      BY <1>8, <2>2, <2>3
  <1>14. \A i \in more : \E k \in 1 .. m + 1 : to[k] = i
    <2> SUFFICES ASSUME NEW i \in more PROVE \E k \in 1 .. m + 1 : to[k] = i
      OBVIOUS
    <2>1. CASE i = n + 1
      BY <1>8, <1>10, <2>1
    <2>2. CASE i \in kept
      <3>1. PICK k \in 1 .. m : at[k] = i
        BY <1>6, <2>2
      <3> QED
        BY <1>8, <1>10, <3>1
    <2> QED
      BY <1>3, <2>1, <2>2
  <1>15. Places(to, r, more, a)
    BY <1>8, <1>11, <1>12, <1>13, <1>14 DEF Places
  <1>16. a = Keep(r, P)
    <2>1. r \in Seq(T) /\ a \in Seq(T)
      BY <1>2, <1>8
    <2>2. more = {k \in DOMAIN r : r[k] \in P}
      BY <1>1
    <2> QED
      BY <1>15, <2>1, <2>2, KeptUnique
  <1> QED
    BY <1>1, <1>7, <1>16

\* ... and else changes nothing of what is kept.
LEMMA KeptBeforeAppended ==
    ASSUME NEW T, NEW s \in Seq(T), NEW e \in T, NEW P, e \notin P
    PROVE  Keep(Append(s, e), P) = Keep(s, P)
  <1>1. PICK d, r, n, kept, same :
          /\ d = Keep(s, P) /\ r = Append(s, e) /\ n = Len(s)
          /\ kept = {k \in DOMAIN s : s[k] \in P}
          /\ same = {k \in DOMAIN r : r[k] \in P}
    OBVIOUS
  <1>2. /\ n \in Nat /\ DOMAIN s = 1 .. n /\ r \in Seq(T) /\ DOMAIN r = 1 .. n + 1
        /\ r[n + 1] = e /\ \A i \in 1 .. n : r[i] = s[i] /\ i \in 1 .. n + 1
        /\ \A i \in 1 .. n + 1 : i = n + 1 \/ i \in 1 .. n
    BY <1>1
  <1>3. same = kept /\ \A i \in kept : r[i] = s[i]
    BY <1>1, <1>2
  <1>4. d \in Seq(T) /\ Len(d) \in Nat /\ \E at : Places(at, s, kept, d)
    BY <1>1, KeptPlaces
  <1>5. PICK at : Places(at, s, kept, d)
    BY <1>4
  <1>6. Places(at, r, same, d)
    BY <1>3, <1>5 DEF Places
  <1>7. d = Keep(r, P)
    BY <1>1, <1>2, <1>4, <1>6, KeptUnique
  <1> QED
    BY <1>1, <1>7

-----------------------------------------------------------------------------
(* Append, InsertAt and RemoveAt.                                          *)

\* A sequence in which nothing occurs twice is as long as its set is large.
LEMMA LengthOfInjective ==
    ASSUME NEW T, NEW s \in Seq(T), IsInjective(s)
    PROVE  IsFiniteSet(ToSet(s)) /\ Cardinality(ToSet(s)) = Len(s)
  <1>1. PICK n \in Nat : n = Len(s)
    OBVIOUS
  <1>2. DOMAIN s = 1 .. n
    BY <1>1
  <1>3. PICK S : S = ToSet(s)
    OBVIOUS
  <1>4. s \in [1 .. n -> S] /\ \A x \in S : \E k \in 1 .. n : s[k] = x
    BY <1>2, <1>3 DEF ToSet
  <1>5. \A k, l \in 1 .. n : s[k] = s[l] => k = l
    BY <1>2 DEF IsInjective
  <1>6. s \in Bijection(1 .. n, S)
    BY <1>4, <1>5 DEF Bijection, Injection, Surjection, IsInjective
  <1>7. ExistsBijection(1 .. n, S)
    BY <1>6 DEF ExistsBijection
  <1>8. Cardinality(S) = n /\ IsFiniteSet(S)
    BY <1>1, <1>7, FS_CountingElements, FS_NatBijection
  <1> QED
    BY <1>1, <1>3, <1>8

\* Append.
LEMMA AppendedSet ==
    ASSUME NEW T, NEW s \in Seq(T), NEW e \in T
    PROVE  ToSet(Append(s, e)) = ToSet(s) \cup {e}
  <1>1. PICK r, n : r = Append(s, e) /\ n = Len(s)
    OBVIOUS
  <1>2. /\ n \in Nat /\ DOMAIN s = 1 .. n /\ DOMAIN r = 1 .. n + 1
        /\ 1 .. n + 1 = (1 .. n) \cup {n + 1}
        /\ r[n + 1] = e /\ \A k \in 1 .. n : r[k] = s[k]
    BY <1>1
  <1>3. ToSet(r) = ToSet(s) \cup {e}
    BY <1>2 DEF ToSet
  <1> QED
    BY <1>1, <1>3

\* The entries of a list with one more.
LEMMA Appended ==
    ASSUME NEW T, NEW s \in Seq(T), NEW e \in T, NEW r, r = Append(s, e)
    PROVE  /\ r \in Seq(T) /\ Len(r) = Len(s) + 1 /\ Len(s) \in Nat
           /\ r[Len(s) + 1] = e /\ \A k \in 1 .. Len(s) : r[k] = s[k]
  OBVIOUS

\* A list with something new at its end lists nothing twice.
LEMMA AppendedOnce ==
    ASSUME NEW T, NEW s \in Seq(T), NEW e \in T, IsInjective(s), e \notin ToSet(s)
    PROVE  IsInjective(Append(s, e))
  <1>1. PICK r, n : r = Append(s, e) /\ n = Len(s)
    OBVIOUS
  <1>2. /\ n \in Nat /\ DOMAIN s = 1 .. n /\ DOMAIN r = 1 .. n + 1
        /\ 1 .. n + 1 = (1 .. n) \cup {n + 1}
        /\ r[n + 1] = e /\ \A k \in 1 .. n : r[k] = s[k]
    BY <1>1
  <1>3. IsInjective(r)
    BY <1>2 DEF ToSet, IsInjective
  <1> QED
    BY <1>1, <1>3

\* InsertAt.
LEMMA Inserted ==
    ASSUME NEW T, NEW s \in Seq(T), NEW i \in 1 .. Len(s) + 1, NEW e \in T,
           NEW r, r = InsertAt(s, i, e)
    PROVE  /\ r \in Seq(T) /\ Len(r) = Len(s) + 1
           /\ \A k \in 1 .. Len(r) :
                r[k] = IF k < i THEN s[k] ELSE IF k = i THEN e ELSE s[k - 1]
  <1>0. PICK n : n = Len(s)
    OBVIOUS
  <1>1. n \in Nat /\ i \in Int /\ 1 <= i /\ i <= n + 1 /\ \A k \in 1 .. n : s[k] \in T
    BY <1>0
  <1>9. PICK a, b : a = SubSeq(s, 1, i - 1) /\ b = SubSeq(s, i, n)
    OBVIOUS
  <1>2. a \in Seq(T) /\ Len(a) = i - 1 /\ \A k \in 1 .. i - 1 : a[k] = s[k]
    <2>1. \A k \in 1 .. i - 1 : s[k] \in T
      BY <1>1
    <2> PICK m : m = i - 1
      OBVIOUS
    <2>2. m \in Int /\ m >= 0
      BY <1>1
    <2>3. a \in Seq(T) /\ Len(a) = (IF 1 <= m THEN m - 1 + 1 ELSE 0)
          /\ \A k \in 1 .. m - 1 + 1 : a[k] = s[1 + k - 1]
      BY <1>9, <2>1, <2>2, SubSeqProperties
    <2> QED
      BY <2>2, <2>3
  <1>3. b \in Seq(T) /\ Len(b) = n - i + 1 /\ \A k \in 1 .. n - i + 1 : b[k] = s[i + k - 1]
    <2>1. \A k \in i .. n : s[k] \in T
      BY <1>1
    <2>2. b \in Seq(T) /\ Len(b) = (IF i <= n THEN n - i + 1 ELSE 0)
          /\ \A k \in 1 .. n - i + 1 : b[k] = s[i + k - 1]
      BY <1>1, <1>9, <2>1, SubSeqProperties
    <2> QED
      BY <1>1, <2>2
  <1>4. r = (a \o <<e>>) \o b
    BY <1>0, <1>9 DEF InsertAt
  <1>10. PICK p : p = a \o <<e>>
    OBVIOUS
  <1>5. p \in Seq(T) /\ Len(p) = i /\ p[i] = e /\ \A k \in 1 .. i - 1 : p[k] = s[k]
    BY <1>1, <1>2, <1>10
  <1>6. /\ r \in Seq(T) /\ Len(r) = n + 1
        /\ \A k \in 1 .. i : r[k] = p[k]
        /\ \A k \in 1 .. n - i + 1 : r[i + k] = b[k]
    <2>0. PICK m : m = n - i + 1
      OBVIOUS
    <2>1. i \in Nat /\ m \in Nat /\ i + m = n + 1
      BY <1>1, <2>0
    <2>2. p \in Seq(T) /\ Len(p) = i /\ b \in Seq(T) /\ Len(b) = m
      BY <1>3, <1>5, <2>0
    <2>3. /\ p \o b \in Seq(T) /\ Len(p \o b) = i + m
          /\ \A k \in 1 .. i : (p \o b)[k] = p[k]
          /\ \A k \in 1 .. m : (p \o b)[i + k] = b[k]
      BY <2>1, <2>2
    <2> QED
      BY <1>4, <1>10, <2>0, <2>1, <2>3
  <1>8. \A k \in 1 .. n + 1 :
          r[k] = IF k < i THEN s[k] ELSE IF k = i THEN e ELSE s[k - 1]
    <2> SUFFICES ASSUME NEW k \in 1 .. n + 1
                 PROVE  r[k] = IF k < i THEN s[k] ELSE IF k = i THEN e ELSE s[k - 1]
      OBVIOUS
    <2>1. CASE k <= i
      BY <1>1, <1>5, <1>6, <2>1
    <2>2. CASE k > i
      <3> PICK l : l = k - i
        OBVIOUS
      <3>1. l \in 1 .. n - i + 1 /\ i + l = k /\ i + l - 1 = k - 1
        BY <1>1, <2>2
      <3>2. r[k] = b[l] /\ b[l] = s[k - 1]
        BY <1>3, <1>6, <3>1
      <3> QED
        BY <1>1, <2>2, <3>2
    <2> QED
      BY <1>1, <2>1, <2>2
  <1> QED
    BY <1>0, <1>6, <1>8

\* RemoveAt.
LEMMA RemovedAt ==
    ASSUME NEW T, NEW s \in Seq(T), NEW i \in 1 .. Len(s), NEW r, r = RemoveAt(s, i)
    PROVE  /\ r \in Seq(T) /\ Len(r) = Len(s) - 1 /\ Len(r) \in Nat
           /\ \A k \in 1 .. Len(r) : r[k] = IF k < i THEN s[k] ELSE s[k + 1]
  <1>0. PICK n : n = Len(s)
    OBVIOUS
  <1>1. n \in Nat /\ i \in Int /\ 1 <= i /\ i <= n /\ \A k \in 1 .. n : s[k] \in T
    BY <1>0
  <1>9. PICK a, b : a = SubSeq(s, 1, i - 1) /\ b = SubSeq(s, i + 1, n)
    OBVIOUS
  <1>2. a \in Seq(T) /\ Len(a) = i - 1 /\ \A k \in 1 .. i - 1 : a[k] = s[k]
    <2>1. \A k \in 1 .. i - 1 : s[k] \in T
      BY <1>1
    <2> PICK m : m = i - 1
      OBVIOUS
    <2>2. m \in Int /\ m >= 0
      BY <1>1
    <2>3. a \in Seq(T) /\ Len(a) = (IF 1 <= m THEN m - 1 + 1 ELSE 0)
          /\ \A k \in 1 .. m - 1 + 1 : a[k] = s[1 + k - 1]
      BY <1>9, <2>1, <2>2, SubSeqProperties
    <2> QED
      BY <2>2, <2>3
  <1>3. b \in Seq(T) /\ Len(b) = n - i /\ \A k \in 1 .. n - i : b[k] = s[i + k]
    <2> PICK j : j = i + 1
      OBVIOUS
    <2>1. j \in Int /\ \A k \in j .. n : s[k] \in T
      BY <1>1
    <2>2. b \in Seq(T) /\ Len(b) = (IF j <= n THEN n - j + 1 ELSE 0)
          /\ \A k \in 1 .. n - j + 1 : b[k] = s[j + k - 1]
      BY <1>1, <1>9, <2>1, SubSeqProperties
    <2> QED
      BY <1>1, <2>2
  <1>4. r = a \o b
    BY <1>0, <1>9 DEF RemoveAt
  <1>5. /\ r \in Seq(T) /\ Len(r) = n - 1
        /\ \A k \in 1 .. i - 1 : r[k] = a[k]
        /\ \A k \in 1 .. n - i : r[i - 1 + k] = b[k]
    <2>0. PICK m, l : m = n - i /\ l = i - 1
      OBVIOUS
    <2>1. l \in Nat /\ m \in Nat /\ l + m = n - 1
      BY <1>1, <2>0
    <2>2. a \in Seq(T) /\ Len(a) = l /\ b \in Seq(T) /\ Len(b) = m
      BY <1>2, <1>3, <2>0
    <2>3. /\ a \o b \in Seq(T) /\ Len(a \o b) = l + m
          /\ \A k \in 1 .. l : (a \o b)[k] = a[k]
          /\ \A k \in 1 .. m : (a \o b)[l + k] = b[k]
      BY <2>1, <2>2
    <2> QED
      BY <1>4, <2>0, <2>1, <2>3
  <1>6. \A k \in 1 .. n - 1 : r[k] = IF k < i THEN s[k] ELSE s[k + 1]
    <2> SUFFICES ASSUME NEW k \in 1 .. n - 1
                 PROVE  r[k] = IF k < i THEN s[k] ELSE s[k + 1]
      OBVIOUS
    <2>2. CASE k < i
      <3>1. k \in 1 .. i - 1
        BY <1>1, <2>2
      <3> QED
        BY <1>2, <1>5, <2>2, <3>1
    <2>3. CASE k >= i
      <3> PICK l : l = k - (i - 1)
        OBVIOUS
      <3>1. l \in 1 .. n - i /\ i - 1 + l = k /\ i + l = k + 1
        BY <1>1, <2>3
      <3>2. r[k] = b[l] /\ b[l] = s[k + 1]
        BY <1>3, <1>5, <3>1
      <3> QED
        BY <1>1, <2>3, <3>2
    <2> QED
      BY <1>1, <2>2, <2>3
  <1> QED
    BY <1>0, <1>1, <1>5, <1>6
=============================================================================
