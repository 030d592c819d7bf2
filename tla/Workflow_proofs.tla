-------------------------- MODULE Workflow_proofs --------------------------
(***************************************************************************)
(* Proofs about the workflow plugin: the type invariant, what waits to be  *)
(* recovered, the game's lists, the pointers an operation follows, and how *)
(* long a job stays protected.  The invariant says of the game's lists     *)
(* that they agree (GameInv), of the plugin's that what is lost is what    *)
(* waits (PluginInv), of ids that none is used twice (IdsInv), of an       *)
(* operation that its steps come in an order (Shape) in which pointers are *)
(* made before they are followed (Pointers).                               *)
(***************************************************************************)
EXTENDS Workflow, Sublists_proofs

-----------------------------------------------------------------------------
(* The invariant.                                                          *)

\* A workshop lists its jobs, each once, and no more than it takes.
ShopInv(w) ==
    /\ IsInjective(shop[w].jobs)
    /\ ToSet(shop[w].jobs) = {j \in Listed : job[j].shop = w}
    /\ Load(w) <= MaxJobs

\* The game's lists have their types and agree with each other.
GameInv ==
    /\ loaded \in BOOLEAN
    /\ job_list \in Seq(JobIds)
    /\ IsPartialFunction(job, JobIds, Jobs)
    /\ shop \in [Shops -> ShopStates]
    /\ job_next_id \in 1..(MaxId + 1)
    /\ stock \in [Items -> 0..MaxStock]
    /\ \A k, l \in 1 .. Len(job_list) : k < l => job_list[k] < job_list[l]
    /\ DOMAIN job = Listed
    /\ \A w \in Shops : ShopInv(w)

Lost == {j \in DOMAIN known_jobs : ~known_jobs[j].live}

\* What the plugin protects, and what of it is lost.
PluginInv ==
    /\ IsPartialFunction(known_jobs, JobIds, ProtectedJobs)
    /\ pending_recover \in Seq(JobIds)
    /\ IsInjective(pending_recover)
    /\ ToSet(pending_recover) = Lost

\* A lost job is not in the list, and ids are not used twice.
IdsInv ==
    /\ \A j \in Lost : j \notin Listed
    /\ \A j \in Listed \cup DOMAIN known_jobs : j < job_next_id
    /\ ~loaded => Listed = {} /\ DOMAIN known_jobs = {}

SettingsInv ==
    /\ saved = [enabled |-> saved.enabled, limits |-> saved.limits]
    /\ saved.enabled \in BOOLEAN /\ enabled \in BOOLEAN
    /\ IsPartialFunction(saved.limits, Items, Goals)
    /\ IsPartialFunction(constraints, Items, SUBSET (JobIds \cup {Freed}))
    /\ last_rlen \in Nat
    /\ since_tick \in 0..MaxTicks
    /\ since_day \in 0..HalfDay

\* What comes before which step of an operation.
Ordered(s) ==
    \A k \in 1 .. Len(s) :
      /\ k > 1 =>
           /\ s[k][1] # "check"
           /\ s[k][1] \in {"update", "command"} => s[k - 1][1] = "map"
           /\ s[k][1] = "print" => s[k - 1][1] = "update"
      /\ s[k][1] = "command" => k = Len(s)

Shape ==
    /\ todo \in Seq(Steps)
    /\ Ordered(todo)
    /\ ~enabled => \A k \in 1 .. Len(todo) : todo[k][1] = "command"

Fresh == \A j \in DOMAIN known_jobs : known_jobs[j].live => j \in Listed

Mapped ==
    /\ \A i \in DOMAIN constraints :
         \A j \in constraints[i] : j \in DOMAIN known_jobs /\ known_jobs[j].live
    /\ \A j \in DOMAIN known_jobs : Freed \notin known_jobs[j].constraints

\* What is known of the pointers before the next step.
Pointers ==
    enabled /\ todo # <<>> =>
      /\ todo[1][1] # "check" => Fresh
      /\ todo[1][1] \in {"update", "command", "print"} => Mapped

\* A library that is not open has no lists, and one that is closed does not
\* work.  (Kept apart from IInv, of which only plugin_init needs it.)
LibraryInv ==
    /\ library \in {"open", "torn", "closed"}
    /\ library # "open" => known_jobs = <<>> /\ pending_recover = <<>>
                            /\ constraints = <<>>
    /\ library = "closed" => ~enabled /\ todo = <<>>

IInv ==
    /\ GameInv
    /\ PluginInv
    /\ IdsInv
    /\ SettingsInv
    /\ Shape
    /\ Pointers

-----------------------------------------------------------------------------
(* The game's lists.                                                       *)

\* A list of a workshop without some of its jobs.
LEMMA DroppedJobs ==
    ASSUME NEW T, NEW s \in Seq(T), IsInjective(s), NEW S, NEW d, d = Drop(s, S)
    PROVE  /\ d \in Seq(T) /\ IsInjective(d) /\ ToSet(d) = ToSet(s) \ S
           /\ Len(d) \in Nat /\ Len(s) \in Nat /\ Len(d) <= Len(s)
           /\ S \subseteq ToSet(s) =>
                Cardinality(S) \in Nat /\ Len(d) = Len(s) - Cardinality(S)
  <1>1. /\ d \in Seq(T) /\ Len(d) \in Nat
        /\ ToSet(d) = ToSet(s) \ S
        /\ \E at \in [1 .. Len(d) -> 1 .. Len(s)] :
             /\ \A k \in 1 .. Len(d) : d[k] = s[at[k]]
             /\ \A k, l \in 1 .. Len(d) : k < l => at[k] < at[l]
    BY Dropped
  <1>2. PICK n, m : n = Len(s) /\ m = Len(d)
    OBVIOUS
  <1>3. /\ n \in Nat /\ DOMAIN s = 1 .. n
        /\ m \in Nat /\ DOMAIN d = 1 .. m
    BY <1>1, <1>2
  <1>4. PICK at \in [1 .. m -> 1 .. n] :
          /\ \A k \in 1 .. m : d[k] = s[at[k]]
          /\ \A k, l \in 1 .. m : k < l => at[k] < at[l]
    BY <1>1, <1>2
  <1>5. IsInjective(d)
    <2> SUFFICES ASSUME NEW k \in 1 .. m, NEW l \in 1 .. m, d[k] = d[l]
                 PROVE  k = l
      BY <1>3 DEF IsInjective
    <2>1. at[k] = at[l] /\ at[k] \in Int
      BY <1>3, <1>4 DEF IsInjective
    <2>2. ~(at[k] < at[l]) /\ ~(at[l] < at[k])
      BY <2>1
    <2>3. ~(k < l) /\ ~(l < k)
      BY <1>4, <2>2
    <2> QED
      BY <1>3, <2>3
  <1>6. PICK A, B : A = ToSet(s) /\ B = ToSet(d)
    OBVIOUS
  <1>7. IsFiniteSet(A) /\ Cardinality(A) = n /\ IsFiniteSet(B) /\ Cardinality(B) = m
    BY <1>1, <1>2, <1>5, <1>6, LengthOfInjective
  <1>8. B = A \ S
    BY <1>1, <1>6
  <1>9. m <= n
    <2>1. B \in SUBSET A
      BY <1>8
    <2> QED
      BY <1>7, <2>1, FS_Subset
  <1>10. ASSUME S \subseteq A
         PROVE  Cardinality(S) \in Nat /\ m = n - Cardinality(S)
    <2>1. S \in SUBSET A /\ A \cap S = S
      BY <1>10
    <2>2. IsFiniteSet(S) /\ Cardinality(S) \in Nat
      BY <1>7, <2>1, FS_Subset, FS_CardinalityType
    <2>3. Cardinality(A \ S) = Cardinality(A) - Cardinality(A \cap S)
      BY <1>7, FS_Difference
    <2> QED
      BY <1>7, <1>8, <2>1, <2>2, <2>3
  <1> QED
    BY <1>1, <1>2, <1>3, <1>5, <1>6, <1>9, <1>10

\* The jobs of S are gone from the world.
LEMMA EndedJobs ==
    ASSUME GameInv, NEW S, EndJobs(S)
    PROVE  /\ job_list' \in Seq(JobIds)
           /\ Listed' = Listed \ S
           /\ DOMAIN job' = Listed' /\ \A j \in Listed' : job'[j] = job[j]
           /\ IsPartialFunction(job', JobIds, Jobs)
           /\ \A k, l \in 1 .. Len(job_list') : k < l => job_list'[k] < job_list'[l]
  <1>1. PICK d : d = job_list'
    OBVIOUS
  <1>2. d = Drop(job_list, S) /\ job_list \in Seq(JobIds)
    BY <1>1 DEF EndJobs, GameInv
  <1>3. /\ d \in Seq(JobIds) /\ Len(d) \in Nat
        /\ ToSet(d) = ToSet(job_list) \ S
        /\ \E at \in [1 .. Len(d) -> 1 .. Len(job_list)] :
             /\ \A k \in 1 .. Len(d) : d[k] = job_list[at[k]]
             /\ \A k, l \in 1 .. Len(d) : k < l => at[k] < at[l]
    BY <1>2, Dropped
  <1>4. Listed' = Listed \ S
    BY <1>1, <1>3 DEF Listed
  <1>5. job' = [j \in Listed \ S |-> job[j]]
    BY DEF EndJobs, Without, Restrict, GameInv
  <1>6. IsPartialFunction(job', JobIds, Jobs)
    BY <1>5 DEF GameInv, IsPartialFunction
  <1>7. ASSUME NEW k \in 1 .. Len(d), NEW l \in 1 .. Len(d), k < l
        PROVE  d[k] < d[l]
    <2>1. PICK at \in [1 .. Len(d) -> 1 .. Len(job_list)] :
            /\ \A i \in 1 .. Len(d) : d[i] = job_list[at[i]]
            /\ \A i, h \in 1 .. Len(d) : i < h => at[i] < at[h]
      BY <1>3
    <2>2. at[k] < at[l] /\ at[k] \in 1 .. Len(job_list) /\ at[l] \in 1 .. Len(job_list)
      BY <1>7, <2>1
    <2> QED
      BY <2>1, <2>2 DEF GameInv
  <1> QED
    BY <1>1, <1>3, <1>4, <1>5, <1>6, <1>7

-----------------------------------------------------------------------------
(* The game: jobs linked in and ended.                                     *)

\* A step that leaves the lists and the workshops as they are, and jobs there.
SameLists ==
    /\ UNCHANGED <<loaded, job_list, shop, job_next_id, stock>>
    /\ IsPartialFunction(job', JobIds, Jobs) /\ DOMAIN job' = DOMAIN job
    /\ \A j \in Listed : job'[j].shop = job[j].shop

\* Such a step keeps the agreement of the lists.
LEMMA SameListsKeep ==
    ASSUME GameInv, SameLists
    PROVE  GameInv'
  <1>1. /\ job_list' = job_list /\ shop' = shop /\ Listed' = Listed
        /\ \A w \in Shops : Load(w)' = Load(w)
    BY DEF SameLists, Listed, Load
  <1>2. \A w \in Shops :
          {j \in Listed : job'[j].shop = w} = {j \in Listed : job[j].shop = w}
    BY DEF SameLists
  <1> QED
    BY <1>1, <1>2 DEF GameInv, ShopInv, SameLists

\* The list, with a job linked in.
LEMMA LinkedJob ==
    ASSUME GameInv, NEW j \in JobIds, j \notin Listed, NEW r, r = LinkJob(j)
    PROVE  /\ r \in Seq(JobIds) /\ ToSet(r) = Listed \cup {j}
           /\ \A k, l \in 1 .. Len(r) : k < l => r[k] < r[l]
  <1>0. PICK s, n : s = job_list /\ n = Len(s)
    OBVIOUS
  <1>1. /\ s \in Seq(JobIds) /\ n \in Nat /\ DOMAIN s = 1 .. n
        /\ \A k \in 1 .. n : s[k] \in JobIds /\ s[k] \in Int /\ s[k] # j
        /\ \A k, l \in 1 .. n : k < l => s[k] < s[l]
        /\ j \in Int
    <2>1. s \in Seq(JobIds) /\ n \in Nat /\ DOMAIN s = 1 .. n
          /\ \A k \in 1 .. n : s[k] \in JobIds
      BY <1>0 DEF GameInv
    <2>2. \A k, l \in 1 .. n : k < l => s[k] < s[l]
      BY <1>0 DEF GameInv
    <2>3. \A k \in 1 .. n : s[k] \in Listed
      BY <1>0, <2>1 DEF Listed, ToSet
    <2>4. \A i \in JobIds : i \in Int
      BY WorkflowAssumption DEF JobIds
    <2> QED
      BY <2>1, <2>2, <2>3, <2>4
  <1>2. PICK A : A = {k \in 1 .. n : \A l \in 1 .. k : s[l] < j}
    OBVIOUS
  <1>3. PICK a : a = Cardinality(A)
    OBVIOUS
  <1>4. r = InsertAt(s, a + 1, j)
    BY <1>0, <1>2, <1>3 DEF LinkJob
  <1>5. A \in SUBSET (1 .. n)
    BY <1>2
  <1>6. a \in 0 .. n /\ IsFiniteSet(A)
    <2>1. IsFiniteSet(1 .. n) /\ Cardinality(1 .. n) = n
      BY <1>1, FS_Interval
    <2>3. PICK N : N = 1 .. n
      OBVIOUS
    <2>2. IsFiniteSet(A) /\ a <= n
      BY <1>3, <1>5, <2>1, <2>3, FS_Subset
    <2> QED
      BY <1>1, <1>3, <2>2, FS_CardinalityType
  <1>7. A = 1 .. a
    <2>1. ASSUME NEW k \in A
          PROVE  1 .. k \in SUBSET A
      BY <1>1, <1>2
    <2>2. ASSUME NEW k \in A
          PROVE  k <= a /\ k \in Nat
      <3>1. k \in Nat /\ 1 <= k
        BY <1>1, <1>5
      <3>2. IsFiniteSet(1 .. k) /\ Cardinality(1 .. k) = k
        BY <3>1, FS_Interval
      <3>3. 1 .. k \in SUBSET A
        BY <2>1
      <3>4. Cardinality(1 .. k) <= Cardinality(A)
        BY <1>6, <3>3, FS_Subset
      <3> QED
        BY <1>3, <3>1, <3>2, <3>4
    <2>3. A \in SUBSET (1 .. a)
      BY <1>5, <2>2
    <2>4. IsFiniteSet(1 .. a) /\ Cardinality(1 .. a) = a
      BY <1>6, FS_Interval
    <2> QED
      BY <1>3, <2>3, <2>4, FS_Subset
  <1>8. ASSUME NEW k \in 1 .. n
        PROVE  s[k] < j <=> k <= a
    <2>1. k \in Nat
      OBVIOUS
    <2>2. ASSUME k <= a PROVE s[k] < j
      <3>1. k \in A
        BY <1>6, <1>7, <2>2
      <3> QED
        BY <1>2, <3>1
    <2>3. ASSUME s[k] < j PROVE k <= a
      <3>1. \A l \in 1 .. k : s[l] < j
        BY <1>1, <2>3
      <3>2. k \in A
        BY <1>2, <3>1
      <3> QED
        BY <1>6, <1>7, <3>2
    <2> QED
      BY <2>2, <2>3
  <1>9. PICK i : i = a + 1
    OBVIOUS
  <1>10. i \in 1 .. n + 1 /\ \A k \in 1 .. n : s[k] < j <=> k < i
    BY <1>1, <1>6, <1>8, <1>9
  <1>11. /\ r \in Seq(JobIds) /\ Len(r) = n + 1
         /\ \A k \in 1 .. n + 1 :
              r[k] = IF k < i THEN s[k] ELSE IF k = i THEN j ELSE s[k - 1]
    <2>1. r = InsertAt(s, i, j) /\ i \in 1 .. Len(s) + 1
      BY <1>0, <1>4, <1>9, <1>10
    <2> QED
      BY <1>0, <1>1, <2>1, Inserted
  <1>12. ToSet(r) = Listed \cup {j}
    <2>1. DOMAIN r = 1 .. n + 1
      BY <1>1, <1>11
    <2>2. ASSUME NEW k \in 1 .. n + 1
          PROVE  r[k] \in ToSet(s) \cup {j}
      <3>1. (k < i => k \in 1 .. n) /\ (k > i => k - 1 \in 1 .. n)
        BY <1>1, <1>10
      <3>2. \A h \in 1 .. n : s[h] \in ToSet(s)
        BY <1>1 DEF ToSet
      <3> QED
        BY <1>1, <1>10, <1>11, <3>1, <3>2
    <2>3. ASSUME NEW k \in 1 .. n
          PROVE  s[k] \in ToSet(r)
      <3>1. CASE k < i
        <4>1. k \in 1 .. n + 1 /\ r[k] = s[k]
          BY <1>1, <1>10, <1>11, <3>1
        <4> QED
          BY <2>1, <4>1 DEF ToSet
      <3>2. CASE k >= i
        <4>1. k + 1 \in 1 .. n + 1 /\ r[k + 1] = s[k]
          BY <1>1, <1>10, <1>11, <3>2
        <4> QED
          BY <2>1, <4>1 DEF ToSet
      <3> QED
        BY <1>1, <1>10, <3>1, <3>2
    <2>4. j \in ToSet(r)
      <3>1. i \in DOMAIN r /\ r[i] = j
        BY <1>1, <1>10, <1>11, <2>1
      <3> QED
        BY <3>1 DEF ToSet
    <2>5. ToSet(r) \subseteq ToSet(s) \cup {j}
      BY <2>1, <2>2 DEF ToSet
    <2>6. ToSet(s) \subseteq ToSet(r)
      BY <1>1, <2>3 DEF ToSet
    <2> QED
      BY <1>0, <2>4, <2>5, <2>6 DEF Listed
  <1>13. ASSUME NEW k \in 1 .. n + 1, NEW l \in 1 .. n + 1, k < l
         PROVE  r[k] < r[l]
    <2>1. CASE l < i
      BY <1>1, <1>10, <1>11, <1>13, <2>1
    <2>2. CASE l = i
      BY <1>1, <1>10, <1>11, <1>13, <2>2
    <2>3. CASE i < l /\ k < i
      BY <1>1, <1>10, <1>11, <1>13, <2>3
    <2>4. CASE i < l /\ k = i
      <3>1. l - 1 \in 1 .. n /\ ~(l - 1 < i) /\ r[l] = s[l - 1] /\ r[k] = j
        BY <1>1, <1>10, <1>11, <2>4
      <3>2. ~(s[l - 1] < j) /\ s[l - 1] # j /\ s[l - 1] \in Int
        BY <1>1, <1>10, <3>1
      <3> QED
        BY <1>1, <3>1, <3>2
    <2>5. CASE i < k
      <3>1. k - 1 \in 1 .. n /\ l - 1 \in 1 .. n /\ k - 1 < l - 1
            /\ r[k] = s[k - 1] /\ r[l] = s[l - 1]
        BY <1>1, <1>10, <1>11, <1>13, <2>5
      <3> QED
        BY <1>1, <3>1
    <2> QED
      BY <1>1, <1>10, <1>13, <2>1, <2>2, <2>3, <2>4, <2>5
  <1> QED
    BY <1>11, <1>12, <1>13

\* Load, of what a workshop is.
LoadOf(v) == Len(v.jobs) + (IF v.blocked THEN 1 ELSE 0)

\* The load of a workshop, by whether it is blocked.
LEMMA Loads ==
    /\ \A w : Load(w) = LoadOf(shop[w]) /\ Load(w)' = LoadOf(shop'[w])
    /\ \A v \in ShopStates :
         /\ v.blocked => LoadOf(v) = Len(v.jobs) + 1
         /\ ~v.blocked => LoadOf(v) = Len(v.jobs)
  <1>1. \A w : Load(w) = LoadOf(shop[w])
    BY DEF Load, LoadOf
  <1>2. \A w : Load(w)' = LoadOf(shop'[w])
    BY DEF Load, LoadOf
  <1>3. \A v \in ShopStates : /\ v.blocked => LoadOf(v) = Len(v.jobs) + 1
                              /\ ~v.blocked => LoadOf(v) = Len(v.jobs)
    BY DEF LoadOf, ShopStates
  <1> QED
    BY <1>1, <1>2, <1>3

\* A workshop whose jobs were not ended, or that had them taken off its list.
LEMMA ShopLosesJobs ==
    ASSUME GameInv, NEW S, EndJobs(S), NEW w \in Shops, Load(w)' <= MaxJobs,
           \/ shop'[w].jobs = Drop(shop[w].jobs, S)
           \/ /\ shop'[w].jobs = shop[w].jobs
              /\ \A j \in S \cap Listed : job[j].shop # w
    PROVE  ShopInv(w)'
  <1>1. /\ Listed' = Listed \ S
        /\ \A j \in Listed' : job'[j] = job[j]
    BY EndedJobs
  <1>2. PICK s, d : s = shop[w].jobs /\ d = shop'[w].jobs
    OBVIOUS
  <1>3. /\ s \in Seq(JobIds) /\ IsInjective(s)
        /\ ToSet(s) = {j \in Listed : job[j].shop = w}
    BY <1>2 DEF GameInv, ShopInv, ShopStates
  <1>4. CASE d = Drop(s, S)
    <2>1. IsInjective(d) /\ ToSet(d) = ToSet(s) \ S
      BY <1>3, <1>4, DroppedJobs
    <2>2. ToSet(d) = {j \in Listed' : job'[j].shop = w}
      BY <1>1, <1>3, <2>1
    <2> QED
      BY <1>2, <2>1, <2>2 DEF ShopInv
  <1>5. CASE d = s /\ \A j \in S \cap Listed : job[j].shop # w
    <2>2. ToSet(d) = {j \in Listed' : job'[j].shop = w}
      BY <1>1, <1>3, <1>5
    <2> QED
      BY <1>2, <1>3, <1>5, <2>2 DEF ShopInv
  <1> QED
    BY <1>2, <1>4, <1>5

\* Jobs are ended, and the workshops still list what is theirs.
LEMMA GameLosesJobs ==
    ASSUME GameInv, NEW S, EndJobs(S), UNCHANGED gameVars,
           shop' \in [Shops -> ShopStates], \A w \in Shops : ShopInv(w)'
    PROVE  GameInv'
  <1>1. /\ job_list' \in Seq(JobIds)
        /\ DOMAIN job' = Listed'
        /\ IsPartialFunction(job', JobIds, Jobs)
        /\ \A k, l \in 1 .. Len(job_list') : k < l => job_list'[k] < job_list'[l]
    BY EndedJobs
  <1> QED
    BY <1>1 DEF GameInv, gameVars

\* What ends in one workshop does not concern the others.
LEMMA OtherShops ==
    ASSUME GameInv, NEW w \in Shops, NEW v, shop' = [shop EXCEPT ![w] = v],
           v \in ShopStates, NEW S \in SUBSET ToSet(shop[w].jobs), EndJobs(S),
           NEW u \in Shops, u # w
    PROVE  ShopInv(u)'
  <1>1. shop'[u] = shop[u]
    BY DEF GameInv
  <1>2. \A j \in S \cap Listed : job[j].shop # u
    BY DEF GameInv, ShopInv
  <1>3. Load(u)' <= MaxJobs
    BY <1>1 DEF GameInv, ShopInv, Load
  <1> QED
    BY <1>1, <1>2, <1>3, ShopLosesJobs

\* JobEnds: the job leaves the list and its workshop.
LEMMA JobEndsGame ==
    ASSUME GameInv, NEW j \in JobIds, JobEnds(j)
    PROVE  GameInv'
  <1>1. /\ j \in Listed /\ EndJobs({j}) /\ UNCHANGED gameVars
        /\ shop' = [shop EXCEPT ![job[j].shop].jobs = Drop(@, {j})]
    BY DEF JobEnds
  <1>2. PICK w : w = job[j].shop
    OBVIOUS
  <1>3. w \in Shops /\ shop[w] \in ShopStates /\ j \in ToSet(shop[w].jobs)
    BY <1>1, <1>2 DEF GameInv, ShopInv, IsPartialFunction, Jobs
  <1>4. PICK s, d : s = shop[w].jobs /\ d = Drop(s, {j})
    OBVIOUS
  <1>5. s \in Seq(JobIds) /\ IsInjective(s)
    BY <1>3, <1>4 DEF GameInv, ShopInv, ShopStates
  <1>6. d \in Seq(JobIds) /\ Len(d) <= Len(s) /\ Len(d) \in Nat /\ Len(s) \in Nat
    BY <1>4, <1>5, DroppedJobs
  <1>7. PICK v : v = [shop[w] EXCEPT !.jobs = d]
    OBVIOUS
  <1>8. /\ shop' = [shop EXCEPT ![w] = v] /\ v \in ShopStates
        /\ shop' \in [Shops -> ShopStates] /\ shop'[w] = v
        /\ v.jobs = d /\ v.blocked = shop[w].blocked
    BY <1>1, <1>2, <1>3, <1>4, <1>6, <1>7 DEF GameInv, ShopStates
  <1>9. ShopInv(w)'
    <2>1. Load(w)' <= MaxJobs
      <3>1. PICK b \in {0, 1} : b = IF shop[w].blocked THEN 1 ELSE 0
        OBVIOUS
      <3>2. Load(w) = Len(s) + b /\ Load(w)' = Len(d) + b
        BY <1>4, <1>8, <3>1 DEF Load
      <3>3. Len(s) + b <= MaxJobs
        BY <1>3, <3>2 DEF GameInv, ShopInv
      <3> QED
        BY <1>6, <3>1, <3>2, <3>3, WorkflowAssumption
    <2> QED
      BY <1>1, <1>3, <1>4, <1>8, <2>1, ShopLosesJobs
  <1>10. \A u \in Shops : u # w => ShopInv(u)'
    BY <1>1, <1>3, <1>8, OtherShops
  <1> QED
    BY <1>1, <1>8, <1>9, <1>10, GameLosesJobs

\* Block: what blocks the workshop has a place there, as jobs were cancelled.
LEMMA BlockGame ==
    ASSUME GameInv, NEW w \in Shops, NEW S \in SUBSET ToSet(shop[w].jobs), Block(w, S)
    PROVE  GameInv'
  <1>1. /\ shop[w].standing /\ ~shop[w].blocked
        /\ Load(w) - Cardinality(S) < MaxJobs
        /\ EndJobs(S) /\ UNCHANGED gameVars
        /\ shop' = [shop EXCEPT ![w].blocked = TRUE, ![w].jobs = Drop(@, S)]
    BY DEF Block
  <1>3. shop[w] \in ShopStates
    BY DEF GameInv
  <1>4. PICK s, d : s = shop[w].jobs /\ d = Drop(s, S)
    OBVIOUS
  <1>5. s \in Seq(JobIds) /\ IsInjective(s) /\ S \subseteq ToSet(s)
    BY <1>3, <1>4 DEF GameInv, ShopInv, ShopStates
  <1>6. /\ d \in Seq(JobIds) /\ Len(d) \in Nat /\ Len(s) \in Nat
        /\ Cardinality(S) \in Nat /\ Len(d) = Len(s) - Cardinality(S)
    BY <1>4, <1>5, DroppedJobs
  <1>7. PICK v : v = [shop[w] EXCEPT !.blocked = TRUE, !.jobs = d]
    OBVIOUS
  <1>8. /\ shop' = [shop EXCEPT ![w] = v] /\ v \in ShopStates
        /\ shop' \in [Shops -> ShopStates] /\ shop'[w] = v
        /\ v.jobs = d /\ v.blocked
    BY <1>1, <1>3, <1>4, <1>6, <1>7 DEF GameInv, ShopStates
  <1>9. ShopInv(w)'
    <2>1. Load(w)' <= MaxJobs
      <3>2. Load(w) = Len(s) /\ Load(w)' = Len(d) + 1
        BY <1>1, <1>4, <1>6, <1>8 DEF Load
      <3> QED
        BY <1>1, <1>6, <3>2, WorkflowAssumption
    <2> QED
      BY <1>1, <1>4, <1>8, <2>1, ShopLosesJobs
  <1>10. \A u \in Shops : u # w => ShopInv(u)'
    BY <1>1, <1>8, OtherShops
  <1> QED
    BY <1>1, <1>8, <1>9, <1>10, GameLosesJobs

Gone == [standing |-> FALSE, blocked |-> FALSE, jobs |-> <<>>]

\* A workshop that is gone lists nothing.
LEMMA GoneShop ==
    /\ Gone \in ShopStates /\ IsInjective(Gone.jobs) /\ ToSet(Gone.jobs) = {}
    /\ Gone.jobs = <<>> /\ Len(Gone.jobs) = 0 /\ ~Gone.blocked /\ 0 <= MaxJobs
  BY WorkflowAssumption DEF Gone, ShopStates, IsInjective, ToSet

\* Destroy: the jobs of the workshop go with it.
LEMMA DestroyGame ==
    ASSUME GameInv, NEW w \in Shops, Destroy(w)
    PROVE  GameInv'
  <1>1. PICK S : S = ToSet(shop[w].jobs)
    OBVIOUS
  <1>2. EndJobs(S) /\ UNCHANGED gameVars /\ shop' = [shop EXCEPT ![w] = Gone]
    BY <1>1 DEF Destroy, Gone
  <1>3. shop' \in [Shops -> ShopStates] /\ shop'[w] = Gone
    BY <1>2, GoneShop DEF GameInv
  <1>4. ShopInv(w)'
    <2>1. Listed' = Listed \ S /\ \A j \in Listed' : job'[j] = job[j]
      BY <1>2, EndedJobs
    <2>2. S = {j \in Listed : job[j].shop = w}
      BY <1>1 DEF GameInv, ShopInv
    <2>3. {j \in Listed' : job'[j].shop = w} = {}
      BY <2>1, <2>2
    <2>4. Load(w)' = 0
      BY <1>3, GoneShop DEF Load
    <2> QED
      BY <1>3, <2>3, <2>4, GoneShop DEF ShopInv
  <1>5. \A u \in Shops : u # w => ShopInv(u)'
    BY <1>1, <1>2, GoneShop, OtherShops
  <1> QED
    BY <1>2, <1>3, <1>4, <1>5, GameLosesJobs

\* OnUnloaded: nothing is listed any more.
LEMMA OnUnloadedGame ==
    ASSUME GameInv, OnUnloaded
    PROVE  GameInv' /\ Listed' = {} /\ ~loaded'
  <1>1. /\ loaded' = FALSE /\ EndJobs(Listed) /\ UNCHANGED <<job_next_id, stock>>
        /\ shop' = [w \in Shops |-> Gone]
    BY DEF OnUnloaded, Gone
  <1>2. /\ job_list' \in Seq(JobIds)
        /\ Listed' = {} /\ DOMAIN job' = Listed'
        /\ IsPartialFunction(job', JobIds, Jobs)
        /\ \A k, l \in 1 .. Len(job_list') : k < l => job_list'[k] < job_list'[l]
    BY <1>1, EndedJobs
  <1>3. shop' \in [Shops -> ShopStates] /\ \A w \in Shops : shop'[w] = Gone
    BY <1>1, GoneShop
  <1>4. ASSUME NEW w \in Shops PROVE ShopInv(w)'
    <2>1. {j \in Listed' : job'[j].shop = w} = {}
      BY <1>2
    <2>2. Load(w)' = 0
      BY <1>3, GoneShop, Loads
    <2> QED
      BY <1>3, <2>1, <2>2, GoneShop DEF ShopInv
  <1> QED
    BY <1>1, <1>2, <1>3, <1>4 DEF GameInv

\* A job j of workshop w is added to the world and goes last there.
LEMMA GameGainsJob ==
    ASSUME GameInv, NEW j \in JobIds, j \notin Listed, NEW w \in Shops,
           ~shop[w].blocked, Load(w) < MaxJobs,
           loaded' = loaded, stock' = stock, job_next_id' \in 1..(MaxId + 1),
           job_list' \in Seq(JobIds), Listed' = Listed \cup {j},
           \A k, l \in 1 .. Len(job_list') : k < l => job_list'[k] < job_list'[l],
           NEW new \in Jobs, new.shop = w,
           job' = [k \in Listed \cup {j} |-> IF k \in Listed THEN job[k] ELSE new],
           shop' = [shop EXCEPT ![w].jobs = Append(@, j)]
    PROVE  GameInv'
  <1>1. shop[w] \in ShopStates
    BY DEF GameInv
  <1>2. PICK s, d : s = shop[w].jobs /\ d = Append(s, j)
    OBVIOUS
  <1>3. s \in Seq(JobIds) /\ IsInjective(s) /\ j \notin ToSet(s)
        /\ ToSet(s) = {i \in Listed : job[i].shop = w}
    BY <1>1, <1>2 DEF GameInv, ShopInv, ShopStates
  <1>4. /\ d \in Seq(JobIds) /\ IsInjective(d) /\ ToSet(d) = ToSet(s) \cup {j}
        /\ Len(d) = Len(s) + 1 /\ Len(s) \in Nat
    <2>1. d = Append(s, j) /\ s \in Seq(JobIds) /\ j \in JobIds
      BY <1>2, <1>3
    <2>2. d \in Seq(JobIds) /\ IsInjective(d) /\ Len(d) = Len(s) + 1 /\ Len(s) \in Nat
      BY <1>3, <2>1, Appended, AppendedOnce
    <2>3. ToSet(d) = ToSet(s) \cup {j}
      BY <2>1, AppendedSet
    <2> QED
      BY <2>2, <2>3
  <1>5. PICK v : v = [shop[w] EXCEPT !.jobs = d]
    OBVIOUS
  <1>6. /\ shop' = [shop EXCEPT ![w] = v] /\ v \in ShopStates
        /\ v.jobs = d /\ ~v.blocked
    BY <1>1, <1>2, <1>4, <1>5 DEF GameInv, ShopStates
  <1>7. /\ shop' \in [Shops -> ShopStates] /\ shop'[w] = v
        /\ \A u \in Shops : u # w => shop'[u] = shop[u]
    BY <1>6 DEF GameInv
  <1>8. /\ DOMAIN job' = Listed'
        /\ \A i \in Listed : job'[i] = job[i]
        /\ job'[j] = new
    OBVIOUS
  <1>9. IsPartialFunction(job', JobIds, Jobs)
    BY <1>8 DEF IsPartialFunction, GameInv
  <1>10. ShopInv(w)'
    <2>1. Load(w) = Len(s) /\ Load(w)' = Len(d)
      <3>1. Load(w) = Len(s)
        BY <1>1, <1>2, Loads
      <3>2. shop'[w] \in ShopStates /\ shop'[w].jobs = d /\ ~shop'[w].blocked
        BY <1>6, <1>7
      <3>3. Load(w)' = Len(d)
        BY <3>2, Loads
      <3> QED
        BY <3>1, <3>3
    <2>2. Load(w)' <= MaxJobs
      BY <1>4, <2>1, WorkflowAssumption
    <2>3. ToSet(d) = {i \in Listed' : job'[i].shop = w}
      BY <1>3, <1>4, <1>8
    <2> QED
      BY <1>4, <1>6, <1>7, <2>2, <2>3 DEF ShopInv
  <1>11. ASSUME NEW u \in Shops, u # w PROVE ShopInv(u)'
    <2>1. {i \in Listed' : job'[i].shop = u} = {i \in Listed : job[i].shop = u}
      BY <1>8, <1>11
    <2>2. Load(u)' = Load(u) /\ shop'[u] = shop[u]
      BY <1>7, <1>11 DEF Load
    <2>3. ShopInv(u)
      BY DEF GameInv
    <2> QED
      BY <2>1, <2>2, <2>3 DEF ShopInv
  <1> QED
    BY <1>7, <1>8, <1>9, <1>10, <1>11 DEF GameInv

\* NewJob: the next id is larger than all in the list.
LEMMA NewJobGame ==
    ASSUME GameInv, IdsInv, NEW w \in Shops, NEW repeat \in BOOLEAN, NewJob(w, repeat)
    PROVE  /\ GameInv' /\ Listed' = Listed \cup {job_next_id}
           /\ job_next_id' = job_next_id + 1 /\ job_next_id \in JobIds
           /\ job_next_id \notin Listed
  <1>1. PICK j : j = job_next_id
    OBVIOUS
  <1>2. /\ j \in JobIds /\ j \in Int /\ j + 1 \in 1 .. (MaxId + 1)
        /\ job_next_id' = j + 1
    BY <1>1, WorkflowAssumption DEF NewJob, GameInv, JobIds
  <1>3. \A i \in Listed : i < j
    BY <1>1 DEF IdsInv
  <1>4. j \notin Listed
    BY <1>2, <1>3
  <1>5. PICK s, r : s = job_list /\ r = Append(s, j)
    OBVIOUS
  <1>6. /\ s \in Seq(JobIds) /\ \A k \in 1 .. Len(s) : s[k] < j
        /\ \A k, l \in 1 .. Len(s) : k < l => s[k] < s[l]
    <2>1. s \in Seq(JobIds) /\ \A k \in 1 .. Len(s) : s[k] \in ToSet(s)
      BY <1>5 DEF ToSet, GameInv
    <2> QED
      BY <1>3, <1>5, <2>1 DEF GameInv, Listed
  <1>7. /\ r \in Seq(JobIds) /\ ToSet(r) = ToSet(s) \cup {j}
        /\ Len(r) = Len(s) + 1 /\ Len(s) \in Nat /\ r[Len(s) + 1] = j
        /\ \A k \in 1 .. Len(s) : r[k] = s[k]
    <2>1. r = Append(s, j) /\ s \in Seq(JobIds) /\ j \in JobIds
      BY <1>2, <1>5, <1>6
    <2> QED
      BY <2>1, Appended, AppendedSet
  <1>8. \A k, l \in 1 .. Len(r) : k < l => r[k] < r[l]
    BY <1>6, <1>7
  <1>9. job_list' = r /\ loaded' = loaded /\ stock' = stock
        /\ shop' = [shop EXCEPT ![w].jobs = Append(@, j)]
        /\ ~shop[w].blocked /\ Len(shop[w].jobs) < MaxJobs
    BY <1>1, <1>5 DEF NewJob
  <1>10. Listed' = Listed \cup {j}
    BY <1>5, <1>7, <1>9 DEF Listed
  <1>11. PICK new : new = [shop |-> w, repeat |-> repeat, suspend |-> FALSE]
    OBVIOUS
  <1>12. /\ new \in Jobs /\ new.shop = w
         /\ job' = [k \in Listed \cup {j} |-> IF k \in Listed THEN job[k] ELSE new]
    BY <1>1, <1>11 DEF NewJob, Jobs
  <1>13. Load(w) < MaxJobs
    <2>1. shop[w].jobs \in Seq(JobIds)
      BY DEF GameInv, ShopStates
    <2> QED
      BY <1>9, <2>1 DEF Load
  <1>14. GameInv'
    BY <1>2, <1>4, <1>7, <1>8, <1>9, <1>10, <1>12, <1>13, GameGainsJob
  <1> QED
    BY <1>1, <1>2, <1>4, <1>10, <1>14

\* RecoverJob: the job is in the list, in its workshop, and suspended.
LEMMA RecoverJobGame ==
    ASSUME GameInv, PluginInv, NEW i \in 1 .. Len(pending_recover), RecoverJob(i)
    PROVE  /\ GameInv' /\ Listed' = Listed \cup {pending_recover[i]}
           /\ pending_recover[i] \notin Listed
           /\ known_jobs[pending_recover[i]].shop \in Shops
           /\ pending_recover[i] \in ToSet(shop'[known_jobs[pending_recover[i]].shop].jobs)
           /\ job'[pending_recover[i]] =
                [shop |-> known_jobs[pending_recover[i]].shop,
                 repeat |-> TRUE, suspend |-> TRUE]
  <1>1. PICK j, w : j = pending_recover[i] /\ w = known_jobs[j].shop
    OBVIOUS
  <1>2. j \in JobIds /\ j \in Lost
    BY <1>1 DEF PluginInv, ToSet
  <1>3. w \in Shops
    BY <1>1, <1>2 DEF Lost, PluginInv, IsPartialFunction, ProtectedJobs
  <1>4. PICK new : new = [shop |-> w, repeat |-> TRUE, suspend |-> TRUE]
    OBVIOUS
  <1>5. /\ ~shop[w].blocked /\ Load(w) < MaxJobs /\ j \notin Listed
        /\ job_list' = LinkJob(j)
        /\ job' = [k \in Listed \cup {j} |-> IF k \in Listed THEN job[k] ELSE new]
        /\ shop' = [shop EXCEPT ![w].jobs = Append(@, j)]
        /\ UNCHANGED gameVars
    BY <1>1, <1>4 DEF RecoverJob
  <1>6. PICK r : r = LinkJob(j)
    OBVIOUS
  <1>7. /\ r \in Seq(JobIds) /\ ToSet(r) = Listed \cup {j}
        /\ \A k, l \in 1 .. Len(r) : k < l => r[k] < r[l]
    BY <1>2, <1>5, <1>6, LinkedJob
  <1>8. new \in Jobs /\ new.shop = w
    BY <1>3, <1>4 DEF Jobs
  <1>9. job_list' = r /\ Listed' = Listed \cup {j}
    BY <1>5, <1>6, <1>7 DEF Listed
  <1>10. loaded' = loaded /\ stock' = stock /\ job_next_id' \in 1..(MaxId + 1)
    BY <1>5 DEF gameVars, GameInv
  <1>11. GameInv'
    BY <1>2, <1>3, <1>5, <1>7, <1>8, <1>9, <1>10, GameGainsJob
  <1>12. job'[j] = new
    BY <1>5
  <1>13. j \in ToSet(shop'[w].jobs)
    BY <1>3, <1>8, <1>9, <1>11, <1>12 DEF GameInv, ShopInv
  <1> QED
    BY <1>1, <1>3, <1>4, <1>5, <1>9, <1>11, <1>12, <1>13

\* Unblock: the load of the workshop only shrinks.
LEMMA UnblockGame ==
    ASSUME GameInv, NEW w \in Shops, Unblock(w)
    PROVE  GameInv'
  <1>1. /\ shop' = [shop EXCEPT ![w].blocked = FALSE]
        /\ UNCHANGED <<loaded, job_next_id, stock, job_list, job>>
    BY DEF Unblock, gameVars
  <1>2. PICK v : v = [shop[w] EXCEPT !.blocked = FALSE]
    OBVIOUS
  <1>3. /\ v \in ShopStates /\ v.jobs = shop[w].jobs /\ ~v.blocked
        /\ shop' = [shop EXCEPT ![w] = v] /\ v.jobs \in Seq(JobIds)
    BY <1>1, <1>2 DEF GameInv, ShopStates
  <1>4. /\ shop' \in [Shops -> ShopStates] /\ shop'[w] = v
        /\ \A u \in Shops : u # w => shop'[u] = shop[u]
    BY <1>3 DEF GameInv
  <1>5. Listed' = Listed
    BY <1>1 DEF Listed
  <1>6. ASSUME NEW u \in Shops PROVE ShopInv(u)'
    <2>1. shop'[u].jobs = shop[u].jobs
      BY <1>3, <1>4
    <2>2. ShopInv(u)
      BY DEF GameInv
    <2>3. Load(u)' <= MaxJobs
      <3>1. CASE u = w
        <4>1. Len(v.jobs) \in Nat
          BY <1>3
        <4>2. Load(u)' = Len(v.jobs)
          BY <1>3, <1>4, <3>1, <4>1, Loads
        <4>3. Load(u) \in {Len(v.jobs), Len(v.jobs) + 1}
          <5>1. shop[w] \in ShopStates /\ shop[w].jobs = v.jobs
            BY <1>3 DEF GameInv
          <5>2. /\ shop[w].blocked => Load(w) = Len(v.jobs) + 1
                /\ ~shop[w].blocked => Load(w) = Len(v.jobs)
            BY <5>1, Loads
          <5> QED
            BY <3>1, <5>2
        <4> QED
          BY <2>2, <4>1, <4>2, <4>3, WorkflowAssumption DEF ShopInv
      <3>2. CASE u # w
        <4>1. Load(u)' = Load(u)
          BY <1>4, <3>2 DEF Load
        <4> QED
          BY <2>2, <4>1 DEF ShopInv
      <3> QED
        BY <3>1, <3>2
    <2> QED
      BY <1>1, <1>5, <2>1, <2>2, <2>3 DEF ShopInv
  <1> QED
    BY <1>1, <1>4, <1>5, <1>6 DEF GameInv

\* OnLoaded: the workshops stand, and the lists are as they were.
LEMMA OnLoadedGame ==
    ASSUME GameInv, IdsInv, NEW new \in BOOLEAN, OnLoaded(new)
    PROVE  GameInv' /\ Listed' = Listed
  <1>1. /\ loaded' = TRUE
        /\ shop' = [w \in Shops |-> [shop[w] EXCEPT !.standing = TRUE]]
        /\ UNCHANGED <<job_next_id, stock, job_list, job>>
    BY DEF OnLoaded
  <1>4. /\ shop' \in [Shops -> ShopStates]
        /\ \A w \in Shops : shop'[w].jobs = shop[w].jobs
                            /\ shop'[w].blocked = shop[w].blocked
    BY <1>1 DEF GameInv, ShopStates
  <1>5. Listed' = Listed /\ \A u \in Shops : Load(u)' = Load(u)
    BY <1>1, <1>4 DEF Listed, Load
  <1>6. ASSUME NEW u \in Shops PROVE ShopInv(u)'
    BY <1>1, <1>4, <1>5 DEF ShopInv, GameInv
  <1> QED
    BY <1>1, <1>4, <1>5, <1>6 DEF GameInv

\* StockChanges: the lists are as they were.
LEMMA StockGame ==
    ASSUME GameInv, NEW i \in Items, NEW n \in 0 .. MaxStock, StockChanges(i, n)
    PROVE  GameInv'
  <1>1. /\ stock' = [stock EXCEPT ![i] = n]
        /\ UNCHANGED <<loaded, job_next_id, job_list, job, shop>>
    BY DEF StockChanges, jobVars
  <1>2. Listed' = Listed /\ \A u \in Shops : Load(u)' = Load(u)
    BY <1>1 DEF Listed, Load
  <1>3. \A u \in Shops : ShopInv(u)'
    BY <1>1, <1>2 DEF ShopInv, GameInv
  <1> QED
    BY <1>1, <1>2, <1>3 DEF GameInv

-----------------------------------------------------------------------------
(* Operations: what comes before which step.                               *)

\* What a step is called.
LEMMA StepNames ==
    /\ \A s \in Steps : s[1] \in {"check", "count", "map", "update", "command",
                                  "job", "print", "limit"}
    /\ \A n \in {"check", "count", "map", "update", "command"} :
         <<n>> \in Steps /\ <<n>>[1] = n
    /\ \A k \in JobIds : <<"job", k>> \in Steps /\ <<"job", k>>[1] = "job"
    /\ \A i \in Items : /\ <<"print", i>> \in Steps /\ <<"print", i>>[1] = "print"
                        /\ \A g \in Goals : /\ <<"limit", i, g>> \in Steps
                                            /\ <<"limit", i, g>>[1] = "limit"
  BY DEF Steps

\* What may come first after a step that is neither map nor update.
Opens(s) == s = <<>> \/ s[1][1] \notin {"check", "update", "command", "print"}

\* The rest of an operation.
LEMMA TailOrdered ==
    ASSUME NEW s \in Seq(Steps), s # <<>>, Ordered(s), NEW t, t = Tail(s)
    PROVE  /\ s[1] \in Steps /\ Head(s) = s[1]
           /\ t \in Seq(Steps) /\ Ordered(t) /\ Len(t) \in Nat
           /\ \A k \in 1 .. Len(t) : k + 1 \in 1 .. Len(s) /\ t[k] = s[k + 1]
           /\ t # <<>> => t[1][1] # "check" /\ t[1] \in Steps
           /\ t # <<>> /\ t[1][1] \in {"update", "command"} => s[1][1] = "map"
           /\ t # <<>> /\ t[1][1] = "print" => s[1][1] = "update"
           /\ s[1][1] \notin {"map", "update"} => Opens(t)
           /\ s[1][1] = "command" => t = <<>>
  <1>0. PICK n \in Nat : n = Len(s)
    OBVIOUS
  <1>1. /\ n > 0 /\ t \in Seq(Steps) /\ Len(t) = n - 1
        /\ \A k \in 1 .. n - 1 : t[k] = s[k + 1]
        /\ Head(s) = s[1] /\ \A k \in 1 .. n : s[k] \in Steps
    BY <1>0
  <1>2. Ordered(t)
    <2> SUFFICES ASSUME NEW k \in 1 .. n - 1
                 PROVE  /\ k > 1 =>
                             /\ t[k][1] # "check"
                             /\ t[k][1] \in {"update", "command"} => t[k - 1][1] = "map"
                             /\ t[k][1] = "print" => t[k - 1][1] = "update"
                        /\ t[k][1] = "command" => k = n - 1
      BY <1>1 DEF Ordered
    <2>1. k + 1 \in 1 .. n /\ k + 1 > 1 /\ t[k] = s[k + 1] /\ k + 1 - 1 = k
      BY <1>0, <1>1
    <2>2. k > 1 => t[k - 1] = s[k]
      BY <1>0, <1>1
    <2>3. /\ s[k + 1][1] # "check"
          /\ s[k + 1][1] \in {"update", "command"} => s[k][1] = "map"
          /\ s[k + 1][1] = "print" => s[k][1] = "update"
          /\ s[k + 1][1] = "command" => k + 1 = n
      BY <1>0, <2>1 DEF Ordered
    <2> QED
      BY <1>0, <2>1, <2>2, <2>3
  <1>3. t # <<>> => /\ t[1] = s[2] /\ 2 \in 1 .. n
    BY <1>0, <1>1
  <1>4. t # <<>> =>
          /\ t[1][1] # "check"
          /\ t[1][1] \in {"update", "command"} => s[1][1] = "map"
          /\ t[1][1] = "print" => s[1][1] = "update"
    BY <1>0, <1>3 DEF Ordered
  <1>5. s[1][1] = "command" => t = <<>>
    BY <1>0, <1>1 DEF Ordered
  <1> QED
    BY <1>0, <1>1, <1>2, <1>3, <1>4, <1>5 DEF Opens

\* Steps put before the rest.
LEMMA ConcatOrdered ==
    ASSUME NEW a \in Seq(Steps), NEW b \in Seq(Steps), Ordered(a), Ordered(b), Opens(b),
           b # <<>> => \A k \in 1 .. Len(a) : a[k][1] # "command"
    PROVE  a \o b \in Seq(Steps) /\ Ordered(a \o b)
  <1>0. PICK m \in Nat, n \in Nat : m = Len(a) /\ n = Len(b)
    OBVIOUS
  <1>1. PICK s : s = a \o b
    OBVIOUS
  <1>2. /\ s \in Seq(Steps) /\ Len(s) = m + n
        /\ \A k \in 1 .. m : s[k] = a[k]
        /\ \A k \in 1 .. n : s[m + k] = b[k]
    BY <1>0, <1>1
  <1>3. Ordered(s)
    <2> SUFFICES ASSUME NEW k \in 1 .. m + n
                 PROVE  /\ k > 1 =>
                             /\ s[k][1] # "check"
                             /\ s[k][1] \in {"update", "command"} => s[k - 1][1] = "map"
                             /\ s[k][1] = "print" => s[k - 1][1] = "update"
                        /\ s[k][1] = "command" => k = m + n
      BY <1>2 DEF Ordered
    <2>1. CASE k <= m
      <3>1. k \in 1 .. m /\ s[k] = a[k] /\ (k > 1 => s[k - 1] = a[k - 1])
        BY <1>0, <1>2, <2>1
      <3>2. /\ k > 1 =>
                 /\ a[k][1] # "check"
                 /\ a[k][1] \in {"update", "command"} => a[k - 1][1] = "map"
                 /\ a[k][1] = "print" => a[k - 1][1] = "update"
            /\ a[k][1] = "command" => k = m
        BY <1>0, <3>1 DEF Ordered
      <3>3. a[k][1] = "command" => n = 0
        BY <1>0, <3>1
      <3> QED
        BY <1>0, <3>1, <3>2, <3>3
    <2>2. CASE k > m
      <3>1. PICK l : l = k - m
        OBVIOUS
      <3>2. l \in 1 .. n /\ k = m + l /\ s[k] = b[l]
        BY <1>0, <1>2, <2>2, <3>1
      <3>3. l > 1 => k - 1 = m + (l - 1) /\ l - 1 \in 1 .. n
        BY <1>0, <3>2
      <3>4. l > 1 => s[k - 1] = b[l - 1]
        BY <1>2, <3>3
      <3>5. /\ l > 1 =>
                 /\ b[l][1] # "check"
                 /\ b[l][1] \in {"update", "command"} => b[l - 1][1] = "map"
                 /\ b[l][1] = "print" => b[l - 1][1] = "update"
            /\ b[l][1] = "command" => l = n
        BY <1>0, <3>2 DEF Ordered
      <3>6. l = 1 => b[l][1] \notin {"check", "update", "command", "print"}
        BY <1>0, <3>2 DEF Opens
      <3>7. l > 1 \/ l = 1
        BY <1>0, <3>2
      <3> QED
        BY <1>0, <3>2, <3>4, <3>5, <3>6, <3>7
    <2> QED
      BY <1>0, <2>1, <2>2
  <1> QED
    BY <1>1, <1>2, <1>3

\* The operations as they start.
LEMMA StartsOrdered ==
    /\ <<>> \in Seq(Steps) /\ Ordered(<<>>) /\ Opens(<<>>)
    /\ \A n \in {"check", "count", "command"} :
         << <<n>> >> \in Seq(Steps) /\ Ordered(<< <<n>> >>)
    /\ Opens(<< <<"count">> >>)
    /\ << <<"map">>, <<"command">> >> \in Seq(Steps)
    /\ Ordered(<< <<"map">>, <<"command">> >>) /\ Opens(<< <<"map">>, <<"command">> >>)
    /\ << <<"map">>, <<"update">> >> \in Seq(Steps)
    /\ Ordered(<< <<"map">>, <<"update">> >>)
    /\ \A i \in Items, g \in Goals :
         /\ << <<"map">>, <<"update">>, <<"print", i>> >> \in Seq(Steps)
         /\ Ordered(<< <<"map">>, <<"update">>, <<"print", i>> >>)
         /\ << <<"check">>, <<"limit", i, g>> >> \in Seq(Steps)
         /\ Ordered(<< <<"check">>, <<"limit", i, g>> >>)
  <1>1. <<>> \in Seq(Steps) /\ Ordered(<<>>) /\ Opens(<<>>)
    BY DEF Ordered, Opens
  <1>2. \A n \in {"check", "count", "command"} :
          << <<n>> >> \in Seq(Steps) /\ Ordered(<< <<n>> >>)
    BY StepNames DEF Ordered
  <1>3. Opens(<< <<"count">> >>)
    BY DEF Opens
  <1>4. /\ << <<"map">>, <<"command">> >> \in Seq(Steps)
        /\ << <<"map">>, <<"update">> >> \in Seq(Steps)
    BY StepNames
  <1>5. /\ Ordered(<< <<"map">>, <<"command">> >>)
        /\ Opens(<< <<"map">>, <<"command">> >>)
    BY DEF Ordered, Opens
  <1>6. Ordered(<< <<"map">>, <<"update">> >>)
    BY DEF Ordered
  <1>7. ASSUME NEW i \in Items
        PROVE  /\ << <<"map">>, <<"update">>, <<"print", i>> >> \in Seq(Steps)
               /\ Ordered(<< <<"map">>, <<"update">>, <<"print", i>> >>)
    BY StepNames DEF Ordered
  <1>8. ASSUME NEW i \in Items, NEW g \in Goals
        PROVE  /\ << <<"check">>, <<"limit", i, g>> >> \in Seq(Steps)
               /\ Ordered(<< <<"check">>, <<"limit", i, g>> >>)
    <2>1. PICK a, b : a = <<"check">> /\ b = <<"limit", i, g>>
      OBVIOUS
    <2>2. a \in Steps /\ b \in Steps /\ a[1] = "check" /\ b[1] = "limit"
      BY <2>1, StepNames
    <2>3. << a, b >> \in Seq(Steps) /\ Ordered(<< a, b >>)
      BY <2>2 DEF Ordered
    <2> QED
      BY <2>1, <2>3
  <1> QED
    BY <1>1, <1>2, <1>3, <1>4, <1>5, <1>6, <1>7, <1>8

\* The jobs to recover, then the rest.
LEMMA RecoversOrdered ==
    ASSUME NEW p \in Seq(JobIds), IsInjective(p)
    PROVE  /\ RecoverJobs(p) \in Seq(Steps) /\ Ordered(RecoverJobs(p))
           /\ \A k \in 1 .. Len(RecoverJobs(p)) : RecoverJobs(p)[k][1] = "job"
  <1>0. PICK n \in Nat : n = Len(p)
    OBVIOUS
  <1>1. n <= MaxId
    <2>1. PICK S : S = ToSet(p)
      OBVIOUS
    <2>2. Cardinality(S) = n
      BY <1>0, <2>1, LengthOfInjective
    <2>3. S \in SUBSET JobIds
      BY <2>1 DEF ToSet
    <2>4. IsFiniteSet(JobIds) /\ Cardinality(JobIds) = MaxId
      BY WorkflowAssumption, FS_Interval DEF JobIds
    <2> QED
      BY <2>2, <2>3, <2>4, FS_Subset
  <1>2. PICK r : r = RecoverJobs(p)
    OBVIOUS
  <1>3. r = [k \in 1 .. n |-> <<"job", n + 1 - k>>]
    BY <1>0, <1>2 DEF RecoverJobs
  <1>4. \A k \in 1 .. n : n + 1 - k \in JobIds
    BY <1>0, <1>1, WorkflowAssumption DEF JobIds
  <1>5. \A k \in 1 .. n : r[k] \in Steps /\ r[k][1] = "job"
    BY <1>3, <1>4, StepNames
  <1>6. r \in Seq(Steps) /\ Len(r) = n
    BY <1>0, <1>3, <1>5
  <1>7. Ordered(r)
    BY <1>5, <1>6 DEF Ordered
  <1> QED
    BY <1>2, <1>5, <1>6, <1>7

-----------------------------------------------------------------------------
(* The plugin: what is protected and what is lost.                         *)

\* Ids are numbers, and there are finitely many.
LEMMA JobIdsFinite ==
    /\ IsFiniteSet(JobIds) /\ \A j \in JobIds : j \in Int
    /\ \A S \in SUBSET JobIds : IsFiniteSet(S) /\ S \in SUBSET Int
  <1>1. IsFiniteSet(JobIds) /\ \A j \in JobIds : j \in Int
    BY WorkflowAssumption, FS_Interval DEF JobIds
  <1>2. \A S \in SUBSET JobIds : IsFiniteSet(S)
    BY <1>1, FS_Subset
  <1> QED
    BY <1>1, <1>2

\* Two lists one after the other, with nothing in both.
LEMMA JoinedOnce ==
    ASSUME NEW T, NEW a \in Seq(T), NEW b \in Seq(T), IsInjective(a), IsInjective(b),
           ToSet(a) \cap ToSet(b) = {}
    PROVE  /\ a \o b \in Seq(T) /\ IsInjective(a \o b)
           /\ ToSet(a \o b) = ToSet(a) \cup ToSet(b)
  <1>0. PICK m \in Nat, n \in Nat : m = Len(a) /\ n = Len(b)
    OBVIOUS
  <1>1. PICK s : s = a \o b
    OBVIOUS
  <1>2. /\ s \in Seq(T) /\ DOMAIN s = 1 .. m + n
        /\ DOMAIN a = 1 .. m /\ DOMAIN b = 1 .. n
        /\ \A k \in 1 .. m : s[k] = a[k]
        /\ \A k \in 1 .. n : s[m + k] = b[k]
    BY <1>0, <1>1
  <1>3. ASSUME NEW k \in 1 .. m + n
        PROVE  \/ k \in 1 .. m /\ s[k] = a[k]
               \/ k - m \in 1 .. n /\ s[k] = b[k - m]
    <2>1. CASE k <= m
      BY <1>0, <1>2, <2>1
    <2>2. CASE k > m
      <3>1. PICK l : l = k - m
        OBVIOUS
      <3>2. l \in 1 .. n /\ k = m + l
        BY <1>0, <2>2, <3>1
      <3> QED
        BY <1>2, <3>1, <3>2
    <2> QED
      BY <1>0, <2>1, <2>2
  <1>4. ToSet(s) = ToSet(a) \cup ToSet(b)
    <2>1. ASSUME NEW x \in ToSet(s) PROVE x \in ToSet(a) \cup ToSet(b)
      BY <1>2, <1>3 DEF ToSet
    <2>2. ASSUME NEW x \in ToSet(a) PROVE x \in ToSet(s)
      <3>1. PICK k \in 1 .. m : a[k] = x
        BY <1>2 DEF ToSet
      <3>2. k \in 1 .. m + n /\ s[k] = x
        BY <1>0, <1>2, <3>1
      <3> QED
        BY <1>2, <3>2 DEF ToSet
    <2>3. ASSUME NEW x \in ToSet(b) PROVE x \in ToSet(s)
      <3>1. PICK k \in 1 .. n : b[k] = x
        BY <1>2 DEF ToSet
      <3>2. m + k \in 1 .. m + n /\ s[m + k] = x
        BY <1>0, <1>2, <3>1
      <3> QED
        BY <1>2, <3>2 DEF ToSet
    <2> QED
      BY <2>1, <2>2, <2>3
  <1>5. ASSUME NEW k \in 1 .. m + n, NEW l \in 1 .. m + n, s[k] = s[l]
        PROVE  k = l
    <2>1. \A x \in 1 .. m, y \in 1 .. n : a[x] # b[y]
      BY <1>2 DEF ToSet
    <2>2. \A x, y \in 1 .. m : a[x] = a[y] => x = y
      BY <1>2 DEF IsInjective
    <2>3. \A x, y \in 1 .. n : b[x] = b[y] => x = y
      BY <1>2 DEF IsInjective
    <2> QED
      BY <1>0, <1>3, <1>5, <2>1, <2>2, <2>3
  <1>6. IsInjective(s)
    BY <1>2, <1>5 DEF IsInjective
  <1> QED
    BY <1>1, <1>2, <1>4, <1>6

\* The ids of a set, each once.
LEMMA AscendingOnce ==
    ASSUME NEW S \in SUBSET JobIds
    PROVE  /\ Ascending(S) \in Seq(JobIds) /\ IsInjective(Ascending(S))
           /\ ToSet(Ascending(S)) = S
  <1>1. PICK s : s = Ascending(S)
    OBVIOUS
  <1>2. PICK n : n = Len(s)
    OBVIOUS
  <1>3. /\ s \in Seq(S) /\ n \in Nat
        /\ \A k, l \in 1 .. n : k < l => s[k] < s[l]
        /\ \A x \in S : \E k \in 1 .. n : s[k] = x
    <2>1. IsFiniteSet(S) /\ S \in SUBSET Int
      BY JobIdsFinite
    <2> QED
      BY <1>1, <1>2, <2>1, AscendingList
  <1>4. DOMAIN s = 1 .. n /\ \A k \in 1 .. n : s[k] \in S /\ s[k] \in Int
    BY <1>2, <1>3, JobIdsFinite
  <1>5. s \in Seq(JobIds)
    BY <1>2, <1>3, <1>4
  <1>6. IsInjective(s)
    <2> SUFFICES ASSUME NEW k \in 1 .. n, NEW l \in 1 .. n, s[k] = s[l]
                 PROVE  k = l
      BY <1>4 DEF IsInjective
    <2>1. ~(k < l) /\ ~(l < k)
      BY <1>3, <1>4
    <2> QED
      BY <1>3, <2>1
  <1>7. ToSet(s) = S
    BY <1>3, <1>4 DEF ToSet
  <1> QED
    BY <1>1, <1>5, <1>6, <1>7

\* Pointers with some deleted.
LEMMA DangleType ==
    ASSUME NEW P, NEW ptrs \in SUBSET (P \cup {Freed}), NEW S
    PROVE  Dangle(ptrs, S) \in SUBSET (P \cup {Freed})
  BY DEF Dangle

CsType == IsPartialFunction(constraints, Items, SUBSET (JobIds \cup {Freed}))

\* Constraints stay constraints when jobs are forgotten.
LEMMA ForgetInType ==
    ASSUME CsType, NEW S, constraints' = ForgetIn(constraints, S)
    PROVE  CsType'
  BY DangleType DEF CsType, ForgetIn, IsPartialFunction

\* The types of what check_lost_jobs leaves of a job.
LEMMA TickJobType ==
    ASSUME NEW j, known_jobs[j] \in ProtectedJobs, NEW ticks \in Nat
    PROVE  TickJob(j, ticks) \in ProtectedJobs /\ TickJob(j, ticks).live
  <1>1. PICK p : p = [known_jobs[j] EXCEPT !.live = TRUE]
    OBVIOUS
  <1>2. p \in ProtectedJobs /\ p.live
    BY <1>1 DEF ProtectedJobs
  <1>3. PICK d : d = p.resume_delay
    OBVIOUS
  <1>4. d \in DayTicks .. MaxDelay /\ d \in Int
    BY <1>2, <1>3, WorkflowAssumption DEF ProtectedJobs
  <1>5. PICK e : e = Maximum(DayTicks, d - ticks)
    OBVIOUS
  <1>6. e \in DayTicks .. MaxDelay
    BY <1>4, <1>5, WorkflowAssumption DEF Maximum
  <1>7. PICK b : b = (p.want_resumed /\ p.resume_time # Unset)
    OBVIOUS
  <1>8. b \in BOOLEAN
    BY <1>7
  <1>9. TickJob(j, ticks) =
          IF ~job[j].suspend
          THEN [p EXCEPT !.resume_time = Unset, !.resume_delay = e]
          ELSE [p EXCEPT !.want_resumed = b]
    BY <1>1, <1>3, <1>5, <1>7 DEF TickJob
  <1>10. [p EXCEPT !.resume_time = Unset, !.resume_delay = e] \in ProtectedJobs
         /\ [p EXCEPT !.resume_time = Unset, !.resume_delay = e].live
    BY <1>2, <1>6 DEF ProtectedJobs
  <1>11. [p EXCEPT !.want_resumed = b] \in ProtectedJobs
         /\ [p EXCEPT !.want_resumed = b].live
    BY <1>2, <1>8 DEF ProtectedJobs
  <1> QED
    BY <1>9, <1>10, <1>11

\* The type of a job newly protected.
LEMMA ProtectedJobType ==
    ASSUME NEW j, job[j] \in Jobs
    PROVE  ProtectedJob(j) \in ProtectedJobs /\ ProtectedJob(j).live
  <1>1. DayTicks \in DayTicks .. MaxDelay
    BY WorkflowAssumption
  <1> QED
    BY <1>1 DEF ProtectedJob, ProtectedJobs, Jobs

\* check_lost_jobs: what is lost waits to be recovered, what is live is listed.
LEMMA CheckedJobs ==
    ASSUME GameInv, PluginInv, IdsInv, SettingsInv, NEW ticks \in Nat, CheckLostJobs(ticks),
           UNCHANGED <<loaded, job_list, shop, job_next_id, stock>>
    PROVE  /\ SameLists /\ PluginInv' /\ IdsInv' /\ Fresh' /\ CsType'
           /\ \A j \in DOMAIN known_jobs : j \notin DOMAIN known_jobs' =>
                j \in Listed /\ ~job[j].repeat
           /\ ToSet(pending_recover) \subseteq ToSet(pending_recover')
  <1>1. PICK known, forgotten, fresh, lost :
          /\ known = DOMAIN known_jobs
          /\ forgotten = {j \in known \cap Listed : ~job[j].repeat}
          /\ fresh = {j \in Listed \ known : job[j].repeat}
          /\ lost = {j \in known \ Listed : known_jobs[j].live}
    OBVIOUS
  <1>2. /\ known_jobs' = [j \in (known \ forgotten) \cup fresh |->
             IF j \in fresh THEN ProtectedJob(j)
             ELSE IF j \in Listed THEN TickJob(j, ticks)
             ELSE [known_jobs[j] EXCEPT !.live = FALSE]]
        /\ job' = [j \in Listed |->
             IF j \in known \ forgotten /\ ResumedByTick(j)
             THEN [job[j] EXCEPT !.suspend = FALSE] ELSE job[j]]
        /\ pending_recover' = pending_recover \o Ascending(lost)
        /\ constraints' = ForgetIn(constraints, forgotten)
    BY <1>1 DEF CheckLostJobs
  <1>3. /\ known \subseteq JobIds /\ \A j \in known : known_jobs[j] \in ProtectedJobs
        /\ Listed \subseteq JobIds /\ \A j \in Listed : job[j] \in Jobs
        /\ DOMAIN job = Listed
    BY <1>1 DEF PluginInv, GameInv, IsPartialFunction
  <1>4. SameLists
    <2>1. \A j \in Listed : [job[j] EXCEPT !.suspend = FALSE] \in Jobs
                            /\ [job[j] EXCEPT !.suspend = FALSE].shop = job[j].shop
      BY <1>3 DEF Jobs
    <2>2. DOMAIN job' = Listed
      BY <1>2
    <2>3. \A j \in Listed : job'[j] \in Jobs /\ job'[j].shop = job[j].shop
      BY <1>2, <1>3, <2>1
    <2> QED
      BY <1>3, <2>2, <2>3 DEF SameLists, IsPartialFunction
  <1>5. Listed' = Listed
    BY DEF Listed
  <1>6. DOMAIN known_jobs' = (known \ forgotten) \cup fresh
    BY <1>2
  <1>7. ASSUME NEW j \in DOMAIN known_jobs'
        PROVE  /\ j \in JobIds /\ known_jobs'[j] \in ProtectedJobs
               /\ known_jobs'[j].live <=> j \in Listed
    <2>1. CASE j \in fresh
      <3>1. j \in Listed /\ job[j] \in Jobs
        BY <1>1, <1>3, <2>1
      <3>2. known_jobs'[j] = ProtectedJob(j)
        BY <1>2, <2>1
      <3> QED
        BY <1>3, <3>1, <3>2, ProtectedJobType
    <2>2. CASE j \notin fresh /\ j \in Listed
      <3>1. known_jobs'[j] = TickJob(j, ticks)
        BY <1>2, <2>2
      <3>2. known_jobs[j] \in ProtectedJobs
        BY <1>3, <1>6, <2>2
      <3> QED
        BY <1>3, <2>2, <3>1, <3>2, TickJobType
    <2>3. CASE j \notin fresh /\ j \notin Listed
      <3>1. known_jobs'[j] = [known_jobs[j] EXCEPT !.live = FALSE]
        BY <1>2, <2>3
      <3>2. known_jobs[j] \in ProtectedJobs /\ j \in known
        BY <1>3, <1>6, <2>3
      <3>3. known_jobs'[j] \in ProtectedJobs /\ ~known_jobs'[j].live
        BY <3>1, <3>2 DEF ProtectedJobs
      <3> QED
        BY <1>3, <2>3, <3>2, <3>3
    <2> QED
      BY <2>1, <2>2, <2>3
  <1>8. Lost' = known \ Listed
    <2>1. \A j : j \in known \ Listed => j \in (known \ forgotten) \cup fresh
      BY <1>1
    <2>2. \A j : j \in (known \ forgotten) \cup fresh => j \in known \/ j \in Listed
      BY <1>1
    <2> QED
      BY <1>6, <1>7, <2>1, <2>2 DEF Lost
  <1>9. Lost = {j \in known : ~known_jobs[j].live} /\ \A j \in Lost : j \notin Listed
    BY <1>1 DEF Lost, IdsInv
  <1>10. Lost \cap lost = {} /\ Lost \cup lost = Lost'
    BY <1>1, <1>8, <1>9
  <1>11. /\ pending_recover' \in Seq(JobIds) /\ IsInjective(pending_recover')
         /\ ToSet(pending_recover') = Lost'
    <2>1. lost \in SUBSET JobIds
      BY <1>1, <1>3
    <2>2. PICK a, b : a = pending_recover /\ b = Ascending(lost)
      OBVIOUS
    <2>3. b \in Seq(JobIds) /\ IsInjective(b) /\ ToSet(b) = lost
      BY <2>1, <2>2, AscendingOnce
    <2>4. a \in Seq(JobIds) /\ IsInjective(a) /\ ToSet(a) = Lost
      BY <2>2 DEF PluginInv
    <2>5. /\ a \o b \in Seq(JobIds) /\ IsInjective(a \o b)
          /\ ToSet(a \o b) = ToSet(a) \cup ToSet(b)
      BY <1>10, <2>3, <2>4, JoinedOnce
    <2>6. pending_recover' = a \o b
      BY <1>2, <2>2
    <2> QED
      BY <1>10, <2>3, <2>4, <2>5, <2>6
  <1>12. PluginInv'
    BY <1>7, <1>11 DEF PluginInv, IsPartialFunction
  <1>13. IdsInv'
    <2>1. \A j \in Lost' : j \notin Listed'
      BY <1>5, <1>8
    <2>2. Listed' \cup DOMAIN known_jobs' \subseteq Listed \cup known
      BY <1>1, <1>5, <1>6
    <2>3. \A j \in Listed \cup known : j < job_next_id
      BY <1>1 DEF IdsInv
    <2>4. ~loaded => Listed \cup known = {}
      BY <1>1 DEF IdsInv
    <2>5. job_next_id' = job_next_id /\ loaded' = loaded
      OBVIOUS
    <2> QED
      BY <2>1, <2>2, <2>3, <2>4, <2>5 DEF IdsInv
  <1>14. Fresh'
    BY <1>5, <1>7 DEF Fresh
  <1>15. CsType'
    BY <1>2, ForgetInType DEF SettingsInv, CsType
  <1>16. \A j \in known : j \notin DOMAIN known_jobs' => j \in Listed /\ ~job[j].repeat
    BY <1>1, <1>6
  <1>17. ToSet(pending_recover) \subseteq ToSet(pending_recover')
    BY <1>10, <1>11 DEF PluginInv
  <1> QED
    BY <1>1, <1>4, <1>12, <1>13, <1>14, <1>15, <1>16, <1>17

\* A step that leaves what is protected and what is live of it.
SameProtected ==
    /\ DOMAIN known_jobs' = DOMAIN known_jobs
    /\ \A j \in DOMAIN known_jobs :
         /\ known_jobs'[j] \in ProtectedJobs
         /\ known_jobs'[j].live <=> known_jobs[j].live

\* Such a step keeps what is said of the plugin.
LEMMA SameProtectedKeeps ==
    ASSUME PluginInv, SameProtected, pending_recover' = pending_recover
    PROVE  /\ PluginInv' /\ Lost' = Lost
           /\ IdsInv /\ UNCHANGED <<job_list, job_next_id, loaded>> => IdsInv'
           /\ Fresh /\ UNCHANGED job_list => Fresh'
  <1>1. Lost' = Lost
    BY DEF Lost, SameProtected
  <1>2. PluginInv'
    BY <1>1 DEF PluginInv, SameProtected, IsPartialFunction
  <1>3. ASSUME UNCHANGED job_list PROVE Listed' = Listed
    BY <1>3 DEF Listed
  <1>4. IdsInv /\ UNCHANGED <<job_list, job_next_id, loaded>> => IdsInv'
    BY <1>1, <1>3 DEF IdsInv, SameProtected
  <1>5. Fresh /\ UNCHANGED job_list => Fresh'
    BY <1>3 DEF Fresh, SameProtected
  <1> QED
    BY <1>1, <1>2, <1>4, <1>5

\* What changes nothing of the plugin is such a step.
LEMMA UnchangedProtected ==
    ASSUME PluginInv, UNCHANGED <<known_jobs, pending_recover>>
    PROVE  SameProtected
  BY DEF SameProtected, PluginInv, IsPartialFunction

\* An id is taken out of pending_recover.
LEMMA RemovedOnce ==
    ASSUME NEW s \in Seq(JobIds), IsInjective(s), NEW i \in 1 .. Len(s)
    PROVE  /\ RemoveAt(s, i) \in Seq(JobIds) /\ IsInjective(RemoveAt(s, i))
           /\ ToSet(RemoveAt(s, i)) = ToSet(s) \ {s[i]}
           /\ s[i] \in ToSet(s)
  <1>0. PICK n, r : n = Len(s) /\ n \in Nat /\ r = RemoveAt(s, i)
    OBVIOUS
  <1>1. /\ r \in Seq(JobIds) /\ Len(r) = n - 1 /\ n - 1 \in Nat
        /\ \A k \in 1 .. n - 1 : r[k] = IF k < i THEN s[k] ELSE s[k + 1]
    <2>1. s \in Seq(JobIds) /\ i \in 1 .. Len(s) /\ r = RemoveAt(s, i)
      BY <1>0
    <2>2. r \in Seq(JobIds) /\ Len(r) = Len(s) - 1 /\ Len(r) \in Nat
          /\ \A k \in 1 .. Len(r) : r[k] = IF k < i THEN s[k] ELSE s[k + 1]
      BY <2>1, RemovedAt
    <2> QED
      BY <1>0, <2>2
  <1>2. DOMAIN s = 1 .. n /\ DOMAIN r = 1 .. n - 1 /\ i \in 1 .. n
    BY <1>0, <1>1
  <1>3. \A k, l \in 1 .. n : s[k] = s[l] => k = l
    BY <1>2 DEF IsInjective
  <1>4. ASSUME NEW k \in 1 .. n - 1, NEW l \in 1 .. n - 1, r[k] = r[l]
        PROVE  k = l
    BY <1>0, <1>1, <1>2, <1>3, <1>4
  <1>5. IsInjective(r)
    BY <1>2, <1>4 DEF IsInjective
  <1>6. ASSUME NEW k \in 1 .. n - 1
        PROVE  \E l \in 1 .. n : l # i /\ r[k] = s[l]
    <2>1. CASE k < i
      <3>1. k \in 1 .. n /\ k # i /\ r[k] = s[k]
        BY <1>0, <1>1, <1>2, <2>1
      <3> QED
        BY <3>1
    <2>2. CASE k >= i
      <3>1. k + 1 \in 1 .. n /\ k + 1 # i /\ r[k] = s[k + 1]
        BY <1>0, <1>1, <1>2, <2>2
      <3> QED
        BY <3>1
    <2> QED
      BY <1>2, <2>1, <2>2
  <1>7. ASSUME NEW l \in 1 .. n, l # i
        PROVE  \E k \in 1 .. n - 1 : r[k] = s[l]
    <2>1. CASE l < i
      <3>1. l \in 1 .. n - 1 /\ r[l] = s[l]
        BY <1>0, <1>1, <1>2, <2>1
      <3> QED
        BY <3>1
    <2>2. CASE l > i
      <3>1. PICK k : k = l - 1
        OBVIOUS
      <3>2. k \in 1 .. n - 1 /\ ~(k < i) /\ k + 1 = l
        BY <1>0, <1>2, <2>2, <3>1
      <3>3. r[k] = s[l]
        BY <1>1, <3>2
      <3> QED
        BY <3>2, <3>3
    <2> QED
      BY <1>2, <1>7, <2>1, <2>2
  <1>8. ToSet(r) = ToSet(s) \ {s[i]}
    <2>1. ASSUME NEW x \in ToSet(r) PROVE x \in ToSet(s) \ {s[i]}
      <3>1. PICK k \in 1 .. n - 1 : r[k] = x
        BY <1>2 DEF ToSet
      <3>2. PICK l \in 1 .. n : l # i /\ r[k] = s[l]
        BY <1>6
      <3> QED
        BY <1>2, <1>3, <3>1, <3>2 DEF ToSet
    <2>2. ASSUME NEW x \in ToSet(s) \ {s[i]} PROVE x \in ToSet(r)
      <3>1. PICK l \in 1 .. n : s[l] = x
        BY <1>2 DEF ToSet
      <3>2. l # i
        BY <3>1
      <3>3. PICK k \in 1 .. n - 1 : r[k] = s[l]
        BY <1>7, <3>2
      <3> QED
        BY <1>2, <3>1, <3>3 DEF ToSet
    <2> QED
      BY <2>1, <2>2
  <1>9. s[i] \in ToSet(s)
    BY <1>2 DEF ToSet
  <1> QED
    BY <1>0, <1>1, <1>5, <1>8, <1>9

\* A lost job is forgotten.
LEMMA ForgetJobPlugin ==
    ASSUME GameInv, PluginInv, IdsInv, SettingsInv,
           NEW i \in 1 .. Len(pending_recover), ForgetJob(i)
    PROVE  /\ PluginInv' /\ IdsInv' /\ CsType' /\ (Fresh => Fresh')
           /\ DOMAIN known_jobs' = DOMAIN known_jobs \ {pending_recover[i]}
           /\ ToSet(pending_recover') = ToSet(pending_recover) \ {pending_recover[i]}
           /\ pending_recover[i] \in ToSet(pending_recover)
  <1>1. PICK j : j = pending_recover[i]
    OBVIOUS
  <1>2. /\ known_jobs' = Without(known_jobs, {j})
        /\ constraints' = ForgetIn(constraints, {j})
        /\ pending_recover' = RemoveAt(pending_recover, i)
        /\ UNCHANGED <<loaded, job_next_id, job_list>>
    BY <1>1 DEF ForgetJob, gameVars, jobVars
  <1>3. known_jobs' = [k \in DOMAIN known_jobs \ {j} |-> known_jobs[k]]
    BY <1>2 DEF Without, Restrict
  <1>4. /\ pending_recover' \in Seq(JobIds) /\ IsInjective(pending_recover')
        /\ ToSet(pending_recover') = ToSet(pending_recover) \ {j}
        /\ j \in ToSet(pending_recover)
    BY <1>1, <1>2, RemovedOnce DEF PluginInv
  <1>5. Lost' = Lost \ {j}
    BY <1>3 DEF Lost
  <1>6. PluginInv'
    BY <1>3, <1>4, <1>5 DEF PluginInv, IsPartialFunction
  <1>7. Listed' = Listed /\ job_next_id' = job_next_id /\ loaded' = loaded
    BY <1>2 DEF Listed
  <1>8. IdsInv'
    BY <1>3, <1>5, <1>7 DEF IdsInv
  <1>9. CsType'
    BY <1>2, ForgetInType DEF SettingsInv, CsType
  <1>10. Fresh => Fresh'
    BY <1>3, <1>7 DEF Fresh
  <1> QED
    BY <1>1, <1>3, <1>4, <1>6, <1>8, <1>9, <1>10

\* The delay grows, up to the longest.
LEMMA DelayType ==
    ASSUME NEW d \in DayTicks .. MaxDelay
    PROVE  RecoveryDelay(d) \in DayTicks .. MaxDelay
  <1>1. d \in Int /\ d >= DayTicks /\ d <= MaxDelay /\ DayTicks \in Nat /\ MaxDelay \in Nat
    BY WorkflowAssumption
  <1>2. PICK e : e = (5 * d) \div 3
    OBVIOUS
  <1>3. e \in Int /\ e >= d
    BY <1>1, <1>2
  <1> QED
    BY <1>1, <1>2, <1>3 DEF RecoveryDelay, Minimum

\* A lost job is back in the game.
LEMMA RecoverJobPlugin ==
    ASSUME GameInv, PluginInv, IdsInv, NEW i \in 1 .. Len(pending_recover), RecoverJob(i)
    PROVE  /\ PluginInv' /\ IdsInv' /\ (Fresh => Fresh')
           /\ DOMAIN known_jobs' = DOMAIN known_jobs
           /\ ToSet(pending_recover') = ToSet(pending_recover) \ {pending_recover[i]}
  <1>1. PICK j, p : j = pending_recover[i] /\ p = known_jobs[j]
    OBVIOUS
  <1>2. PICK d : d = RecoveryDelay(p.resume_delay)
    OBVIOUS
  <1>3. /\ known_jobs' = [known_jobs EXCEPT ![j].live = TRUE,
                            ![j].resume_delay = d, ![j].resume_time = d]
        /\ pending_recover' = RemoveAt(pending_recover, i)
        /\ UNCHANGED <<loaded, job_next_id>>
    BY <1>1, <1>2 DEF RecoverJob, gameVars
  <1>4. /\ pending_recover' \in Seq(JobIds) /\ IsInjective(pending_recover')
        /\ ToSet(pending_recover') = ToSet(pending_recover) \ {j}
        /\ j \in ToSet(pending_recover)
    BY <1>1, <1>3, RemovedOnce DEF PluginInv
  <1>5. j \in DOMAIN known_jobs /\ p \in ProtectedJobs /\ j \in JobIds
    BY <1>1, <1>4 DEF PluginInv, Lost, IsPartialFunction
  <1>6. d \in DayTicks .. MaxDelay /\ d \in 0 .. MaxDelay
    <2>1. d \in DayTicks .. MaxDelay
      BY <1>2, <1>5, DelayType DEF ProtectedJobs
    <2> QED
      BY <2>1, WorkflowAssumption
  <1>7. PICK q : q = [p EXCEPT !.live = TRUE, !.resume_delay = d, !.resume_time = d]
    OBVIOUS
  <1>8. q \in ProtectedJobs /\ q.live
    BY <1>5, <1>6, <1>7 DEF ProtectedJobs
  <1>9. /\ DOMAIN known_jobs' = DOMAIN known_jobs
        /\ known_jobs'[j] = q
        /\ \A k \in DOMAIN known_jobs : k # j => known_jobs'[k] = known_jobs[k]
    BY <1>1, <1>3, <1>5, <1>7
  <1>10. Lost' = Lost \ {j}
    BY <1>8, <1>9 DEF Lost
  <1>11. PluginInv'
    BY <1>4, <1>8, <1>9, <1>10 DEF PluginInv, IsPartialFunction
  <1>12. Listed' = Listed \cup {j}
    BY <1>1, RecoverJobGame
  <1>13. IdsInv'
    <2>1. \A k \in Lost' : k \notin Listed'
      BY <1>10, <1>12 DEF IdsInv
    <2>2. Listed' \cup DOMAIN known_jobs' = Listed \cup DOMAIN known_jobs
      BY <1>5, <1>9, <1>12
    <2>3. loaded
      BY <1>5 DEF IdsInv
    <2> QED
      BY <1>3, <2>1, <2>2, <2>3 DEF IdsInv
  <1>14. Fresh => Fresh'
    BY <1>9, <1>12 DEF Fresh
  <1> QED
    BY <1>1, <1>4, <1>9, <1>11, <1>13, <1>14

\* A job that waits to be recovered is lost: recover_jobs never meets another.
LEMMA NothingElsePending ==
    ASSUME PluginInv, IdsInv, NEW i \in 1 .. Len(pending_recover)
    PROVE  ~NothingToRecover(i)
  <1>1. pending_recover[i] \in Lost
    BY DEF PluginInv, ToSet
  <1> QED
    BY <1>1 DEF NothingToRecover, Lost, IdsInv

\* What is protected is deleted.
LEMMA ClearedPlugin ==
    ASSUME IdsInv, known_jobs' = <<>>, pending_recover' = <<>>, job_next_id' = job_next_id,
           Listed' \subseteq Listed, ~loaded' => Listed' = {}
    PROVE  PluginInv' /\ IdsInv' /\ Fresh'
  <1>1. DOMAIN known_jobs' = {} /\ Lost' = {}
    BY DEF Lost
  <1>2. ToSet(<<>>) = {} /\ IsInjective(<<>>)
    BY DEF ToSet, IsInjective
  <1>3. PluginInv'
    BY <1>1, <1>2 DEF PluginInv, IsPartialFunction
  <1>4. IdsInv'
    BY <1>1 DEF IdsInv
  <1> QED
    BY <1>1, <1>3, <1>4 DEF Fresh

-----------------------------------------------------------------------------
(* The steps preserve the invariant: what they share.                      *)

\* No operation is under way.
LEMMA IdleKeeps ==
    ASSUME GameInv', PluginInv', IdsInv', SettingsInv', todo' = <<>>
    PROVE  IInv'
  <1>1. Shape'
    BY StartsOrdered DEF Shape
  <1>2. Pointers'
    BY DEF Pointers
  <1> QED
    BY <1>1, <1>2 DEF IInv

\* An operation of the enabled plugin starts.
LEMMA StartKeeps ==
    ASSUME GameInv', PluginInv', IdsInv', SettingsInv', enabled',
           todo' \in Seq(Steps), Ordered(todo'), Opens(todo') \/ todo'[1][1] = "check",
           todo' # <<>> => todo'[1][1] = "check" \/ Fresh'
    PROVE  IInv'
  <1>1. Shape'
    BY DEF Shape
  <1>2. Pointers'
    BY DEF Pointers, Opens
  <1> QED
    BY <1>1, <1>2 DEF IInv

\* A step is done, and nothing is put before the rest of the operation.
LEMMA StepKeeps ==
    ASSUME Shape, todo # <<>>, Then(<<>>), enabled' = enabled,
           GameInv', PluginInv', IdsInv', SettingsInv',
           enabled => Fresh',
           enabled /\ todo[1][1] \in {"map", "update"} => Mapped'
    PROVE  IInv'
  <1>1. PICK s, t : s = todo /\ t = Tail(todo)
    OBVIOUS
  <1>2. /\ s \in Seq(Steps) /\ s # <<>> /\ Ordered(s) /\ t = Tail(s)
        /\ ~enabled => \A k \in 1 .. Len(s) : s[k][1] = "command"
    BY <1>1 DEF Shape
  <1>3. /\ t \in Seq(Steps) /\ Ordered(t)
        /\ \A k \in 1 .. Len(t) : k + 1 \in 1 .. Len(s) /\ t[k] = s[k + 1]
        /\ t # <<>> => t[1][1] # "check"
        /\ t # <<>> /\ t[1][1] \in {"update", "command"} => s[1][1] = "map"
        /\ t # <<>> /\ t[1][1] = "print" => s[1][1] = "update"
    <2>1. t \in Seq(Steps) /\ Ordered(t)
      BY <1>2, TailOrdered
    <2>2. \A k \in 1 .. Len(t) : k + 1 \in 1 .. Len(s) /\ t[k] = s[k + 1]
      BY <1>2, TailOrdered
    <2>3. /\ t # <<>> => t[1][1] # "check"
          /\ t # <<>> /\ t[1][1] \in {"update", "command"} => s[1][1] = "map"
          /\ t # <<>> /\ t[1][1] = "print" => s[1][1] = "update"
      BY <1>2, TailOrdered
    <2> QED
      BY <2>1, <2>2, <2>3
  <1>4. todo' = t
    <2>1. todo' = <<>> \o t
      BY <1>1 DEF Then
    <2> QED
      BY <1>3, <2>1
  <1>5. Shape'
    BY <1>2, <1>3, <1>4 DEF Shape
  <1>6. Pointers'
    BY <1>1, <1>3, <1>4 DEF Pointers
  <1> QED
    BY <1>5, <1>6 DEF IInv

\* A command is done: it comes last.
LEMMA CommandIsLast ==
    ASSUME Shape, Step(<<"command">>), NEW a \in Seq(Steps), Then(a)
    PROVE  todo' = a
  <1>1. PICK s, t : s = todo /\ t = Tail(todo)
    OBVIOUS
  <1>2. /\ s \in Seq(Steps) /\ s # <<>> /\ Ordered(s) /\ t = Tail(s)
        /\ Head(s) = <<"command">>
    BY <1>1 DEF Shape, Step
  <1>3. t = <<>>
    <2>1. Head(s) = s[1] /\ (s[1][1] = "command" => t = <<>>)
      BY <1>2, TailOrdered
    <2> QED
      BY <1>2, <2>1
  <1>4. todo' = a \o <<>>
    BY <1>1, <1>3 DEF Then
  <1>5. a \o <<>> = a
    OBVIOUS
  <1> QED
    BY <1>4, <1>5

\* A step is done that puts others before the rest of the operation.
LEMMA StepsKeep ==
    ASSUME Shape, todo # <<>>, NEW a \in Seq(Steps), a # <<>>, Then(a), enabled',
           todo[1][1] \notin {"map", "update"}, Ordered(a),
           \A k \in 1 .. Len(a) : a[k][1] # "command",
           GameInv', PluginInv', IdsInv', SettingsInv',
           a[1][1] = "check" \/ (a[1][1] = "map" /\ Fresh')
    PROVE  IInv'
  <1>1. PICK s, t : s = todo /\ t = Tail(todo)
    OBVIOUS
  <1>2. s \in Seq(Steps) /\ s # <<>> /\ Ordered(s) /\ t = Tail(s)
    BY <1>1 DEF Shape
  <1>3. t \in Seq(Steps) /\ Ordered(t) /\ Opens(t)
    BY <1>1, <1>2, TailOrdered
  <1>4. todo' = a \o t
    BY <1>1 DEF Then
  <1>5. todo' \in Seq(Steps) /\ Ordered(todo')
    BY <1>3, <1>4, ConcatOrdered
  <1>6. todo' # <<>> /\ todo'[1] = a[1]
    BY <1>3, <1>4
  <1>7. Shape'
    BY <1>5 DEF Shape
  <1>8. Pointers'
    BY <1>6 DEF Pointers
  <1> QED
    BY <1>7, <1>8 DEF IInv

\* What a step is called that is done.
LEMMA StepNamed ==
    ASSUME Shape, NEW s, Step(s)
    PROVE  todo # <<>> /\ todo[1] = s
  BY DEF Shape, Step

-----------------------------------------------------------------------------
(* The game's steps.                                                       *)

\* Nothing of the plugin changes.
LEMMA GameStepKeeps ==
    ASSUME IInv, GameStep, GameInv', UNCHANGED <<loaded, since_tick, since_day>>,
           job_next_id' \in Nat, job_next_id <= job_next_id',
           \A j \in Listed' : j \notin Lost /\ j < job_next_id'
    PROVE  IInv'
  <1>1. /\ loaded /\ todo = <<>> /\ todo' = <<>>
        /\ UNCHANGED <<saved, enabled, known_jobs, pending_recover, constraints, last_rlen>>
    BY DEF GameStep, Playing
  <1>2. PluginInv' /\ Lost' = Lost
    BY <1>1 DEF IInv, PluginInv, Lost
  <1>3. IdsInv'
    <2>1. \A j \in DOMAIN known_jobs : j \in Int /\ j < job_next_id
      BY JobIdsFinite DEF IInv, IdsInv, PluginInv, IsPartialFunction
    <2>2. job_next_id \in Int
      BY WorkflowAssumption DEF IInv, GameInv
    <2>3. \A j \in DOMAIN known_jobs' : j < job_next_id'
      BY <1>1, <2>1, <2>2
    <2> QED
      BY <1>1, <1>2, <2>3 DEF IdsInv
  <1>4. SettingsInv'
    BY <1>1 DEF IInv, SettingsInv
  <1> QED
    BY <1>1, <1>2, <1>3, <1>4, IdleKeeps

\* Steps that add no job to the list.
LEMMA ShrinkingStepKeeps ==
    ASSUME IInv, GameStep, GameInv', UNCHANGED <<loaded, since_tick, since_day>>,
           job_next_id' = job_next_id, Listed' \subseteq Listed
    PROVE  IInv'
  <1>1. job_next_id \in Nat
    BY WorkflowAssumption DEF IInv, GameInv
  <1>2. \A j \in Listed' : j \notin Lost /\ j < job_next_id'
    BY DEF IInv, IdsInv
  <1> QED
    BY <1>1, <1>2, GameStepKeeps

\* NewJob: the id is new, to the list and to what is protected.
LEMMA NewJobInv ==
    ASSUME IInv, NEW w \in Shops, NEW repeat \in BOOLEAN, NewJob(w, repeat)
    PROVE  IInv'
  <1>1. GameInv /\ IdsInv
    BY DEF IInv
  <1>2. PICK n : n = job_next_id
    OBVIOUS
  <1>3. /\ GameInv' /\ Listed' = Listed \cup {n}
        /\ job_next_id' = n + 1 /\ n \in JobIds
    BY <1>1, <1>2, NewJobGame
  <1>4. n \in Nat /\ n <= n + 1 /\ n < n + 1
    BY <1>3, WorkflowAssumption DEF JobIds
  <1>5. \A j \in Listed \cup Lost : j < n /\ j \in Int
    BY <1>1, <1>2, JobIdsFinite DEF IdsInv, Lost, IInv, PluginInv, GameInv, IsPartialFunction
  <1>6. \A j \in Listed' : j \notin Lost /\ j < job_next_id'
    BY <1>1, <1>3, <1>4, <1>5 DEF IdsInv
  <1>7. GameStep /\ UNCHANGED <<loaded, since_tick, since_day>>
    BY DEF NewJob
  <1>8. job_next_id' \in Nat /\ job_next_id <= job_next_id'
    BY <1>2, <1>3, <1>4
  <1> QED
    BY <1>3, <1>6, <1>7, <1>8, GameStepKeeps

\* JobEnds: fewer jobs are listed.
LEMMA JobEndsInv ==
    ASSUME IInv, NEW j \in JobIds, JobEnds(j)
    PROVE  IInv'
  <1>1. GameInv
    BY DEF IInv
  <1>2. GameInv'
    BY <1>1, JobEndsGame
  <1>3. /\ GameStep /\ UNCHANGED <<loaded, since_tick, since_day>>
        /\ job_next_id' = job_next_id /\ EndJobs({j})
    BY DEF JobEnds, gameVars
  <1>4. Listed' \subseteq Listed
    BY <1>1, <1>3, EndedJobs
  <1> QED
    BY <1>2, <1>3, <1>4, ShrinkingStepKeeps

\* Block: fewer jobs are listed.
LEMMA BlockInv ==
    ASSUME IInv, NEW w \in Shops, NEW S \in SUBSET ToSet(shop[w].jobs), Block(w, S)
    PROVE  IInv'
  <1>1. GameInv
    BY DEF IInv
  <1>2. GameInv'
    BY <1>1, BlockGame
  <1>3. /\ GameStep /\ UNCHANGED <<loaded, since_tick, since_day>>
        /\ job_next_id' = job_next_id /\ EndJobs(S)
    BY DEF Block, gameVars
  <1>4. Listed' \subseteq Listed
    BY <1>1, <1>3, EndedJobs
  <1> QED
    BY <1>2, <1>3, <1>4, ShrinkingStepKeeps

\* Destroy: fewer jobs are listed.
LEMMA DestroyInv ==
    ASSUME IInv, NEW w \in Shops, Destroy(w)
    PROVE  IInv'
  <1>1. GameInv
    BY DEF IInv
  <1>2. GameInv'
    BY <1>1, DestroyGame
  <1>3. /\ GameStep /\ UNCHANGED <<loaded, since_tick, since_day>>
        /\ job_next_id' = job_next_id /\ EndJobs(ToSet(shop[w].jobs))
    BY DEF Destroy, gameVars
  <1>4. Listed' \subseteq Listed
    BY <1>1, <1>3, EndedJobs
  <1> QED
    BY <1>2, <1>3, <1>4, ShrinkingStepKeeps

\* SetJob: the job stays in its workshop.
LEMMA SetJobInv ==
    ASSUME IInv, NEW j \in JobIds, SetJob(j)
    PROVE  IInv'
  <1>1. GameInv
    BY DEF IInv
  <1>2. /\ j \in Listed /\ GameStep
        /\ UNCHANGED <<loaded, job_next_id, stock, job_list, shop, since_tick, since_day>>
    BY DEF SetJob, gameVars
  <1>3. /\ j \in DOMAIN job /\ job[j] \in Jobs
        /\ \A k \in DOMAIN job : k \in JobIds /\ job[k] \in Jobs
        /\ DOMAIN job = Listed
    BY <1>1, <1>2 DEF GameInv, IsPartialFunction
  <1>4. PICK new : new \in Jobs /\ new.shop = job[j].shop
                   /\ job' = [job EXCEPT ![j] = new]
    <2>1. CASE job' = [job EXCEPT ![j].repeat = ~@]
      <3>1. PICK new : new = [job[j] EXCEPT !.repeat = ~@]
        OBVIOUS
      <3>2. new \in Jobs /\ new.shop = job[j].shop /\ job' = [job EXCEPT ![j] = new]
        BY <1>3, <2>1, <3>1 DEF Jobs
      <3> QED
        BY <3>2
    <2>2. CASE job' = [job EXCEPT ![j].suspend = ~@]
      <3>1. PICK new : new = [job[j] EXCEPT !.suspend = ~@]
        OBVIOUS
      <3>2. new \in Jobs /\ new.shop = job[j].shop /\ job' = [job EXCEPT ![j] = new]
        BY <1>3, <2>2, <3>1 DEF Jobs
      <3> QED
        BY <3>2
    <2> QED
      BY <2>1, <2>2 DEF SetJob
  <1>5. /\ DOMAIN job' = DOMAIN job /\ job'[j] = new
        /\ \A k \in DOMAIN job : k # j => job'[k] = job[k]
    BY <1>3, <1>4
  <1>6. SameLists
    BY <1>2, <1>3, <1>4, <1>5 DEF SameLists, IsPartialFunction
  <1>7. GameInv' /\ Listed' = Listed
    BY <1>1, <1>2, <1>6, SameListsKeep DEF Listed
  <1> QED
    BY <1>2, <1>7, ShrinkingStepKeeps

\* Unblock: the same jobs are listed.
LEMMA UnblockInv ==
    ASSUME IInv, NEW w \in Shops, Unblock(w)
    PROVE  IInv'
  <1>1. /\ GameStep /\ UNCHANGED <<loaded, since_tick, since_day>>
        /\ job_next_id' = job_next_id /\ Listed' = Listed
    BY DEF Unblock, gameVars, Listed
  <1>2. GameInv'
    BY UnblockGame DEF IInv
  <1> QED
    BY <1>1, <1>2, ShrinkingStepKeeps

\* StockChanges: the same jobs are listed.
LEMMA StockChangesInv ==
    ASSUME IInv, NEW i \in Items, NEW n \in 0 .. MaxStock, StockChanges(i, n)
    PROVE  IInv'
  <1>1. /\ GameStep /\ UNCHANGED <<loaded, since_tick, since_day>>
        /\ job_next_id' = job_next_id /\ Listed' = Listed
    BY DEF StockChanges, jobVars, Listed
  <1>2. GameInv'
    BY StockGame DEF IInv
  <1> QED
    BY <1>1, <1>2, ShrinkingStepKeeps

-----------------------------------------------------------------------------
(* The clock, the world, and the starts of operations.                     *)

\* Settings that no step of an operation changes.
LEMMA SettingsKeep ==
    ASSUME SettingsInv, CsType', UNCHANGED <<saved, enabled>>, last_rlen' \in Nat,
           since_tick' \in 0 .. MaxTicks, since_day' \in 0 .. HalfDay
    PROVE  SettingsInv'
  BY DEF SettingsInv, CsType

\* The bounds of the clocks are numbers.
LEMMA ClockBounds == MaxTicks \in Nat /\ HalfDay \in Nat
  BY WorkflowAssumption DEF MaxTicks, HalfDay

\* Frame: resume times come nearer and no further than zero.
LEMMA FrameInv ==
    ASSUME IInv, Frame
    PROVE  IInv'
  <1>1. /\ GameInv /\ PluginInv /\ IdsInv /\ SettingsInv
        /\ todo = <<>> /\ todo' = <<>>
        /\ UNCHANGED <<loaded, job_next_id, stock, job_list, job, shop, saved, enabled,
                       pending_recover, constraints, last_rlen>>
    BY DEF IInv, Frame, Playing, gameVars, jobVars
  <1>2. SameProtected
    <2>1. /\ known_jobs' = [j \in DOMAIN known_jobs |->
               [known_jobs[j] EXCEPT !.resume_time = IF @ > 0 THEN @ - 1 ELSE @]]
      BY DEF Frame
    <2>2. ASSUME NEW j \in DOMAIN known_jobs
          PROVE  /\ known_jobs'[j] \in ProtectedJobs
                 /\ known_jobs'[j].live <=> known_jobs[j].live
      <3>1. PICK p : p = known_jobs[j]
        OBVIOUS
      <3>2. p \in ProtectedJobs
        BY <1>1, <3>1 DEF PluginInv, IsPartialFunction
      <3>3. PICK e : e = IF p.resume_time > 0 THEN p.resume_time - 1 ELSE p.resume_time
        OBVIOUS
      <3>4. e \in {Unset} \cup 0 .. MaxDelay
        <4>1. p.resume_time \in {Unset} \cup 0 .. MaxDelay
          BY <3>2 DEF ProtectedJobs
        <4> QED
          BY <3>3, <4>1, WorkflowAssumption DEF Unset
      <3>5. known_jobs'[j] = [p EXCEPT !.resume_time = e]
        BY <2>1, <3>1, <3>3
      <3>6. [p EXCEPT !.resume_time = e] \in ProtectedJobs
            /\ ([p EXCEPT !.resume_time = e].live <=> p.live)
        BY <3>2, <3>4 DEF ProtectedJobs
      <3> QED
        BY <3>1, <3>5, <3>6
    <2> QED
      BY <2>1, <2>2 DEF SameProtected
  <1>3. PluginInv' /\ IdsInv'
    BY <1>1, <1>2, SameProtectedKeeps
  <1>4. SameLists
    BY <1>1 DEF SameLists, GameInv
  <1>5. GameInv'
    BY <1>1, <1>4, SameListsKeep
  <1>6. since_tick' \in 0 .. MaxTicks /\ since_day' \in 0 .. HalfDay
    BY <1>1, ClockBounds DEF Frame, Minimum, SettingsInv
  <1>7. SettingsInv'
    BY <1>1, <1>6 DEF SettingsInv
  <1> QED
    BY <1>1, <1>3, <1>5, <1>7, IdleKeeps

\* OnUnloaded: nothing is listed, protected or pending.
LEMMA OnUnloadedInv ==
    ASSUME IInv, OnUnloaded
    PROVE  IInv'
  <1>1. GameInv /\ IdsInv /\ SettingsInv
    BY DEF IInv
  <1>2. GameInv' /\ Listed' = {} /\ ~loaded'
    BY <1>1, OnUnloadedGame
  <1>3. /\ known_jobs' = <<>> /\ pending_recover' = <<>> /\ constraints' = <<>>
        /\ job_next_id' = job_next_id /\ todo' = <<>>
        /\ UNCHANGED <<saved, enabled, last_rlen, since_tick, since_day>>
    BY DEF OnUnloaded, CleanupState, Playing, clockVars
  <1>4. PluginInv' /\ IdsInv'
    BY <1>1, <1>2, <1>3, ClearedPlugin
  <1>5. SettingsInv'
    BY <1>1, <1>3 DEF SettingsInv, IsPartialFunction
  <1> QED
    BY <1>2, <1>3, <1>4, <1>5, IdleKeeps

\* OnLoaded: nothing was listed, and nothing is protected.
LEMMA OnLoadedInv ==
    ASSUME IInv, NEW new \in BOOLEAN, OnLoaded(new)
    PROVE  IInv'
  <1>1. GameInv /\ IdsInv /\ SettingsInv
    BY DEF IInv
  <1>2. GameInv' /\ Listed' = Listed
    BY <1>1, OnLoadedGame
  <1>3. /\ loaded' = TRUE /\ known_jobs' = <<>> /\ pending_recover' = <<>>
        /\ job_next_id' = job_next_id /\ last_rlen' = last_rlen
        /\ since_tick' = 0 /\ since_day' = 0
        /\ saved' = IF new THEN [enabled |-> FALSE, limits |-> <<>>] ELSE saved
        /\ enabled' = saved'.enabled \/ enabled' = enabled
        /\ constraints' = [i \in IF library = "open" THEN DOMAIN saved'.limits ELSE {}
                              |-> {}]
        /\ todo' = <<>> \/ (enabled' /\ todo' = << <<"check">> >>)
    BY DEF OnLoaded
  <1>4. PluginInv' /\ IdsInv' /\ Fresh'
    BY <1>1, <1>2, <1>3, ClearedPlugin
  <1>5. /\ saved' = [enabled |-> saved'.enabled, limits |-> saved'.limits]
        /\ saved'.enabled \in BOOLEAN
        /\ IsPartialFunction(saved'.limits, Items, Goals)
    <2>1. CASE new
      BY <1>3, <2>1 DEF IsPartialFunction
    <2>2. CASE ~new
      BY <1>1, <1>3, <2>2 DEF SettingsInv
    <2> QED
      BY <2>1, <2>2
  <1>6. IsPartialFunction(constraints', Items, SUBSET (JobIds \cup {Freed}))
    BY <1>3, <1>5 DEF IsPartialFunction
  <1>7. SettingsInv'
    <2>1. 0 \in 0 .. MaxTicks /\ 0 \in 0 .. HalfDay
      BY ClockBounds
    <2> QED
      BY <1>1, <1>3, <1>5, <1>6, <2>1 DEF SettingsInv
  <1>8. CASE enabled' /\ todo' = << <<"check">> >>
    <2>1. todo' = << <<"check">> >>
      BY <1>8
    <2>2. todo' \in Seq(Steps) /\ Ordered(todo') /\ todo'[1][1] = "check"
      BY <2>1, StartsOrdered
    <2> QED
      BY <1>2, <1>4, <1>7, <1>8, <2>2, StartKeeps
  <1>9. CASE todo' = <<>>
    BY <1>2, <1>4, <1>7, <1>9, IdleKeeps
  <1> QED
    BY <1>3, <1>8, <1>9

\* The steps of recover_jobs, then those of the caller.
LEMMA RecoveryStarts ==
    ASSUME NEW p \in Seq(JobIds), IsInjective(p),
           NEW a \in {<< <<"count">> >>, << <<"map">>, <<"command">> >>},
           NEW s, s = RecoverJobs(p) \o a
    PROVE  s \in Seq(Steps) /\ Ordered(s) /\ Opens(s)
  <1>1. PICK r : r = RecoverJobs(p)
    OBVIOUS
  <1>2. /\ r \in Seq(Steps) /\ Ordered(r)
        /\ \A k \in 1 .. Len(r) : r[k][1] = "job"
    BY <1>1, RecoversOrdered
  <1>3. a \in Seq(Steps) /\ Ordered(a) /\ Opens(a)
    <2>1. CASE a = << <<"count">> >>
      BY <2>1, StartsOrdered
    <2>2. CASE a = << <<"map">>, <<"command">> >>
      BY <2>2, StartsOrdered
    <2> QED
      BY <2>1, <2>2
  <1>4. s \in Seq(Steps) /\ Ordered(s)
    BY <1>1, <1>2, <1>3, ConcatOrdered
  <1>5. Opens(s)
    <2>1. CASE r = <<>>
      <3>1. s = <<>> \o a
        BY <1>1, <2>1
      <3>2. <<>> \o a = a
        BY <1>3
      <3> QED
        BY <1>3, <3>1, <3>2
    <2>2. CASE r # <<>>
      <3>1. 1 \in 1 .. Len(r)
        BY <1>2, <2>2
      <3>2. (r \o a)[1] = r[1]
        BY <1>2, <1>3, <3>1
      <3>3. s[1][1] = "job"
        BY <1>1, <1>2, <3>1, <3>2
      <3> QED
        BY <3>3 DEF Opens
    <2> QED
      BY <2>1, <2>2
  <1> QED
    BY <1>4, <1>5

\* OnUpdate: what is live is listed before a job is recovered.
LEMMA OnUpdateInv ==
    ASSUME IInv, OnUpdate
    PROVE  IInv'
  <1>1. GameInv /\ PluginInv /\ IdsInv /\ SettingsInv
    BY DEF IInv
  <1>2. /\ CheckLostJobs(since_tick) /\ enabled /\ enabled' = enabled /\ saved' = saved
        /\ since_tick' = 0 /\ last_rlen' = last_rlen /\ since_day' = since_day
        /\ UNCHANGED <<loaded, job_list, shop, job_next_id, stock>>
        /\ todo' = IF Len(pending_recover') # last_rlen \/ since_day >= HalfDay
                   THEN RecoverJobs(pending_recover') \o << <<"count">> >> ELSE <<>>
    BY DEF OnUpdate, gameVars
  <1>3. since_tick \in Nat
    BY <1>1, ClockBounds DEF SettingsInv
  <1>4. SameLists /\ PluginInv' /\ IdsInv' /\ Fresh' /\ CsType'
    BY <1>1, <1>2, <1>3, CheckedJobs
  <1>5. GameInv'
    BY <1>1, <1>4, SameListsKeep
  <1>6. SettingsInv'
    <2>1. 0 \in 0 .. MaxTicks
      BY ClockBounds
    <2>2. last_rlen \in Nat /\ since_day \in 0 .. HalfDay
      BY <1>1 DEF SettingsInv
    <2> QED
      BY <1>1, <1>2, <1>4, <2>1, <2>2, SettingsKeep
  <1>7. todo' \in Seq(Steps) /\ Ordered(todo') /\ Opens(todo')
    <2>1. PICK s : s = RecoverJobs(pending_recover') \o << <<"count">> >>
      OBVIOUS
    <2>2. s \in Seq(Steps) /\ Ordered(s) /\ Opens(s)
      BY <1>4, <2>1, RecoveryStarts DEF PluginInv
    <2>3. todo' = s \/ todo' = <<>>
      BY <1>2, <2>1
    <2> QED
      BY <2>2, <2>3, StartsOrdered
  <1> QED
    BY <1>2, <1>4, <1>5, <1>6, <1>7, StartKeeps

\* WorkflowCmd: the same, before constraints are mapped; disabled, only the command runs.
LEMMA WorkflowCmdInv ==
    ASSUME IInv, WorkflowCmd
    PROVE  IInv'
  <1>1. GameInv /\ PluginInv /\ IdsInv /\ SettingsInv
    BY DEF IInv
  <1>2. /\ UNCHANGED <<loaded, job_list, shop, job_next_id, stock>>
        /\ UNCHANGED <<saved, enabled, last_rlen, since_tick, since_day>>
    BY DEF WorkflowCmd, gameVars, clockVars
  <1>3. /\ last_rlen \in Nat /\ since_day \in 0 .. HalfDay
        /\ since_tick \in 0 .. MaxTicks /\ enabled \in BOOLEAN
    BY <1>1 DEF SettingsInv
  <1>4. CASE enabled
    <2>1. /\ CheckLostJobs(0)
          /\ todo' = RecoverJobs(pending_recover') \o << <<"map">>, <<"command">> >>
      BY <1>4 DEF WorkflowCmd
    <2>2. SameLists /\ PluginInv' /\ IdsInv' /\ Fresh' /\ CsType'
      BY <1>1, <1>2, <2>1, CheckedJobs
    <2>3. GameInv'
      BY <1>1, <2>2, SameListsKeep
    <2>4. SettingsInv'
      BY <1>1, <1>2, <1>3, <2>2, SettingsKeep
    <2>5. todo' \in Seq(Steps) /\ Ordered(todo') /\ Opens(todo')
      BY <2>1, <2>2, RecoveryStarts DEF PluginInv
    <2> QED
      BY <1>2, <1>4, <2>2, <2>3, <2>4, <2>5, StartKeeps
  <1>5. CASE ~enabled
    <2>1. /\ todo' = << <<"command">> >>
          /\ UNCHANGED <<known_jobs, job, pending_recover, constraints>>
      BY <1>5 DEF WorkflowCmd
    <2>2. SameLists
      BY <1>1, <1>2, <2>1 DEF SameLists, GameInv
    <2>3. GameInv'
      BY <1>1, <2>2, SameListsKeep
    <2>4. PluginInv' /\ IdsInv'
      BY <1>1, <1>2, <2>1, SameProtectedKeeps, UnchangedProtected
    <2>5. SettingsInv'
      BY <1>1, <1>2, <2>1 DEF SettingsInv
    <2>6. Shape'
      <3>1. todo' \in Seq(Steps) /\ Ordered(todo')
        BY <2>1, StartsOrdered
      <3>2. \A k \in 1 .. Len(todo') : todo'[k][1] = "command"
        BY <2>1
      <3> QED
        BY <3>1, <3>2 DEF Shape
    <2>7. Pointers'
      BY <1>2, <1>5 DEF Pointers
    <2> QED
      BY <2>3, <2>4, <2>5, <2>6, <2>7 DEF IInv
  <1> QED
    BY <1>3, <1>4, <1>5

-----------------------------------------------------------------------------
(* The steps of an operation.                                              *)

\* Only a command runs while the plugin is disabled.
LEMMA StepOfEnabled ==
    ASSUME IInv, todo # <<>>, todo[1][1] # "command"
    PROVE  enabled /\ enabled \in BOOLEAN /\ (todo[1][1] # "check" => Fresh)
  <1>1. 1 \in 1 .. Len(todo)
    BY DEF IInv, Shape
  <1> QED
    BY <1>1 DEF IInv, Shape, Pointers, SettingsInv

\* A step that leaves the game as it is.
LEMMA SameWorld ==
    ASSUME GameInv, UNCHANGED <<gameVars, jobVars>>
    PROVE  /\ GameInv' /\ Listed' = Listed
           /\ UNCHANGED <<loaded, job_next_id, stock, job_list, job, shop>>
  <1>1. UNCHANGED <<loaded, job_next_id, stock, job_list, job, shop>>
    BY DEF gameVars, jobVars
  <1>2. SameLists
    BY <1>1 DEF SameLists, GameInv
  <1> QED
    BY <1>1, <1>2, SameListsKeep DEF Listed

\* Check: what is live is listed.
LEMMA CheckInv ==
    ASSUME IInv, Check
    PROVE  IInv'
  <1>1. GameInv /\ PluginInv /\ IdsInv /\ SettingsInv /\ Shape
    BY DEF IInv
  <1>2. todo # <<>> /\ todo[1][1] = "check"
    BY <1>1, StepNamed DEF Check
  <1>3. /\ CheckLostJobs(0) /\ Then(<<>>)
        /\ UNCHANGED <<loaded, job_list, shop, job_next_id, stock, saved, enabled,
                       last_rlen, since_tick, since_day>>
    BY DEF Check, gameVars, clockVars
  <1>4. SameLists /\ PluginInv' /\ IdsInv' /\ Fresh' /\ CsType'
    BY <1>1, <1>3, CheckedJobs
  <1>5. GameInv'
    BY <1>1, <1>4, SameListsKeep
  <1>6. SettingsInv'
    BY <1>1, <1>3, <1>4, SettingsKeep DEF SettingsInv
  <1> QED
    BY <1>1, <1>2, <1>3, <1>4, <1>5, <1>6, StepKeeps

\* CountPending: live jobs are listed when constraints are mapped.
LEMMA CountPendingInv ==
    ASSUME IInv, CountPending
    PROVE  IInv'
  <1>1. GameInv /\ PluginInv /\ IdsInv /\ SettingsInv /\ Shape
    BY DEF IInv
  <1>2. todo # <<>> /\ todo[1][1] = "count"
    BY <1>1, StepNamed DEF CountPending
  <1>3. enabled /\ Fresh
    BY <1>2, StepOfEnabled
  <1>4. /\ UNCHANGED <<gameVars, jobVars, saved, enabled, known_jobs, pending_recover,
                       constraints, since_tick>>
        /\ last_rlen' = Len(pending_recover)
        /\ IF since_day >= HalfDay
           THEN /\ since_day' = 0
                /\ Then(ProcessConstraints(DOMAIN constraints))
           ELSE /\ UNCHANGED since_day
                /\ Then(<<>>)
    BY DEF CountPending
  <1>5. GameInv' /\ UNCHANGED <<loaded, job_next_id, job_list>>
    BY <1>1, <1>4, SameWorld
  <1>6. PluginInv' /\ IdsInv' /\ Fresh'
    BY <1>1, <1>3, <1>4, <1>5, SameProtectedKeeps, UnchangedProtected
  <1>7. SettingsInv'
    <2>1. last_rlen' \in Nat
      BY <1>1, <1>4 DEF PluginInv
    <2>2. since_day' \in 0 .. HalfDay
      BY <1>1, <1>4, ClockBounds DEF SettingsInv
    <2>3. CsType' /\ since_tick' \in 0 .. MaxTicks
      BY <1>1, <1>4 DEF SettingsInv, CsType
    <2> QED
      BY <1>1, <1>4, <2>1, <2>2, <2>3, SettingsKeep
  <1>8. CASE Then(<<>>)
    BY <1>1, <1>2, <1>4, <1>5, <1>6, <1>7, <1>8, StepKeeps
  <1>9. CASE Then(<< <<"map">>, <<"update">> >>)
    <2>1. PICK a : a = << <<"map">>, <<"update">> >>
      OBVIOUS
    <2>2. /\ a \in Seq(Steps) /\ Ordered(a) /\ a # <<>> /\ a[1][1] = "map"
          /\ \A k \in 1 .. Len(a) : a[k][1] # "command"
      <3>1. a \in Seq(Steps) /\ Ordered(a)
        BY <2>1, StartsOrdered
      <3>2. a # <<>> /\ a[1][1] = "map" /\ \A k \in 1 .. Len(a) : a[k][1] # "command"
        BY <2>1
      <3> QED
        BY <3>1, <3>2
    <2>3. Then(a)
      BY <1>9, <2>1
    <2>4. enabled' /\ todo[1][1] \notin {"map", "update"}
      BY <1>2, <1>3, <1>4
    <2> QED
      BY <1>1, <1>2, <1>5, <1>6, <1>7, <2>2, <2>3, <2>4, StepsKeep
  <1>10. Then(<<>>) \/ Then(<< <<"map">>, <<"update">> >>)
    BY <1>4 DEF ProcessConstraints
  <1> QED
    BY <1>8, <1>9, <1>10

\* The steps of recover_job.
LEMMA JobStepInv ==
    ASSUME IInv, NEW i \in 1 .. Len(pending_recover), JobStep(i), UNCHANGED <<saved, enabled,
           last_rlen, since_tick, since_day>>,
           GameInv', PluginInv', IdsInv', CsType', Fresh => Fresh'
    PROVE  IInv'
  <1>1. Shape /\ SettingsInv
    BY DEF IInv
  <1>2. todo # <<>> /\ todo[1][1] = "job" /\ Then(<<>>)
    BY <1>1, StepNamed DEF JobStep
  <1>3. Fresh'
    BY <1>2, StepOfEnabled
  <1>4. SettingsInv'
    BY <1>1, SettingsKeep DEF SettingsInv
  <1> QED
    BY <1>1, <1>2, <1>3, <1>4, StepKeeps

\* ForgetJob: the job leaves known_jobs and pending_recover.
LEMMA ForgetJobInv ==
    ASSUME IInv, NEW i \in 1 .. Len(pending_recover), ForgetJob(i)
    PROVE  IInv'
  <1>1. GameInv /\ PluginInv /\ IdsInv /\ SettingsInv
    BY DEF IInv
  <1>2. /\ JobStep(i) /\ UNCHANGED <<gameVars, jobVars>>
        /\ UNCHANGED <<saved, enabled, last_rlen, since_tick, since_day>>
    BY DEF ForgetJob, clockVars
  <1>3. GameInv'
    BY <1>1, <1>2, SameWorld
  <1>4. PluginInv' /\ IdsInv' /\ CsType' /\ (Fresh => Fresh')
    BY <1>1, ForgetJobPlugin
  <1> QED
    BY <1>2, <1>3, <1>4, JobStepInv

\* PostponeJob: nothing changes.
LEMMA PostponeJobInv ==
    ASSUME IInv, NEW i \in 1 .. Len(pending_recover), PostponeJob(i)
    PROVE  IInv'
  <1>1. GameInv /\ PluginInv /\ IdsInv /\ SettingsInv
    BY DEF IInv
  <1>2. /\ JobStep(i) /\ UNCHANGED <<gameVars, jobVars>>
        /\ UNCHANGED <<saved, enabled, last_rlen, since_tick, since_day,
                       known_jobs, pending_recover, constraints>>
    BY DEF PostponeJob, clockVars
  <1>3. GameInv' /\ UNCHANGED <<loaded, job_next_id, job_list>>
    BY <1>1, <1>2, SameWorld
  <1>4. PluginInv' /\ IdsInv' /\ (Fresh => Fresh')
    BY <1>1, <1>2, <1>3, SameProtectedKeeps, UnchangedProtected
  <1>5. CsType'
    BY <1>1, <1>2 DEF CsType, SettingsInv
  <1> QED
    BY <1>2, <1>3, <1>4, <1>5, JobStepInv

\* RecoverJob: the job is live, listed, and no longer pending.
LEMMA RecoverJobInv ==
    ASSUME IInv, NEW i \in 1 .. Len(pending_recover), RecoverJob(i)
    PROVE  IInv'
  <1>1. GameInv /\ PluginInv /\ IdsInv /\ SettingsInv
    BY DEF IInv
  <1>2. /\ JobStep(i)
        /\ UNCHANGED <<saved, enabled, last_rlen, since_tick, since_day, constraints>>
    BY DEF RecoverJob, clockVars
  <1>3. GameInv'
    BY <1>1, RecoverJobGame
  <1>4. PluginInv' /\ IdsInv' /\ (Fresh => Fresh')
    BY <1>1, RecoverJobPlugin
  <1>5. CsType'
    BY <1>1, <1>2 DEF CsType, SettingsInv
  <1> QED
    BY <1>2, <1>3, <1>4, <1>5, JobStepInv

\* MapJobConstraints: all pointers are made anew.
LEMMA MapJobConstraintsInv ==
    ASSUME IInv, MapJobConstraints
    PROVE  IInv'
  <1>1. GameInv /\ PluginInv /\ IdsInv /\ SettingsInv /\ Shape
    BY DEF IInv
  <1>2. todo # <<>> /\ todo[1][1] = "map"
    BY <1>1, StepNamed DEF MapJobConstraints
  <1>3. enabled /\ Fresh
    BY <1>2, StepOfEnabled
  <1>4. /\ constraints' = [i \in DOMAIN constraints |->
             {j \in DOMAIN known_jobs : known_jobs[j].live /\ i \in Makes[j]}]
        /\ known_jobs' = [j \in DOMAIN known_jobs |->
             [known_jobs[j] EXCEPT !.constraints =
                IF known_jobs[j].live THEN DOMAIN constraints \cap Makes[j] ELSE {}]]
        /\ Then(<<>>) /\ UNCHANGED <<gameVars, jobVars>>
        /\ UNCHANGED <<saved, enabled, pending_recover, last_rlen, since_tick, since_day>>
    BY DEF MapJobConstraints, clockVars
  <1>5. GameInv' /\ UNCHANGED <<loaded, job_next_id, job_list>>
    BY <1>1, <1>4, SameWorld
  <1>6. ASSUME NEW j \in DOMAIN known_jobs
        PROVE  /\ known_jobs'[j] \in ProtectedJobs
               /\ known_jobs'[j].live <=> known_jobs[j].live
               /\ Freed \notin known_jobs'[j].constraints
    <2>1. PICK p, cs : /\ p = known_jobs[j]
                       /\ cs = IF known_jobs[j].live THEN DOMAIN constraints \cap Makes[j]
                               ELSE {}
      OBVIOUS
    <2>2. p \in ProtectedJobs /\ cs \in SUBSET Items
      BY <1>1, <2>1 DEF PluginInv, SettingsInv, IsPartialFunction
    <2>3. known_jobs'[j] = [p EXCEPT !.constraints = cs]
      BY <1>4, <2>1
    <2>4. /\ [p EXCEPT !.constraints = cs] \in ProtectedJobs
          /\ [p EXCEPT !.constraints = cs].live <=> p.live
          /\ [p EXCEPT !.constraints = cs].constraints = cs
      BY <2>2 DEF ProtectedJobs
    <2> QED
      BY <2>1, <2>2, <2>3, <2>4, WorkflowAssumption
  <1>7. DOMAIN known_jobs' = DOMAIN known_jobs
    BY <1>4
  <1>8. SameProtected
    BY <1>6, <1>7 DEF SameProtected
  <1>9. PluginInv' /\ IdsInv' /\ Fresh'
    BY <1>1, <1>3, <1>4, <1>5, <1>8, SameProtectedKeeps
  <1>10. Mapped'
    <2>1. \A i \in DOMAIN constraints' :
            \A j \in constraints'[i] : j \in DOMAIN known_jobs' /\ known_jobs'[j].live
      BY <1>4, <1>6, <1>7
    <2> QED
      BY <1>6, <1>7, <2>1 DEF Mapped
  <1>11. CsType'
    <2>1. DOMAIN known_jobs \subseteq JobIds
      BY <1>1 DEF PluginInv, IsPartialFunction
    <2> QED
      BY <1>1, <1>4, <2>1 DEF CsType, SettingsInv, IsPartialFunction
  <1>12. SettingsInv'
    BY <1>1, <1>4, <1>11, SettingsKeep DEF SettingsInv
  <1> QED
    BY <1>1, <1>2, <1>4, <1>5, <1>9, <1>10, <1>12, StepKeeps

\* UpdateJobs: pointers stay as they are.
LEMMA UpdateJobsInv ==
    ASSUME IInv, UpdateJobs
    PROVE  IInv'
  <1>1. GameInv /\ PluginInv /\ IdsInv /\ SettingsInv /\ Shape
    BY DEF IInv
  <1>2. todo # <<>> /\ todo[1][1] = "update"
    <2>1. Step(<<"update">>)
      BY DEF UpdateJobs
    <2> QED
      BY <1>1, <2>1, StepNamed
  <1>3. enabled /\ Fresh
    BY <1>2, StepOfEnabled
  <1>0. Mapped
    BY <1>2, <1>3 DEF IInv, Pointers
  <1>4. PICK due : due = {j \in DOMAIN known_jobs :
                           known_jobs[j].live /\ known_jobs[j].constraints # {}}
    OBVIOUS
  <1>5. /\ known_jobs' = [j \in DOMAIN known_jobs |->
             IF j \notin due THEN known_jobs[j]
             ELSE IF Goal(j) THEN [known_jobs[j] EXCEPT !.want_resumed = TRUE]
             ELSE [known_jobs[j] EXCEPT !.want_resumed = FALSE, !.resume_time = Unset,
                     !.resume_delay = IF job[j].suspend THEN @ ELSE DayTicks]]
        /\ job' = [j \in Listed |->
             IF j \notin due THEN job[j]
             ELSE [job[j] EXCEPT !.suspend =
                     IF Goal(j) THEN @ /\ known_jobs[j].resume_time > 0 ELSE TRUE]]
    BY <1>4 DEF UpdateJobs
  <1>6. /\ Then(<<>>) /\ UNCHANGED <<loaded, job_next_id, stock, job_list, shop>>
        /\ UNCHANGED <<saved, enabled, pending_recover, constraints, last_rlen,
                       since_tick, since_day>>
    BY DEF UpdateJobs, gameVars, clockVars
  <1>7. SameLists
    <2>1. DOMAIN job = Listed /\ DOMAIN job' = Listed /\ Listed \subseteq JobIds
          /\ \A j \in Listed : job[j] \in Jobs
      BY <1>1, <1>5 DEF GameInv, IsPartialFunction
    <2>2. ASSUME NEW j \in Listed
          PROVE  job'[j] \in Jobs /\ job'[j].shop = job[j].shop
      <3>1. PICK old, b : /\ old = job[j]
                          /\ b = IF Goal(j) THEN old.suspend /\ known_jobs[j].resume_time > 0
                                 ELSE TRUE
        OBVIOUS
      <3>2. b \in BOOLEAN
        BY <3>1
      <3>3. job'[j] = old \/ job'[j] = [old EXCEPT !.suspend = b]
        BY <1>5, <3>1
      <3>4. old \in Jobs
        BY <2>1, <3>1
      <3>5. [old EXCEPT !.suspend = b] \in Jobs /\ [old EXCEPT !.suspend = b].shop = old.shop
        BY <3>2, <3>4 DEF Jobs
      <3> QED
        BY <3>1, <3>3, <3>4, <3>5
    <2> QED
      BY <1>6, <2>1, <2>2 DEF SameLists, IsPartialFunction
  <1>8. GameInv' /\ Listed' = Listed
    BY <1>1, <1>6, <1>7, SameListsKeep DEF Listed
  <1>9. ASSUME NEW j \in DOMAIN known_jobs
        PROVE  /\ known_jobs'[j] \in ProtectedJobs
               /\ known_jobs'[j].live <=> known_jobs[j].live
               /\ known_jobs'[j].constraints = known_jobs[j].constraints
    <2>1. PICK p, d : p = known_jobs[j]
                      /\ d = IF job[j].suspend THEN p.resume_delay ELSE DayTicks
      OBVIOUS
    <2>2. p \in ProtectedJobs
      BY <1>1, <2>1 DEF PluginInv, IsPartialFunction
    <2>3. d \in DayTicks .. MaxDelay
      <3>1. DayTicks \in DayTicks .. MaxDelay
        BY WorkflowAssumption
      <3>2. p.resume_delay \in DayTicks .. MaxDelay
        BY <2>2 DEF ProtectedJobs
      <3> QED
        BY <2>1, <3>1, <3>2
    <2>4. \/ known_jobs'[j] = p
          \/ known_jobs'[j] = [p EXCEPT !.want_resumed = TRUE]
          \/ known_jobs'[j] = [p EXCEPT !.want_resumed = FALSE, !.resume_time = Unset,
                                 !.resume_delay = d]
      BY <1>5, <2>1
    <2>5. CASE known_jobs'[j] = p
      BY <2>1, <2>2, <2>5
    <2>6. CASE known_jobs'[j] = [p EXCEPT !.want_resumed = TRUE]
      BY <2>1, <2>2, <2>6 DEF ProtectedJobs
    <2>7. CASE known_jobs'[j] = [p EXCEPT !.want_resumed = FALSE, !.resume_time = Unset,
                                   !.resume_delay = d]
      BY <2>1, <2>2, <2>3, <2>7 DEF ProtectedJobs
    <2> QED
      BY <2>4, <2>5, <2>6, <2>7
  <1>10. DOMAIN known_jobs' = DOMAIN known_jobs
    BY <1>5
  <1>11. SameProtected
    BY <1>9, <1>10 DEF SameProtected
  <1>12. PluginInv' /\ IdsInv' /\ Fresh'
    BY <1>1, <1>3, <1>6, <1>11, SameProtectedKeeps
  <1>13. Mapped'
    <2>1. constraints' = constraints
      BY <1>6
    <2> QED
      BY <1>0, <1>9, <1>10, <2>1 DEF Mapped
  <1>14. SettingsInv'
    BY <1>1, <1>6, SettingsKeep DEF SettingsInv, CsType
  <1> QED
    BY <1>1, <1>2, <1>6, <1>8, <1>12, <1>13, <1>14, StepKeeps

-----------------------------------------------------------------------------
(* The commands.                                                           *)

\* A step that leaves the world and what is protected.
LEMMA SameJobs ==
    ASSUME IInv, UNCHANGED <<gameVars, jobVars, known_jobs, pending_recover>>
    PROVE  GameInv' /\ PluginInv' /\ IdsInv' /\ (Fresh => Fresh')
  <1>1. GameInv /\ PluginInv /\ IdsInv
    BY DEF IInv
  <1>2. GameInv' /\ UNCHANGED <<loaded, job_next_id, job_list>>
    BY <1>1, SameWorld
  <1> QED
    BY <1>1, <1>2, SameProtectedKeeps, UnchangedProtected

\* The persistent data, with the plugin enabled.
LEMMA EnabledSettings ==
    ASSUME SettingsInv, EnablePlugin, UNCHANGED <<constraints, last_rlen, since_tick, since_day>>
    PROVE  SettingsInv' /\ enabled'
  <1>1. PICK l, b : l = saved.limits /\ b = saved.enabled
    OBVIOUS
  <1>2. saved = [enabled |-> b, limits |-> l]
    BY <1>1 DEF SettingsInv
  <1>3. saved' = [enabled |-> TRUE, limits |-> l] /\ enabled' = TRUE
    BY <1>2 DEF EnablePlugin
  <1>4. saved'.limits = l /\ saved'.enabled = TRUE
    BY <1>3
  <1> QED
    BY <1>1, <1>3, <1>4 DEF SettingsInv

\* Enable: check_lost_jobs comes next.
LEMMA EnableInv ==
    ASSUME IInv, Enable
    PROVE  IInv'
  <1>1. SettingsInv /\ Shape
    BY DEF IInv
  <1>2. /\ Step(<<"command">>)
        /\ UNCHANGED <<gameVars, jobVars, known_jobs, pending_recover,
                       constraints, last_rlen, since_tick, since_day>>
    BY DEF Enable, clockVars
  <1>3. todo # <<>> /\ todo[1][1] = "command"
    BY <1>1, <1>2, StepNamed
  <1>4. GameInv' /\ PluginInv' /\ IdsInv' /\ (Fresh => Fresh')
    BY <1>2, SameJobs
  <1>5. CASE enabled
    <2>1. UNCHANGED <<enabled, saved>> /\ Then(<<>>)
      BY <1>5 DEF Enable
    <2>2. SettingsInv'
      BY <1>1, <1>2, <2>1 DEF SettingsInv
    <2>3. todo' = <<>>
      BY <1>1, <1>2, <2>1, StartsOrdered, CommandIsLast
    <2> QED
      BY <1>4, <2>2, <2>3, IdleKeeps
  <1>6. CASE ~enabled
    <2>1. EnablePlugin /\ Then(<< <<"check">> >>)
      BY <1>6 DEF Enable
    <2>2. SettingsInv' /\ enabled'
      BY <1>1, <1>2, <2>1, EnabledSettings
    <2>3. PICK a : a = << <<"check">> >>
      OBVIOUS
    <2>4. a \in Seq(Steps) /\ Ordered(a) /\ a[1][1] = "check"
      BY <2>3, StartsOrdered
    <2>5. todo' = a
      BY <1>1, <1>2, <2>1, <2>3, <2>4, CommandIsLast
    <2> QED
      BY <1>4, <2>2, <2>4, <2>5, StartKeeps
  <1> QED
    BY <1>5, <1>6

\* EnableAndLimit: check_lost_jobs comes next.
LEMMA EnableAndLimitInv ==
    ASSUME IInv, NEW i \in Items, NEW goal \in Goals, EnableAndLimit(i, goal)
    PROVE  IInv'
  <1>1. SettingsInv /\ Shape
    BY DEF IInv
  <1>2. /\ Step(<<"command">>) /\ EnablePlugin
        /\ UNCHANGED <<gameVars, jobVars, known_jobs, pending_recover,
                       constraints, last_rlen, since_tick, since_day>>
        /\ Then(<< <<"check">>, <<"limit", i, goal>> >>)
    BY DEF EnableAndLimit, clockVars
  <1>3. GameInv' /\ PluginInv' /\ IdsInv'
    BY <1>2, SameJobs
  <1>4. SettingsInv' /\ enabled'
    BY <1>1, <1>2, EnabledSettings
  <1>5. PICK a : a = << <<"check">>, <<"limit", i, goal>> >>
    OBVIOUS
  <1>6. a \in Seq(Steps) /\ Ordered(a) /\ a[1][1] = "check"
    <2>1. a \in Seq(Steps) /\ Ordered(a)
      BY <1>5, StartsOrdered
    <2> QED
      BY <1>5, <2>1
  <1>7. todo' = a
    BY <1>1, <1>2, <1>5, <1>6, CommandIsLast
  <1> QED
    BY <1>3, <1>4, <1>6, <1>7, StartKeeps

\* SetLimit: constraints are mapped before anything is printed.
LEMMA SetLimitInv ==
    ASSUME IInv, NEW i \in Items, NEW goal \in Goals, SetLimit(i, goal)
    PROVE  IInv'
  <1>1. SettingsInv /\ Shape
    BY DEF IInv
  <1>2. /\ \/ enabled /\ Step(<<"command">>)
           \/ Step(<<"limit", i, goal>>)
        /\ saved' = [saved EXCEPT !.limits =
                        [k \in DOMAIN @ \cup {i} |-> IF k = i THEN goal ELSE @[k]]]
        /\ constraints' = [k \in DOMAIN constraints \cup {i} |->
                             IF k \in DOMAIN constraints THEN constraints[k] ELSE {}]
        /\ Then(<< <<"map">>, <<"update">>, <<"print", i>> >>)
        /\ UNCHANGED <<gameVars, jobVars, enabled, known_jobs, pending_recover,
                       last_rlen, since_tick, since_day>>
    BY DEF SetLimit, clockVars
  <1>3. /\ todo # <<>> /\ todo[1][1] \in {"command", "limit"}
        /\ enabled /\ Fresh
    <2>1. CASE enabled /\ Step(<<"command">>)
      <3>1. todo # <<>> /\ todo[1][1] = "command"
        BY <1>1, <2>1, StepNamed
      <3> QED
        BY <2>1, <3>1 DEF IInv, Pointers
    <2>2. CASE Step(<<"limit", i, goal>>)
      <3>1. todo # <<>> /\ todo[1][1] = "limit"
        BY <1>1, <2>2, StepNamed
      <3> QED
        BY <3>1, StepOfEnabled
    <2> QED
      BY <1>2, <2>1, <2>2
  <1>4. GameInv' /\ PluginInv' /\ IdsInv' /\ Fresh'
    BY <1>2, <1>3, SameJobs
  <1>5. SettingsInv'
    <2>1. PICK l, b, m :
            /\ l = saved.limits /\ b = saved.enabled
            /\ m = [k \in DOMAIN l \cup {i} |-> IF k = i THEN goal ELSE l[k]]
      OBVIOUS
    <2>2. saved = [enabled |-> b, limits |-> l]
      BY <1>1, <2>1 DEF SettingsInv
    <2>3. saved' = [enabled |-> b, limits |-> m]
      BY <1>2, <2>1, <2>2
    <2>4. IsPartialFunction(m, Items, Goals)
      BY <1>1, <2>1 DEF SettingsInv, IsPartialFunction
    <2>5. saved'.limits = m /\ saved'.enabled = b
      BY <2>3
    <2>6. IsPartialFunction(constraints', Items, SUBSET (JobIds \cup {Freed}))
      BY <1>1, <1>2 DEF SettingsInv, IsPartialFunction
    <2> QED
      BY <1>1, <1>2, <2>1, <2>3, <2>4, <2>5, <2>6 DEF SettingsInv
  <1>6. PICK a : a = << <<"map">>, <<"update">>, <<"print", i>> >>
    OBVIOUS
  <1>7. /\ a \in Seq(Steps) /\ Ordered(a) /\ a # <<>> /\ a[1][1] = "map"
        /\ \A k \in 1 .. Len(a) : a[k][1] # "command"
    <2>1. a \in Seq(Steps) /\ Ordered(a)
      BY <1>6, StartsOrdered
    <2>2. a # <<>> /\ a[1][1] = "map"
      BY <1>6
    <2>3. Len(a) = 3 /\ a[2][1] = "update" /\ a[3][1] = "print"
      BY <1>6
    <2> QED
      BY <2>1, <2>2, <2>3
  <1>8. enabled' /\ todo[1][1] \notin {"map", "update"} /\ Then(a)
    BY <1>2, <1>3, <1>6
  <1> QED
    BY <1>1, <1>3, <1>4, <1>5, <1>7, <1>8, StepsKeep

\* Disable: no operation follows.
LEMMA DisableInv ==
    ASSUME IInv, Disable
    PROVE  IInv'
  <1>1. GameInv /\ PluginInv /\ IdsInv /\ SettingsInv /\ Shape
    BY DEF IInv
  <1>2. /\ Step(<<"command">>) /\ enabled' = FALSE /\ Then(<<>>)
        /\ UNCHANGED <<gameVars, jobVars, last_rlen, since_tick, since_day>>
    BY DEF Disable, clockVars
  <1>3. todo' = <<>>
    BY <1>1, <1>2, StartsOrdered, CommandIsLast
  <1>4. GameInv' /\ Listed' = Listed /\ UNCHANGED <<loaded, job_next_id, job_list>>
    BY <1>1, <1>2, SameWorld
  <1>5. CASE enabled
    <2>1. /\ saved' = [saved EXCEPT !.enabled = FALSE]
          /\ constraints' = ForgetIn(constraints, DOMAIN known_jobs)
          /\ known_jobs' = <<>> /\ pending_recover' = <<>>
      BY <1>5 DEF Disable
    <2>2. PluginInv' /\ IdsInv'
      BY <1>1, <1>4, <2>1, ClearedPlugin DEF IdsInv
    <2>3. SettingsInv'
      <3>1. PICK l, b : l = saved.limits /\ b = saved.enabled
        OBVIOUS
      <3>2. saved = [enabled |-> b, limits |-> l]
        BY <1>1, <3>1 DEF SettingsInv
      <3>3. saved' = [enabled |-> FALSE, limits |-> l]
        BY <2>1, <3>2
      <3>4. saved'.limits = l /\ saved'.enabled = FALSE
        BY <3>3
      <3>5. CsType'
        BY <1>1, <2>1, ForgetInType DEF SettingsInv, CsType
      <3> QED
        BY <1>1, <1>2, <3>1, <3>3, <3>4, <3>5 DEF SettingsInv, CsType
    <2> QED
      BY <1>3, <1>4, <2>2, <2>3, IdleKeeps
  <1>6. CASE ~enabled
    <2>1. UNCHANGED <<saved, constraints, known_jobs, pending_recover>>
      BY <1>6 DEF Disable
    <2>2. PluginInv' /\ IdsInv'
      BY <1>2, <2>1, SameJobs
    <2>3. SettingsInv'
      BY <1>1, <1>2, <2>1 DEF SettingsInv
    <2> QED
      BY <1>3, <1>4, <2>2, <2>3, IdleKeeps
  <1> QED
    BY <1>5, <1>6

\* Unlimit: no operation follows.
LEMMA UnlimitInv ==
    ASSUME IInv, NEW i \in Items, Unlimit(i)
    PROVE  IInv'
  <1>1. GameInv /\ PluginInv /\ IdsInv /\ SettingsInv /\ Shape
    BY DEF IInv
  <1>2. /\ Step(<<"command">>) /\ Then(<<>>)
        /\ UNCHANGED <<gameVars, jobVars, enabled, pending_recover,
                       last_rlen, since_tick, since_day>>
    BY DEF Unlimit, clockVars
  <1>3. todo' = <<>>
    BY <1>1, <1>2, StartsOrdered, CommandIsLast
  <1>4. GameInv' /\ UNCHANGED <<loaded, job_next_id, job_list>>
    BY <1>1, <1>2, SameWorld
  <1>5. CASE i \in DOMAIN constraints
    <2>1. /\ constraints' = Without(constraints, {i})
          /\ saved' = [saved EXCEPT !.limits = Without(@, {i})]
          /\ known_jobs' = [j \in DOMAIN known_jobs |->
               [known_jobs[j] EXCEPT !.constraints = Dangle(@, {i})]]
      BY <1>5 DEF Unlimit
    <2>2. SameProtected
      <3>1. ASSUME NEW j \in DOMAIN known_jobs
            PROVE  /\ known_jobs'[j] \in ProtectedJobs
                   /\ known_jobs'[j].live <=> known_jobs[j].live
        <4>1. PICK p, cs : p = known_jobs[j] /\ cs = Dangle(p.constraints, {i})
          OBVIOUS
        <4>2. p \in ProtectedJobs
          BY <1>1, <4>1 DEF PluginInv, IsPartialFunction
        <4>3. cs \in SUBSET (Items \cup {Freed})
          BY <4>1, <4>2, DangleType DEF ProtectedJobs
        <4>4. known_jobs'[j] = [p EXCEPT !.constraints = cs]
          BY <2>1, <4>1
        <4>5. /\ [p EXCEPT !.constraints = cs] \in ProtectedJobs
              /\ [p EXCEPT !.constraints = cs].live <=> p.live
          BY <4>2, <4>3 DEF ProtectedJobs
        <4> QED
          BY <4>1, <4>4, <4>5
      <3>2. DOMAIN known_jobs' = DOMAIN known_jobs
        BY <2>1
      <3> QED
        BY <3>1, <3>2 DEF SameProtected
    <2>3. PluginInv' /\ IdsInv'
      BY <1>1, <1>2, <1>4, <2>2, SameProtectedKeeps
    <2>4. SettingsInv'
      <3>1. PICK l, b, m : l = saved.limits /\ b = saved.enabled /\ m = Without(l, {i})
        OBVIOUS
      <3>2. saved = [enabled |-> b, limits |-> l]
        BY <1>1, <3>1 DEF SettingsInv
      <3>3. saved' = [enabled |-> b, limits |-> m]
        BY <2>1, <3>1, <3>2
      <3>4. saved'.limits = m /\ saved'.enabled = b
        BY <3>3
      <3>5. IsPartialFunction(m, Items, Goals)
        BY <1>1, <3>1 DEF SettingsInv, IsPartialFunction, Without, Restrict
      <3>6. IsPartialFunction(constraints', Items, SUBSET (JobIds \cup {Freed}))
        BY <1>1, <2>1 DEF SettingsInv, IsPartialFunction, Without, Restrict
      <3> QED
        BY <1>1, <1>2, <3>1, <3>3, <3>4, <3>5, <3>6 DEF SettingsInv
    <2> QED
      BY <1>3, <1>4, <2>3, <2>4, IdleKeeps
  <1>6. CASE i \notin DOMAIN constraints
    <2>1. UNCHANGED <<saved, constraints, known_jobs>>
      BY <1>6 DEF Unlimit
    <2>2. PluginInv' /\ IdsInv'
      BY <1>2, <2>1, SameJobs
    <2>3. SettingsInv'
      BY <1>1, <1>2, <2>1 DEF SettingsInv
    <2> QED
      BY <1>3, <1>4, <2>2, <2>3, IdleKeeps
  <1> QED
    BY <1>5, <1>6

\* PrintStep: it only looks.
LEMMA PrintStepInv ==
    ASSUME IInv, PrintStep
    PROVE  IInv'
  <1>1. SettingsInv /\ Shape
    BY DEF IInv
  <1>2. /\ Then(<<>>)
        /\ UNCHANGED <<gameVars, jobVars, saved, enabled, known_jobs, pending_recover,
                       constraints, last_rlen, since_tick, since_day>>
    BY DEF PrintStep, clockVars
  <1>3. /\ todo # <<>> /\ todo[1][1] \in {"command", "print"}
    <2>1. CASE Step(<<"command">>)
      BY <1>1, <2>1, StepNamed
    <2>2. CASE \E i \in Items : Step(<<"print", i>>)
      <3>1. PICK i \in Items : Step(<<"print", i>>)
        BY <2>2
      <3> QED
        BY <1>1, <3>1, StepNamed
    <2> QED
      BY <2>1, <2>2 DEF PrintStep
  <1>4. GameInv' /\ PluginInv' /\ IdsInv' /\ (Fresh => Fresh')
    BY <1>2, SameJobs
  <1>5. SettingsInv'
    BY <1>1, <1>2 DEF SettingsInv
  <1>6. enabled => Fresh
    BY <1>3 DEF IInv, Pointers
  <1> QED
    BY <1>1, <1>2, <1>3, <1>4, <1>5, <1>6, StepKeeps

-----------------------------------------------------------------------------
(* The library is closed and opened.                                       *)

\* plugin_shutdown: no list is left, under an operation or not.
LEMMA PluginShutdownInv ==
    ASSUME IInv, PluginShutdown
    PROVE  IInv'
  <1>1. GameInv /\ IdsInv /\ SettingsInv /\ Shape
    BY DEF IInv
  <1>2. /\ UNCHANGED <<gameVars, jobVars>>
        /\ UNCHANGED <<saved, last_rlen, since_tick, since_day, todo>>
        /\ known_jobs' = <<>> /\ pending_recover' = <<>> /\ constraints' = <<>>
        /\ (todo = <<>> /\ enabled' = FALSE) \/ enabled' = enabled
    BY DEF PluginShutdown, CleanupState, clockVars
  <1>3. /\ GameInv' /\ UNCHANGED <<loaded, job_next_id, job_list>>
        /\ Listed' = Listed
    BY <1>1, <1>2, SameWorld DEF Listed
  <1>4. PluginInv' /\ IdsInv' /\ Fresh'
    BY <1>1, <1>2, <1>3, ClearedPlugin DEF IdsInv
  <1>5. SettingsInv'
    <2>1. IsPartialFunction(constraints', Items, SUBSET (JobIds \cup {Freed}))
      BY <1>2 DEF IsPartialFunction
    <2>2. enabled' \in BOOLEAN
      BY <1>1, <1>2 DEF SettingsInv
    <2> QED
      BY <1>1, <1>2, <2>1, <2>2 DEF SettingsInv
  <1>6. CASE todo = <<>>
    BY <1>2, <1>3, <1>4, <1>5, <1>6, IdleKeeps
  <1>7. CASE enabled' = enabled
    <2>1. Mapped'
      BY <1>2 DEF Mapped
    <2>2. Shape' /\ Pointers'
      BY <1>1, <1>2, <1>4, <1>7, <2>1 DEF Shape, Pointers
    <2> QED
      BY <1>3, <1>4, <1>5, <2>2 DEF IInv
  <1> QED
    BY <1>2, <1>6, <1>7

\* ClosePlugin: the operation under way has ended with it.
LEMMA PluginCloseInv ==
    ASSUME IInv, PluginClose
    PROVE  IInv'
  <1>1. /\ UNCHANGED <<gameVars, jobVars, known_jobs, pending_recover>>
        /\ UNCHANGED <<saved, constraints, last_rlen, since_tick, since_day>>
        /\ todo' = <<>> /\ enabled' = FALSE
    BY DEF PluginClose, clockVars
  <1>2. GameInv' /\ PluginInv' /\ IdsInv'
    BY <1>1, SameJobs
  <1>3. SettingsInv'
    BY <1>1 DEF IInv, SettingsInv
  <1> QED
    BY <1>1, <1>2, <1>3, IdleKeeps

\* plugin_init: what it protects is listed and live.
LEMMA PluginInitInv ==
    ASSUME IInv, LibraryInv, PluginInit
    PROVE  IInv'
  <1>1. /\ GameInv /\ PluginInv /\ IdsInv /\ SettingsInv
        /\ todo = <<>> /\ pending_recover = <<>> /\ ~enabled
    BY DEF IInv, LibraryInv, PluginInit
  <1>2. /\ UNCHANGED <<gameVars, jobVars>>
        /\ UNCHANGED <<saved, pending_recover, todo>>
        /\ last_rlen' = 0 /\ since_tick' = 0 /\ since_day' = 0
    BY DEF PluginInit
  <1>3. /\ GameInv' /\ UNCHANGED <<loaded, job_next_id, job_list>>
        /\ Listed' = Listed /\ job' = job
    BY <1>1, <1>2, SameWorld DEF Listed, jobVars
  <1>4. 0 \in 0 .. MaxTicks /\ 0 \in 0 .. HalfDay /\ 0 \in Nat
    BY ClockBounds
  <1>5. CASE UNCHANGED <<enabled, constraints, known_jobs>>
    <2>1. PluginInv' /\ IdsInv'
      BY <1>1, <1>2, <1>5, SameJobs
    <2>2. SettingsInv'
      BY <1>1, <1>2, <1>4, <1>5 DEF SettingsInv
    <2> QED
      BY <1>1, <1>2, <1>3, <2>1, <2>2, IdleKeeps
  <1>6. CASE /\ enabled' = (loaded /\ saved.enabled)
             /\ constraints' = [i \in IF loaded THEN DOMAIN saved.limits ELSE {} |-> {}]
             /\ known_jobs' = [j \in IF enabled' THEN {k \in Listed : job[k].repeat}
                                                ELSE {} |-> ProtectedJob(j)]
    <2>1. PICK F : F = IF enabled' THEN {k \in Listed : job[k].repeat} ELSE {}
      OBVIOUS
    <2>2. F \subseteq Listed /\ known_jobs' = [j \in F |-> ProtectedJob(j)]
      BY <1>6, <2>1
    <2>3. \A j \in Listed : j \in JobIds /\ job[j] \in Jobs
      BY <1>1 DEF GameInv, IsPartialFunction
    <2>4. ASSUME NEW j \in F
          PROVE  /\ j \in JobIds /\ known_jobs'[j] \in ProtectedJobs
                 /\ known_jobs'[j].live
      BY <2>2, <2>3, <2>4, ProtectedJobType
    <2>5. DOMAIN known_jobs' = F /\ Lost' = {}
      BY <2>2, <2>4 DEF Lost
    <2>6. PluginInv'
      <3>1. ToSet(<<>>) = {}
        BY DEF ToSet
      <3>2. pending_recover' = <<>>
        BY <1>1, <1>2
      <3> QED
        BY <1>1, <1>2, <2>4, <2>5, <3>1, <3>2 DEF PluginInv, IsPartialFunction
    <2>7. IdsInv'
      BY <1>1, <1>3, <2>2, <2>5 DEF IdsInv
    <2>8. SettingsInv'
      <3>1. IsPartialFunction(constraints', Items, SUBSET (JobIds \cup {Freed}))
        BY <1>1, <1>6 DEF SettingsInv, IsPartialFunction
      <3>2. enabled' \in BOOLEAN
        BY <1>1, <1>6 DEF SettingsInv, GameInv
      <3> QED
        BY <1>1, <1>2, <1>4, <3>1, <3>2 DEF SettingsInv
    <2> QED
      BY <1>1, <1>2, <1>3, <2>6, <2>7, <2>8, IdleKeeps
  <1> QED
    BY <1>5, <1>6 DEF PluginInit

\* Only plugin_init fills the lists of a library that is not open: hooks,
\* commands and their steps leave it alone.
LEMMA LibraryNext ==
    ASSUME LibraryInv, [Next]_vars
    PROVE  LibraryInv'
  <1>1. CASE GameNext
    <2>1. CASE GameStep
      BY <2>1 DEF GameStep, Playing, LibraryInv
    <2>2. CASE Frame
      <3>1. known_jobs = <<>> => known_jobs' = <<>>
        BY <2>2 DEF Frame
      <3> QED
        BY <2>2, <3>1 DEF Frame, Playing, LibraryInv
    <2>3. CASE OnUnloaded
      BY <2>3 DEF OnUnloaded, CleanupState, Playing, LibraryInv
    <2>4. ASSUME NEW new \in BOOLEAN, OnLoaded(new) PROVE LibraryInv'
      <3>1. library # "open" => constraints' = <<>>
        BY <2>4 DEF OnLoaded
      <3> QED
        BY <2>4, <3>1 DEF OnLoaded, LibraryInv
    <2> QED
      BY <1>1, <2>1, <2>2, <2>3, <2>4 DEF GameNext, NewJob, Block, Unblock, Destroy,
         JobEnds, SetJob, StockChanges
  <1>2. ASSUME library = "open", library' = library PROVE LibraryInv'
    BY <1>2 DEF LibraryInv
  <1>3. CASE OnUpdate \/ WorkflowCmd
    BY <1>2, <1>3 DEF OnUpdate, WorkflowCmd
  <1>4. CASE StepNext
    <2>1. library = "open"
      BY <1>4 DEF StepNext, Check, CountPending, ForgetJob, PostponeJob, RecoverJob,
         NothingToRecover, JobStep, MapJobConstraints, UpdateJobs, Enable, Disable,
         Unlimit, SetLimit, EnableAndLimit, PrintStep, Step
    <2>2. library' = library
      BY <1>4 DEF StepNext, Check, CountPending, ForgetJob, PostponeJob, RecoverJob,
         NothingToRecover, MapJobConstraints, UpdateJobs, Enable, Disable,
         Unlimit, SetLimit, EnableAndLimit, PrintStep
    <2> QED
      BY <1>2, <2>1, <2>2
  <1>5. CASE PluginNext
    <2>1. CASE PluginShutdown
      BY <2>1 DEF PluginShutdown, CleanupState, LibraryInv
    <2>2. CASE PluginClose
      BY <2>2 DEF PluginClose, LibraryInv
    <2>3. CASE PluginInit
      BY <2>3 DEF PluginInit, LibraryInv
    <2> QED
      BY <1>5, <2>1, <2>2, <2>3 DEF PluginNext
  <1>6. CASE UNCHANGED vars
    BY <1>6 DEF vars, LibraryInv
  <1> QED
    BY <1>1, <1>3, <1>4, <1>5, <1>6 DEF Next

-----------------------------------------------------------------------------
(* The theorems.                                                           *)

\* The invariant holds at first.
LEMMA InitInv ==
    ASSUME Init
    PROVE  IInv
  <1>1. Listed = {} /\ Lost = {} /\ IsInjective(<<>>) /\ ToSet(<<>>) = {}
    BY DEF Init, Listed, Lost, ToSet, IsInjective
  <1>2. shop \in [Shops -> ShopStates] /\ \A w \in Shops : shop[w] = Gone
    BY GoneShop DEF Init, Gone
  <1>3. \A w \in Shops : ShopInv(w)
    BY <1>1, <1>2, GoneShop, Loads DEF ShopInv
  <1>4. GameInv
    <2>1. job_list = <<>> /\ job = <<>> /\ DOMAIN job = {} /\ loaded = FALSE
      BY DEF Init
    <2>2. job_next_id \in 1 .. (MaxId + 1) /\ stock \in [Items -> 0 .. MaxStock]
      BY WorkflowAssumption DEF Init
    <2>3. job_list \in Seq(JobIds) /\ Len(job_list) = 0
      BY <2>1
    <2>4. IsPartialFunction(job, JobIds, Jobs)
      BY <2>1 DEF IsPartialFunction
    <2>5. \A k, l \in 1 .. Len(job_list) : k < l => job_list[k] < job_list[l]
      BY <2>3
    <2>6. DOMAIN job = Listed /\ loaded \in BOOLEAN
      BY <1>1, <2>1
    <2> QED
      BY <1>2, <1>3, <2>2, <2>3, <2>4, <2>5, <2>6 DEF GameInv
  <1>5. PluginInv
    BY <1>1 DEF Init, PluginInv, IsPartialFunction
  <1>6. IdsInv
    BY <1>1 DEF Init, IdsInv
  <1>7. SettingsInv
    <2>1. /\ saved = [enabled |-> FALSE, limits |-> <<>>]
          /\ enabled = FALSE /\ constraints = <<>>
          /\ last_rlen = 0 /\ since_tick = 0 /\ since_day = 0
      BY DEF Init
    <2>2. IsPartialFunction(<<>>, Items, Goals)
          /\ IsPartialFunction(<<>>, Items, SUBSET (JobIds \cup {Freed}))
      BY DEF IsPartialFunction
    <2>3. saved.limits = <<>> /\ saved.enabled = FALSE
      BY <2>1
    <2>4. 0 \in 0 .. MaxTicks /\ 0 \in 0 .. HalfDay
      BY ClockBounds
    <2> QED
      BY <2>1, <2>2, <2>3, <2>4 DEF SettingsInv
  <1>8. Shape
    BY StartsOrdered DEF Init, Shape
  <1>9. Pointers
    BY DEF Init, Pointers
  <1> QED
    BY <1>4, <1>5, <1>6, <1>7, <1>8, <1>9 DEF IInv

\* The invariant holds while nothing happens.
LEMMA UnchangedInv ==
    ASSUME IInv, UNCHANGED vars
    PROVE  IInv'
  <1>1. UNCHANGED <<gameVars, jobVars, known_jobs, pending_recover>>
    BY DEF vars, gameVars, jobVars
  <1>2. GameInv' /\ PluginInv' /\ IdsInv' /\ (Fresh => Fresh')
    BY <1>1, SameJobs
  <1>3. SettingsInv' /\ Shape' /\ Pointers'
    <2>1. SettingsInv'
      BY DEF IInv, SettingsInv, vars
    <2>2. Shape'
      BY DEF IInv, Shape, vars
    <2>3. Pointers'
      BY <1>2 DEF IInv, Pointers, Mapped, vars
    <2> QED
      BY <2>1, <2>2, <2>3
  <1> QED
    BY <1>2, <1>3 DEF IInv

\* The game and the player preserve the invariant.
LEMMA GameNextInv ==
    ASSUME IInv, GameNext
    PROVE  IInv'
  <1>1. ASSUME NEW w \in Shops, NEW repeat \in BOOLEAN, NewJob(w, repeat) PROVE IInv'
    BY <1>1, NewJobInv
  <1>2. ASSUME NEW w \in Shops, NEW S \in SUBSET ToSet(shop[w].jobs), Block(w, S) PROVE IInv'
    BY <1>2, BlockInv
  <1>3. ASSUME NEW w \in Shops, Unblock(w) PROVE IInv'
    BY <1>3, UnblockInv
  <1>4. ASSUME NEW w \in Shops, Destroy(w) PROVE IInv'
    BY <1>4, DestroyInv
  <1>5. ASSUME NEW j \in JobIds, JobEnds(j) PROVE IInv'
    BY <1>5, JobEndsInv
  <1>6. ASSUME NEW j \in JobIds, SetJob(j) PROVE IInv'
    BY <1>6, SetJobInv
  <1>7. ASSUME NEW i \in Items, NEW n \in 0 .. MaxStock, StockChanges(i, n) PROVE IInv'
    BY <1>7, StockChangesInv
  <1>8. CASE Frame
    BY <1>8, FrameInv
  <1>9. CASE OnUnloaded
    BY <1>9, OnUnloadedInv
  <1>10. ASSUME NEW new \in BOOLEAN, OnLoaded(new) PROVE IInv'
    BY <1>10, OnLoadedInv
  <1> QED
    BY <1>1, <1>2, <1>3, <1>4, <1>5, <1>6, <1>7, <1>8, <1>9, <1>10 DEF GameNext

\* The steps of operations preserve the invariant.
LEMMA StepNextInv ==
    ASSUME IInv, StepNext
    PROVE  IInv'
  <1>1. CASE Check
    BY <1>1, CheckInv
  <1>2. CASE CountPending
    BY <1>2, CountPendingInv
  <1>3. ASSUME NEW i \in 1 .. Len(pending_recover), ForgetJob(i) PROVE IInv'
    BY <1>3, ForgetJobInv
  <1>4. ASSUME NEW i \in 1 .. Len(pending_recover), PostponeJob(i) PROVE IInv'
    BY <1>4, PostponeJobInv
  <1>5. ASSUME NEW i \in 1 .. Len(pending_recover), RecoverJob(i) PROVE IInv'
    BY <1>5, RecoverJobInv
  <1>6. ASSUME NEW i \in 1 .. Len(pending_recover), NothingToRecover(i) PROVE IInv'
    BY <1>6, NothingElsePending DEF IInv
  <1>7. CASE MapJobConstraints
    BY <1>7, MapJobConstraintsInv
  <1>8. CASE UpdateJobs
    BY <1>8, UpdateJobsInv
  <1>9. CASE Enable
    BY <1>9, EnableInv
  <1>10. CASE Disable
    BY <1>10, DisableInv
  <1>11. ASSUME NEW i \in Items, Unlimit(i) PROVE IInv'
    BY <1>11, UnlimitInv
  <1>12. ASSUME NEW i \in Items, NEW goal \in Goals, SetLimit(i, goal) PROVE IInv'
    BY <1>12, SetLimitInv
  <1>13. ASSUME NEW i \in Items, NEW goal \in Goals, EnableAndLimit(i, goal) PROVE IInv'
    BY <1>13, EnableAndLimitInv
  <1>14. CASE PrintStep
    BY <1>14, PrintStepInv
  <1> QED
    BY <1>1, <1>2, <1>3, <1>4, <1>5, <1>6, <1>7, <1>8, <1>9, <1>10, <1>11, <1>12, <1>13,
       <1>14 DEF StepNext

\* Every step preserves the invariant.
LEMMA NextInv ==
    ASSUME IInv, LibraryInv, [Next]_vars
    PROVE  IInv' /\ LibraryInv'
  <1>1. ASSUME PluginNext PROVE IInv'
    BY <1>1, PluginShutdownInv, PluginCloseInv, PluginInitInv DEF PluginNext
  <1>2. IInv'
    BY <1>1, GameNextInv, OnUpdateInv, WorkflowCmdInv, StepNextInv, UnchangedInv DEF Next
  <1> QED
    BY <1>2, LibraryNext

\* The invariant holds, with what it needs of the library.
LEMMA BothInvariant == SafeSpec => [](IInv /\ LibraryInv)
  <1>1. Init => IInv /\ LibraryInv
    BY InitInv DEF Init, LibraryInv
  <1>2. IInv /\ LibraryInv /\ [Next]_vars => (IInv /\ LibraryInv)'
    BY NextInv
  <1> QED
    BY <1>1, <1>2, PTL DEF SafeSpec

\* The invariant holds.
THEOREM Invariance == SafeSpec => []IInv
  <1> QED
    BY BothInvariant, PTL

\* The invariant says the types.
LEMMA InvType ==
    ASSUME IInv, LibraryInv
    PROVE  TypeOK
  BY DEF IInv, LibraryInv, GameInv, PluginInv, SettingsInv, Shape, TypeOK

\* Type correctness: lists of ids, delays between a day and a month, operations
\* of known steps, whatever check_lost_jobs, recover_jobs and commands do.
THEOREM TypeCorrect == Spec => []TypeOK
  <1>1. IInv /\ LibraryInv => TypeOK
    BY InvType
  <1> QED
    BY <1>1, BothInvariant, PTL DEF Spec

\* recover_jobs: pending_recover is what is protected and lost, each job once.
THEOREM PendingIsExact == Spec => []PendingExact
  <1>1. IInv => PendingExact
    BY DEF IInv, PluginInv, Lost, PendingExact
  <1> QED
    BY <1>1, Invariance, PTL DEF Spec

\* linkJobIntoWorld: the list stays ascending, and list, jobs and workshops
\* agree, however jobs are created, ended and recovered.
THEOREM WorldIsConsistent == Spec => []WorldConsistent
  <1>1. ASSUME IInv PROVE WorldConsistent
    <2>1. GameInv
      BY <1>1 DEF IInv
    <2>2. ASSUME NEW k \in 1 .. (Len(job_list) - 1)
          PROVE  job_list[k] < job_list[k + 1]
      <3>1. k \in 1 .. Len(job_list) /\ k + 1 \in 1 .. Len(job_list) /\ k < k + 1
        BY <2>1 DEF GameInv
      <3> QED
        BY <2>1, <3>1 DEF GameInv
    <2> QED
      BY <2>1, <2>2 DEF GameInv, ShopInv, WorldConsistent
  <1> QED
    BY <1>1, Invariance, PTL DEF Spec

\* An operation of the enabled plugin follows no pointer to a job or constraint
\* that has been deleted, unless plugin_shutdown deleted it under the operation.
THEOREM PointersAreSound == Spec => []NoStalePointerFollowed
  <1>1. ASSUME IInv, LibraryInv PROVE NoStalePointerFollowed
    <2>0. Shape /\ Pointers /\ PluginInv
      BY <1>1 DEF IInv
    <2>1. ASSUME enabled, todo # <<>>, Fresh, todo[1][1] \in {"update", "command", "print"}
          PROVE  /\ \A i \in DOMAIN constraints : SoundJobs(constraints[i])
                 /\ \A j \in DOMAIN known_jobs : Freed \notin known_jobs[j].constraints
      BY <2>0, <2>1 DEF Pointers, Mapped, Fresh, SoundJobs
    <2>2. ASSUME NEW s, Step(s) PROVE todo # <<>> /\ todo[1] = s
      BY <2>0, <2>2, StepNamed
    <2>3. ASSUME enabled, todo # <<>>, todo[1][1] # "check" PROVE Fresh
      BY <2>0, <2>3 DEF Pointers
    <2>4. ASSUME Step(<<"command">>) \/ (\E i \in Items : Step(<<"print", i>>))
                 \/ Step(<<"update">>)
          PROVE  todo # <<>> /\ todo[1][1] \in {"update", "command", "print"}
      <3>1. CASE Step(<<"command">>)
        BY <2>2, <3>1
      <3>2. CASE Step(<<"update">>)
        BY <2>2, <3>2
      <3>3. CASE \E i \in Items : Step(<<"print", i>>)
        BY <2>2, <3>3
      <3> QED
        BY <2>4, <3>1, <3>2, <3>3
    <2>5. ASSUME Step(<<"map">>) PROVE todo # <<>> /\ todo[1][1] # "check"
      BY <2>2, <2>5
    <2>6. ASSUME enabled, library # "torn" PROVE PointersSound
      <3>1. ASSUME Step(<<"command">>) \/ (\E i \in Items : Step(<<"print", i>>))
                   \/ Step(<<"update">>)
            PROVE  /\ \A i \in DOMAIN constraints : SoundJobs(constraints[i])
                   /\ \A j \in DOMAIN known_jobs : Freed \notin known_jobs[j].constraints
                   /\ Fresh
        BY <2>1, <2>3, <2>4, <2>6, <3>1
      <3>2. ASSUME Step(<<"map">>) PROVE Fresh
        BY <2>3, <2>5, <2>6, <3>2
      <3>3. library = "open"
        BY <1>1, <2>6 DEF LibraryInv
      <3> QED
        BY <3>1, <3>2, <3>3 DEF PointersSound, Fresh
    <2> QED
      BY <2>6 DEF NoStalePointerFollowed
  <1> QED
    BY <1>1, BothInvariant, PTL DEF Spec

\* recover_job's "Inconsistency" does not happen: a pending job is not live,
\* nor is its id in the list.
THEOREM RecoveryIsConsistent ==
    Spec => [][~\E i \in 1 .. Len(pending_recover) : NothingToRecover(i)]_vars
  <1>1. IInv => ~\E i \in 1 .. Len(pending_recover) : NothingToRecover(i)
    BY NothingElsePending DEF IInv
  <1> QED
    BY <1>1, Invariance, PTL DEF Spec

\* What protects a known job, action by action.
Lasts(j) ==
    LET w == known_jobs[j].shop IN
    /\ j \notin DOMAIN known_jobs' =>
         \/ j \in Listed /\ ~job[j].repeat
         \/ ~enabled' \/ ~loaded' \/ library' # "open"
         \/ Pending(j) /\ (~shop[w].standing \/ Load(w) >= MaxJobs)
    /\ Pending(j) /\ ~Pending(j)' /\ j \in DOMAIN known_jobs' =>
         /\ j \in ToSet(shop'[w].jobs)
         /\ job'[j] = [shop |-> w, repeat |-> TRUE, suspend |-> TRUE]

\* Nothing is forgotten, and nothing recovered.
LEMMA KeptLasts ==
    ASSUME DOMAIN known_jobs' = DOMAIN known_jobs, pending_recover' = pending_recover,
           NEW j \in DOMAIN known_jobs
    PROVE  Lasts(j)
  BY DEF Lasts, Pending

\* check_lost_jobs forgets only what the player no longer repeats.
LEMMA CheckLasts ==
    ASSUME IInv, NEW ticks \in Nat, CheckLostJobs(ticks),
           UNCHANGED <<loaded, job_list, shop, job_next_id, stock>>,
           NEW j \in DOMAIN known_jobs
    PROVE  Lasts(j)
  <1>1. GameInv /\ PluginInv /\ IdsInv /\ SettingsInv
    BY DEF IInv
  <1>2. /\ \A k \in DOMAIN known_jobs : k \notin DOMAIN known_jobs' =>
             k \in Listed /\ ~job[k].repeat
        /\ ToSet(pending_recover) \subseteq ToSet(pending_recover')
    BY <1>1, CheckedJobs
  <1>3. Pending(j) => Pending(j)'
    BY <1>2 DEF Pending
  <1> QED
    BY <1>2, <1>3 DEF Lasts

\* forget_job: only a lost job, whose workshop is gone or full.
LEMMA ForgetLasts ==
    ASSUME IInv, NEW i \in 1 .. Len(pending_recover), ForgetJob(i), NEW j \in DOMAIN known_jobs
    PROVE  Lasts(j)
  <1>1. GameInv /\ PluginInv /\ IdsInv /\ SettingsInv
    BY DEF IInv
  <1>2. PICK k, w : k = pending_recover[i] /\ w = known_jobs[k].shop
    OBVIOUS
  <1>3. /\ DOMAIN known_jobs' = DOMAIN known_jobs \ {k}
        /\ ToSet(pending_recover') = ToSet(pending_recover) \ {k}
        /\ k \in ToSet(pending_recover)
    BY <1>1, <1>2, ForgetJobPlugin
  <1>4. ~shop[w].standing \/ Load(w) >= MaxJobs
    BY <1>2 DEF ForgetJob
  <1>5. CASE j = k
    <2>1. j \notin DOMAIN known_jobs' /\ Pending(j)
      BY <1>3, <1>5 DEF Pending
    <2> QED
      BY <1>2, <1>4, <1>5, <2>1 DEF Lasts
  <1>6. CASE j # k
    <2>1. j \in DOMAIN known_jobs' /\ (Pending(j) => Pending(j)')
      BY <1>3, <1>6 DEF Pending
    <2> QED
      BY <2>1 DEF Lasts
  <1> QED
    BY <1>5, <1>6

\* recover_job: the job that waits no more is back in its workshop.
LEMMA RecoverLasts ==
    ASSUME IInv, NEW i \in 1 .. Len(pending_recover), RecoverJob(i), NEW j \in DOMAIN known_jobs
    PROVE  Lasts(j)
  <1>1. GameInv /\ PluginInv /\ IdsInv
    BY DEF IInv
  <1>2. PICK k : k = pending_recover[i]
    OBVIOUS
  <1>3. /\ DOMAIN known_jobs' = DOMAIN known_jobs
        /\ ToSet(pending_recover') = ToSet(pending_recover) \ {k}
    BY <1>1, <1>2, RecoverJobPlugin
  <1>4. /\ k \in ToSet(shop'[known_jobs[k].shop].jobs)
        /\ job'[k] = [shop |-> known_jobs[k].shop, repeat |-> TRUE, suspend |-> TRUE]
    BY <1>1, <1>2, RecoverJobGame
  <1>5. CASE j = k
    BY <1>3, <1>4, <1>5 DEF Lasts
  <1>6. CASE j # k
    <2>1. Pending(j) => Pending(j)'
      BY <1>3, <1>6 DEF Pending
    <2> QED
      BY <1>3, <2>1 DEF Lasts
  <1> QED
    BY <1>5, <1>6

\* So it is with every step.
LEMMA NextLasts ==
    ASSUME IInv, LibraryInv, Next, NEW j \in DOMAIN known_jobs
    PROVE  Lasts(j)
  <1>0. GameInv /\ PluginInv /\ IdsInv /\ SettingsInv /\ Shape
    BY DEF IInv
  <1>1. CASE GameNext
    <2>1. CASE GameStep
      BY <2>1, KeptLasts DEF GameStep
    <2>2. CASE Frame
      <3>1. DOMAIN known_jobs' = DOMAIN known_jobs /\ pending_recover' = pending_recover
        BY <2>2 DEF Frame
      <3> QED
        BY <3>1, KeptLasts
    <2>3. CASE OnUnloaded
      <3>1. ~loaded' /\ DOMAIN known_jobs' = {}
        BY <2>3 DEF OnUnloaded, CleanupState
      <3> QED
        BY <3>1 DEF Lasts
    <2>4. ASSUME NEW new \in BOOLEAN, OnLoaded(new) PROVE Lasts(j)
      BY <1>0, <2>4 DEF OnLoaded, IdsInv
    <2> QED
      BY <1>1, <2>1, <2>2, <2>3, <2>4 DEF GameNext, NewJob, Block, Unblock, Destroy,
         JobEnds, SetJob, StockChanges
  <1>2. CASE OnUpdate
    <2>1. /\ CheckLostJobs(since_tick)
          /\ UNCHANGED <<loaded, job_list, shop, job_next_id, stock>>
      BY <1>2 DEF OnUpdate, gameVars
    <2>2. since_tick \in Nat
      BY <1>0, ClockBounds DEF SettingsInv
    <2> QED
      BY <2>1, <2>2, CheckLasts
  <1>3. CASE WorkflowCmd
    <2>1. UNCHANGED <<loaded, job_list, shop, job_next_id, stock>>
      BY <1>3 DEF WorkflowCmd, gameVars
    <2>2. CheckLostJobs(0) \/ UNCHANGED <<known_jobs, pending_recover>>
      BY <1>3 DEF WorkflowCmd
    <2>3. CASE CheckLostJobs(0)
      BY <2>1, <2>3, CheckLasts
    <2>4. CASE UNCHANGED <<known_jobs, pending_recover>>
      BY <2>4, KeptLasts
    <2> QED
      BY <2>2, <2>3, <2>4
  <1>4. CASE StepNext
    <2>1. CASE Check
      <3>1. /\ CheckLostJobs(0)
            /\ UNCHANGED <<loaded, job_list, shop, job_next_id, stock>>
        BY <2>1 DEF Check, gameVars
      <3> QED
        BY <3>1, CheckLasts
    <2>2. ASSUME NEW i \in 1 .. Len(pending_recover), ForgetJob(i) PROVE Lasts(j)
      BY <2>2, ForgetLasts
    <2>3. ASSUME NEW i \in 1 .. Len(pending_recover), RecoverJob(i) PROVE Lasts(j)
      BY <2>3, RecoverLasts
    <2>4. ASSUME NEW i \in 1 .. Len(pending_recover), NothingToRecover(i) PROVE Lasts(j)
      BY <1>0, <2>4, NothingElsePending
    <2>5. CASE Disable
      <3>1. enabled' = FALSE /\ (~enabled => UNCHANGED <<known_jobs, pending_recover>>)
        BY <2>5 DEF Disable
      <3>2. CASE enabled
        <4>1. DOMAIN known_jobs' = {}
          BY <2>5, <3>2 DEF Disable
        <4> QED
          BY <3>1, <4>1 DEF Lasts
      <3>3. CASE ~enabled
        BY <3>1, <3>3, KeptLasts
      <3> QED
        BY <3>2, <3>3
    <2>6. ASSUME DOMAIN known_jobs' = DOMAIN known_jobs, pending_recover' = pending_recover
          PROVE  Lasts(j)
      BY <2>6, KeptLasts
    <2>7. CASE CountPending \/ Enable \/ PrintStep
      BY <2>6, <2>7 DEF CountPending, Enable, PrintStep
    <2>8. ASSUME NEW i \in 1 .. Len(pending_recover), PostponeJob(i) PROVE Lasts(j)
      BY <2>6, <2>8 DEF PostponeJob
    <2>9. CASE MapJobConstraints
      BY <2>6, <2>9 DEF MapJobConstraints
    <2>10. CASE UpdateJobs
      <3>1. DOMAIN known_jobs' = DOMAIN known_jobs /\ pending_recover' = pending_recover
        BY <2>10 DEF UpdateJobs
      <3> QED
        BY <3>1, <2>6
    <2>11. ASSUME NEW i \in Items, Unlimit(i) PROVE Lasts(j)
      <3>1. DOMAIN known_jobs' = DOMAIN known_jobs /\ pending_recover' = pending_recover
        BY <2>11 DEF Unlimit
      <3> QED
        BY <3>1, <2>6
    <2>12. ASSUME NEW i \in Items, NEW g \in Goals, SetLimit(i, g) \/ EnableAndLimit(i, g)
           PROVE  Lasts(j)
      BY <2>6, <2>12 DEF SetLimit, EnableAndLimit
    <2> QED
      BY <1>4, <2>1, <2>2, <2>3, <2>4, <2>5, <2>7, <2>8, <2>9, <2>10, <2>11, <2>12
         DEF StepNext
  <1>5. CASE PluginNext
    <2>1. CASE PluginShutdown
      <3>1. library' # "open" /\ DOMAIN known_jobs' = {}
        BY <2>1 DEF PluginShutdown, CleanupState
      <3> QED
        BY <3>1 DEF Lasts
    <2>2. CASE PluginClose \/ PluginInit
      <3>1. library # "open"
        BY <2>2 DEF PluginClose, PluginInit
      <3>2. DOMAIN known_jobs = {}
        BY <3>1 DEF LibraryInv
      <3> QED
        BY <3>2
    <2> QED
      BY <1>5, <2>1, <2>2 DEF PluginNext
  <1> QED
    BY <1>1, <1>2, <1>3, <1>4, <1>5 DEF Next

\* A protected job stays protected, and a lost one is waited for until it is back.
THEOREM ProtectionIsLasting == Spec => ProtectionLasts
  <1>1. ASSUME IInv, LibraryInv, [Next]_vars
        PROVE  [\A j \in DOMAIN known_jobs : Lasts(j)]_vars
    BY <1>1, NextLasts
  <1>2. [\A j \in DOMAIN known_jobs : Lasts(j)]_vars =>
          [\A j \in DOMAIN known_jobs :
             LET w == known_jobs[j].shop IN
             /\ j \notin DOMAIN known_jobs' =>
                  \/ j \in Listed /\ ~job[j].repeat
                  \/ ~enabled' \/ ~loaded' \/ library' # "open"
                  \/ Pending(j) /\ (~shop[w].standing \/ Load(w) >= MaxJobs)
             /\ Pending(j) /\ ~Pending(j)' /\ j \in DOMAIN known_jobs' =>
                  /\ j \in ToSet(shop'[w].jobs)
                  /\ job'[j] = [shop |-> w, repeat |-> TRUE, suspend |-> TRUE]]_vars
    BY DEF Lasts
  <1> QED
    BY <1>1, <1>2, BothInvariant, PTL DEF Spec, SafeSpec, ProtectionLasts
=============================================================================
