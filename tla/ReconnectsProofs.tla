-------------------------- MODULE ReconnectsProofs --------------------------
(***************************************************************************)
(* Proofs about the reconnect counter, for any identities, any window and  *)
(* any cap: what the Map of recent disconnects holds and in which order,   *)
(* so that sweeping it from the front loses nobody who may return in time, *)
(* and what is counted.                                                    *)
(***************************************************************************)
EXTENDS Reconnects, FiniteSetTheorems, WellFoundedInduction, SequenceTheorems, TLAPS

Entry == [id : Identities, at : Nat]

-----------------------------------------------------------------------------
(* The operators on the Map.                                               *)

LEMMA MinOfNaturals ==
  ASSUME NEW S \in SUBSET Nat, S # {}
  PROVE  Min(S) \in S /\ \A x \in S : Min(S) <= x
<1>1. PICK m \in S : \A x \in S : ~ (<<x, m>> \in OpToRel(<, Nat))
  BY NatLessThanWellFounded, WFMin, Zenon
<1>2. \A x \in S : ~ (x < m)
  <2>1. \A x \in S : <<x, m>> \in Nat \X Nat
    OBVIOUS
  <2> QED
    BY <1>1, <2>1, Zenon DEF OpToRel
<1>3. \A x \in S : m <= x
  BY <1>2
<1> QED
  BY <1>3 DEF Min

Stays(q, k) == q[k].at >= now - Window /\ Len(q) - k < Cap

\* A sweep takes a number of entries from the front: none that stays, and all
\* up to the first that does.
SweptAt(q, m) ==
  /\ Swept(q) \in Seq(Entry)
  /\ Len(Swept(q)) = Len(q) - m
  /\ \A k \in 1 .. Len(q) - m : Swept(q)[k] = q[k + m]
  /\ \A k \in 1 .. Len(q) : Stays(q, k) => k > m
  /\ m < Len(q) => Stays(q, m + 1)

LEMMA SweptFromFront ==
  ASSUME NEW q \in Seq(Entry)
  PROVE  \E m \in 0 .. Len(q) : SweptAt(q, m)
<1> DEFINE stay == {k \in DOMAIN q : q[k].at >= now - Window /\ Len(q) - k < Cap}
<1>1. Swept(q) = IF stay = {} THEN <<>> ELSE SubSeq(q, Min(stay), Len(q))
  BY DEF Swept
<1>2. DOMAIN q = 1 .. Len(q) /\ Len(q) \in Nat /\ \A k \in 1 .. Len(q) : q[k] \in Entry
  BY LenProperties, ElementOfSeq
<1>3. \A k \in 1 .. Len(q) : k \in stay <=> Stays(q, k)
  BY <1>2 DEF Stays
<1>4. stay \subseteq 1 .. Len(q)
  BY <1>2
<1> HIDE DEF stay
<1>5. CASE stay = {}
  <2>1. Swept(q) = <<>> /\ Len(Swept(q)) = 0 /\ Swept(q) \in Seq(Entry)
    BY <1>1, <1>5, EmptySeq
  <2>2. SweptAt(q, Len(q))
    BY <1>2, <1>3, <1>5, <2>1 DEF SweptAt
  <2> QED
    BY <1>2, <2>2
<1>6. CASE stay # {}
  <2> DEFINE n == Min(stay)
  <2>1. n \in stay /\ \A k \in stay : n <= k
    <3>1. stay \subseteq Nat
      BY <1>2, <1>4
    <3> QED
      BY <1>6, <3>1, MinOfNaturals
  <2>2. n \in 1 .. Len(q)
    BY <1>4, <2>1
  <2> HIDE DEF n
  <2>3. Swept(q) = SubSeq(q, n, Len(q))
    BY <1>1, <1>6 DEF n
  <2>4. /\ SubSeq(q, n, Len(q)) \in Seq(Entry)
        /\ Len(SubSeq(q, n, Len(q))) = Len(q) - n + 1
        /\ \A k \in 1 .. Len(q) - n + 1 : SubSeq(q, n, Len(q))[k] = q[n + k - 1]
    <3>1. \A k \in n .. Len(q) : q[k] \in Entry
      BY <1>2, <2>2
    <3>2. n \in Int /\ Len(q) \in Int /\ n <= Len(q)
      BY <1>2, <2>2
    <3> QED
      BY <3>1, <3>2, SubSeqProperties
  <2>5. SweptAt(q, n - 1)
    <3>1. Len(Swept(q)) = Len(q) - (n - 1)
      BY <1>2, <2>2, <2>3, <2>4
    <3>2. \A k \in 1 .. Len(q) - (n - 1) : Swept(q)[k] = q[k + (n - 1)]
      BY <1>2, <2>2, <2>3, <2>4
    <3>3. \A k \in 1 .. Len(q) : Stays(q, k) => k > n - 1
      BY <1>3, <2>1, <2>2
    <3>4. Stays(q, (n - 1) + 1)
      BY <1>3, <2>1, <2>2
    <3> QED
      BY <2>3, <2>4, <3>1, <3>2, <3>3, <3>4 DEF SweptAt
  <2>6. n - 1 \in 0 .. Len(q)
    BY <1>2, <2>2
  <2> QED
    BY <2>5, <2>6
<1> QED
  BY <1>5, <1>6

\* Removing the entry of an identity moves those behind it one place forward.
LEMMA WithoutEntry ==
  ASSUME NEW q \in Seq(Entry), NEW i, Has(q, i)
  PROVE  /\ Place(q, i) \in 1 .. Len(q)
         /\ q[Place(q, i)].id = i
         /\ Without(q, i) \in Seq(Entry)
         /\ Len(Without(q, i)) = Len(q) - 1
         /\ \A k \in 1 .. Len(q) - 1 :
              Without(q, i)[k] = IF k < Place(q, i) THEN q[k] ELSE q[k + 1]
<1> DEFINE p == Place(q, i)
           front == SubSeq(q, 1, p - 1)
           back == SubSeq(q, p + 1, Len(q))
<1>1. DOMAIN q = 1 .. Len(q) /\ Len(q) \in Nat /\ \A k \in 1 .. Len(q) : q[k] \in Entry
  BY LenProperties, ElementOfSeq
<1>2. p \in 1 .. Len(q) /\ q[p].id = i
  BY <1>1 DEF Has, Place
<1>3. Without(q, i) = front \o back
  BY DEF Without, RemoveAt
<1> HIDE DEF p
<1>4. /\ front \in Seq(Entry) /\ Len(front) = p - 1
      /\ \A k \in 1 .. p - 1 : front[k] = q[k]
  <2>1. \A k \in 1 .. p - 1 : q[k] \in Entry
    BY <1>1, <1>2
  <2>2. 1 \in Int /\ p - 1 \in Int /\ p - 1 >= 0
    BY <1>1, <1>2
  <2>3. /\ front \in Seq(Entry)
        /\ Len(front) = IF 1 <= p - 1 THEN p - 1 - 1 + 1 ELSE 0
        /\ \A k \in 1 .. p - 1 - 1 + 1 : front[k] = q[1 + k - 1]
    BY <2>1, <2>2, SubSeqProperties
  <2> QED
    BY <1>1, <1>2, <2>2, <2>3
<1>5. /\ back \in Seq(Entry) /\ Len(back) = Len(q) - p
      /\ \A k \in 1 .. Len(q) - p : back[k] = q[p + k]
  <2>1. \A k \in p + 1 .. Len(q) : q[k] \in Entry
    BY <1>1, <1>2
  <2>2. p + 1 \in Int /\ Len(q) \in Int /\ p <= Len(q)
    BY <1>1, <1>2
  <2>3. /\ back \in Seq(Entry)
        /\ Len(back) = IF p + 1 <= Len(q) THEN Len(q) - (p + 1) + 1 ELSE 0
        /\ \A k \in 1 .. Len(q) - (p + 1) + 1 : back[k] = q[p + 1 + k - 1]
    BY <2>1, <2>2, SubSeqProperties
  <2> HIDE DEF back
  <2>4. Len(back) = Len(q) - p
    <3>1. Len(back) = IF p + 1 <= Len(q) THEN Len(q) - (p + 1) + 1 ELSE 0
      BY <2>3
    <3>2. p \in Nat /\ p <= Len(q) /\ Len(q) \in Nat
      BY <1>1, <1>2
    <3> QED
      BY <3>1, <3>2
  <2>5. ASSUME NEW k \in 1 .. Len(q) - p PROVE back[k] = q[p + k]
    <3>1. k \in 1 .. Len(q) - (p + 1) + 1 /\ p + 1 + k - 1 = p + k
      BY <1>1, <1>2
    <3> QED
      BY <2>3, <3>1
  <2> QED
    BY <2>3, <2>4, <2>5
<1> HIDE DEF front, back
<1>6. /\ front \o back \in Seq(Entry)
      /\ Len(front \o back) = Len(front) + Len(back)
      /\ \A k \in 1 .. Len(front) + Len(back) :
           (front \o back)[k] = IF k <= Len(front) THEN front[k] ELSE back[k - Len(front)]
  BY <1>4, <1>5, ConcatProperties
<1>7. Len(Without(q, i)) = Len(q) - 1
  BY <1>1, <1>2, <1>3, <1>4, <1>5, <1>6
<1>8. ASSUME NEW k \in 1 .. Len(q) - 1
      PROVE  Without(q, i)[k] = IF k < p THEN q[k] ELSE q[k + 1]
  <2>1. k \in 1 .. Len(front) + Len(back)
    BY <1>1, <1>2, <1>4, <1>5
  <2>2. CASE k < p
    BY <1>1, <1>2, <1>3, <1>4, <1>6, <2>1, <2>2
  <2>3. CASE ~(k < p)
    <3>1. k - Len(front) \in 1 .. Len(q) - p /\ ~(k <= Len(front))
      BY <1>1, <1>2, <1>4, <2>3
    <3>2. back[k - Len(front)] = q[p + (k - Len(front))]
      BY <1>5, <3>1
    <3>3. p + (k - Len(front)) = k + 1
      BY <1>1, <1>2, <1>4
    <3> QED
      BY <1>3, <1>6, <2>1, <2>3, <3>1, <3>2, <3>3
  <2> QED
    BY <2>2, <2>3
<1> QED
  BY <1>2, <1>3, <1>6, <1>7, <1>8 DEF p

\* The entries of r are entries of q, in the order of q.
Thinned(r, q) ==
  /\ r \in Seq(Entry) /\ q \in Seq(Entry) /\ Len(r) <= Len(q)
  /\ \E f \in [1 .. Len(r) -> 1 .. Len(q)] :
       /\ \A j, k \in 1 .. Len(r) : j < k => f[j] < f[k]
       /\ \A k \in 1 .. Len(r) : r[k] = q[f[k]]

LEMMA SweptThins == ASSUME NEW q \in Seq(Entry) PROVE Thinned(Swept(q), q)
<1>1. PICK m \in 0 .. Len(q) : SweptAt(q, m)
  BY SweptFromFront
<1> DEFINE r == Swept(q)
           f == [k \in 1 .. Len(r) |-> k + m]
<1>2. /\ Len(q) \in Nat /\ m \in Nat /\ r \in Seq(Entry) /\ Len(r) = Len(q) - m
      /\ \A k \in 1 .. Len(r) : r[k] = q[k + m]
  BY <1>1, LenProperties DEF SweptAt
<1> HIDE DEF r
<1>3. f \in [1 .. Len(r) -> 1 .. Len(q)] /\ Len(r) <= Len(q)
  BY <1>2
<1>4. /\ \A j, k \in 1 .. Len(r) : j < k => f[j] < f[k]
      /\ \A k \in 1 .. Len(r) : r[k] = q[f[k]]
  BY <1>2
<1> HIDE DEF f
<1>5. Thinned(r, q)
  BY <1>2, <1>3, <1>4 DEF Thinned
<1> QED
  BY <1>5 DEF r

LEMMA WithoutThins ==
  ASSUME NEW q \in Seq(Entry), NEW i, Has(q, i)
  PROVE  Thinned(Without(q, i), q)
<1> DEFINE r == Without(q, i)
           p == Place(q, i)
           f == [k \in 1 .. Len(r) |-> IF k < p THEN k ELSE k + 1]
<1>1. /\ p \in 1 .. Len(q) /\ r \in Seq(Entry) /\ Len(r) = Len(q) - 1 /\ Len(q) \in Nat
      /\ \A k \in 1 .. Len(q) - 1 : r[k] = IF k < p THEN q[k] ELSE q[k + 1]
  BY WithoutEntry, LenProperties
<1> HIDE DEF r, p
<1>2. f \in [1 .. Len(r) -> 1 .. Len(q)] /\ Len(r) <= Len(q)
  BY <1>1
<1>3. /\ \A j, k \in 1 .. Len(r) : j < k => f[j] < f[k]
      /\ \A k \in 1 .. Len(r) : r[k] = q[f[k]]
  BY <1>1
<1> HIDE DEF f
<1>4. Thinned(r, q)
  BY <1>1, <1>2, <1>3 DEF Thinned
<1> QED
  BY <1>4 DEF r

-----------------------------------------------------------------------------
(* The invariant.                                                          *)

Types ==
  /\ now \in Nat
  /\ open \in [Identities -> Nat]
  /\ active \in [Identities -> Nat]
  /\ reconnects \in Nat
  /\ gone \in [Identities -> Nat \cup {Never}]
  /\ since \in [Identities -> SUBSET Identities]

\* No identity is there twice, and an entry is older than those behind it unless
\* it was refreshed in its place.
Sorted(q, often) ==
  \A j, k \in 1 .. Len(q) :
    j < k => q[j].id # q[k].id /\ (q[j].id \notin often => q[j].at <= q[k].at)

\* An entry is of an identity that is not counted as active, and of the time at
\* which it left.
Backed(q, counted, left) ==
  \A k \in 1 .. Len(q) :
    counted[q[k].id] = 0 /\ left[q[k].id] = q[k].at /\ q[k].at <= now

\* Behind an entry are only those of identities that have left since.
Behind(q, others) ==
  \A j, k \in 1 .. Len(q) : j < k => q[k].id \in others[q[j].id]

\* Who may return within the window has an entry, unless Cap others have left.
Remembered(q, opened, left, others) ==
  \A i \in Identities :
    /\ opened[i] = 0 /\ left[i] # Never /\ now - left[i] <= Window
    /\ Cardinality(others[i]) < Cap
    => \E k \in 1 .. Len(q) : q[k].id = i

Map(q, opened, counted, left, others, often) ==
  /\ q \in Seq(Entry)
  /\ Sorted(q, often) /\ Backed(q, counted, left) /\ Behind(q, others)
  /\ Remembered(q, opened, left, others)

MapInv ==
  /\ Types /\ SessionsCounted
  /\ Len(recent) <= Cap
  /\ Map(recent, open, active, gone, since, again)

LEMMA Constants ==
  /\ Window \in Nat /\ Cap \in Nat /\ Cap > 0 /\ Never = -1
  /\ \A T \in SUBSET Identities : IsFiniteSet(T) /\ Cardinality(T) \in Nat
<1>1. \A T \in SUBSET Identities : IsFiniteSet(T)
  BY ReconnectAssumption, FS_Subset DEF ReconnectAssumption
<1> QED
  BY <1>1, ReconnectAssumption, FS_CardinalityType DEF ReconnectAssumption, Never

LEMMA EntryTypes ==
  ASSUME NEW q \in Seq(Entry)
  PROVE  /\ Len(q) \in Nat /\ DOMAIN q = 1 .. Len(q)
         /\ \A k \in 1 .. Len(q) : q[k] \in Entry /\ q[k].id \in Identities /\ q[k].at \in Nat
<1>1. \A k \in 1 .. Len(q) : q[k] \in Entry
  BY ElementOfSeq
<1> QED
  BY <1>1, LenProperties DEF Entry

\* What is kept by taking entries out.
LEMMA ThinnedKeeps ==
  ASSUME NEW q, NEW r, Thinned(r, q), NEW often, NEW counted, NEW left, NEW others,
         Sorted(q, often), Backed(q, counted, left), Behind(q, others)
  PROVE  Sorted(r, often) /\ Backed(r, counted, left) /\ Behind(r, others)
<1>1. PICK f \in [1 .. Len(r) -> 1 .. Len(q)] :
        /\ \A j, k \in 1 .. Len(r) : j < k => f[j] < f[k]
        /\ \A k \in 1 .. Len(r) : r[k] = q[f[k]]
  BY DEF Thinned
<1>2. \A k \in 1 .. Len(r) : f[k] \in 1 .. Len(q)
  BY <1>1
<1>3. Sorted(r, often)
  BY <1>1, <1>2 DEF Sorted
<1>4. Backed(r, counted, left)
  BY <1>1, <1>2 DEF Backed
<1>5. Behind(r, others)
  BY <1>1, <1>2 DEF Behind
<1> QED
  BY <1>3, <1>4, <1>5

\* The entries behind one are at most as many as have left since.
LEMMA FewBehind ==
  ASSUME NEW q \in Seq(Entry), NEW often, NEW others \in [Identities -> SUBSET Identities],
         Sorted(q, often), Behind(q, others), NEW k \in 1 .. Len(q)
  PROVE  Len(q) - k <= Cardinality(others[q[k].id])
<1> DEFINE T == others[q[k].id]
           B == k + 1 .. Len(q)
           f == [j \in B |-> q[j].id]
<1>1. /\ Len(q) \in Nat /\ \A j \in 1 .. Len(q) : q[j].id \in Identities
  BY EntryTypes
<1>2. T \in SUBSET Identities /\ IsFiniteSet(T)
  BY <1>1, Constants
<1>3. \A j \in B : j \in 1 .. Len(q) /\ k < j
  BY <1>1
<1>4. f \in [B -> T]
  BY <1>3 DEF Behind
<1>5. \A j, n \in B : f[j] = f[n] => j = n
  <2> SUFFICES ASSUME NEW j \in B, NEW n \in B, j # n PROVE q[j].id # q[n].id
    OBVIOUS
  <2>1. j < n \/ n < j
    BY <1>1
  <2> QED
    BY <1>3, <2>1 DEF Sorted
<1>6. f \in Injection(B, T)
  BY <1>4, <1>5 DEF Injection, IsInjective
<1>7. Cardinality(B) <= Cardinality(T)
  <2> HIDE DEF f, B, T
  <2> QED
    BY <1>2, <1>6, FS_Injection
<1>8. Cardinality(B) = Len(q) - k
  <2>1. \A a, b \in Int : Cardinality(a .. b) = IF a > b THEN 0 ELSE b - a + 1
    BY FS_Interval
  <2>2. k + 1 \in Int /\ Len(q) \in Int
    BY <1>1
  <2> QED
    BY <1>1, <2>1, <2>2
<1> QED
  BY <1>7, <1>8

\* A sweep takes nothing that is still of use.
LEMMA SweepKeeps ==
  ASSUME now \in Nat, NEW q, NEW opened, NEW counted, NEW left,
         NEW others \in [Identities -> SUBSET Identities], NEW often,
         Map(q, opened, counted, left, others, often)
  PROVE  Map(Swept(q), opened, counted, left, others, often) /\ Len(Swept(q)) <= Cap
<1> USE Constants
<1> DEFINE r == Swept(q)
<1>1. /\ q \in Seq(Entry) /\ Sorted(q, often) /\ Backed(q, counted, left) /\ Behind(q, others)
      /\ Remembered(q, opened, left, others)
  BY DEF Map
<1>2. PICK m \in 0 .. Len(q) : SweptAt(q, m)
  BY <1>1, SweptFromFront
<1>3. /\ Len(q) \in Nat /\ m \in Nat /\ Len(r) = Len(q) - m /\ r \in Seq(Entry)
      /\ \A k \in 1 .. Len(r) : r[k] = q[k + m]
      /\ \A k \in 1 .. Len(q) : q[k].at \in Nat
      /\ m < Len(q) => Stays(q, m + 1)
      /\ \A k \in 1 .. Len(q) : Stays(q, k) => k > m
  BY <1>1, <1>2, EntryTypes DEF SweptAt
<1>4. Thinned(r, q)
  BY <1>1, SweptThins
<1> HIDE DEF r
<1>5. Sorted(r, often) /\ Backed(r, counted, left) /\ Behind(r, others)
  BY <1>1, <1>4, ThinnedKeeps
<1>6. Remembered(r, opened, left, others)
  <2> SUFFICES ASSUME NEW i \in Identities, opened[i] = 0, left[i] # Never, now - left[i] <= Window,
                      Cardinality(others[i]) < Cap
               PROVE  \E k \in 1 .. Len(r) : r[k].id = i
    BY DEF Remembered
  <2>1. PICK k \in 1 .. Len(q) : q[k].id = i
    BY <1>1 DEF Remembered
  <2>2. q[k].at = left[i]
    BY <1>1, <2>1 DEF Backed
  <2>3. Len(q) - k <= Cardinality(others[i]) /\ Cardinality(others[i]) \in Nat
    BY <1>1, <2>1, FewBehind
  <2>4. Stays(q, k)
    BY <1>3, <2>2, <2>3 DEF Stays
  <2>5. k - m \in 1 .. Len(r) /\ (k - m) + m = k
    BY <1>3, <2>4
  <2>6. r[k - m].id = i
    BY <1>3, <2>1, <2>5
  <2> QED
    BY <2>5, <2>6
<1>7. Len(r) <= Cap
  BY <1>3 DEF Stays
<1> QED
  BY <1>3, <1>5, <1>6, <1>7 DEF Map, r

\* The sequence does not change, and its identities did not either.
LEMMA SameIsKept ==
  ASSUME NEW q, Map(q, open, active, gone, since, again), SessionsCounted, Types,
         NEW i \in Identities, ~Has(q, i), Departs(i) \/ UNCHANGED history,
         NEW opened, opened[i] # 0, NEW counted,
         \A j \in Identities \ {i} : opened[j] = open[j] /\ counted[j] = active[j]
  PROVE  Map(q, opened, counted, gone', since', again')
<1> USE Constants
<1>1. /\ q \in Seq(Entry) /\ Sorted(q, again) /\ Backed(q, active, gone) /\ Behind(q, since)
      /\ Remembered(q, open, gone, since)
  BY DEF Map
<1>2. \A k \in 1 .. Len(q) : q[k].id \in Identities \ {i}
  BY <1>1, EntryTypes DEF Has
<1>3. /\ \A j \in Identities \ {i} : gone'[j] = gone[j]
      /\ \A j \in Identities : since'[j] \in SUBSET Identities /\ since[j] \subseteq since'[j]
      /\ again \subseteq again'
  BY DEF Departs, history, Types
<1>4. Sorted(q, again')
  BY <1>1, <1>3 DEF Sorted
<1>5. Backed(q, counted, gone')
  BY <1>1, <1>2, <1>3 DEF Backed
<1>6. Behind(q, since')
  BY <1>1, <1>2, <1>3 DEF Behind
<1>7. Remembered(q, opened, gone', since')
  <2> SUFFICES ASSUME NEW j \in Identities, opened[j] = 0, gone'[j] # Never, now - gone'[j] <= Window,
                      Cardinality(since'[j]) < Cap
               PROVE  \E k \in 1 .. Len(q) : q[k].id = j
    BY DEF Remembered
  <2>1. open[j] = 0 /\ gone[j] = gone'[j]
    BY <1>3
  <2>2. Cardinality(since[j]) <= Cardinality(since'[j])
    BY <1>3, FS_Subset
  <2>3. Cardinality(since[j]) < Cap
    BY <1>3, <2>2, Constants DEF Types
  <2> QED
    BY <1>1, <2>1, <2>3 DEF Remembered
<1> QED
  BY <1>1, <1>4, <1>5, <1>6, <1>7 DEF Map

\* An identity leaves and enters the Map: behind all the others, or in the place
\* it has there.
LEMMA EnterKeeps ==
  ASSUME Types, Map(recent, open, active, gone, since, again), NEW i \in Identities, Departs(i),
         NEW opened, NEW counted, counted[i] = 0,
         \A j \in Identities \ {i} : opened[j] = open[j] /\ counted[j] = active[j]
  PROVE  Map(MapSet(recent, i, now), opened, counted, gone', since', again')
<1> USE Constants
<1> DEFINE e == [id |-> i, at |-> now]
           r == MapSet(recent, i, now)
<1>1. /\ recent \in Seq(Entry) /\ Sorted(recent, again) /\ Backed(recent, active, gone)
      /\ Behind(recent, since) /\ Remembered(recent, open, gone, since)
  BY DEF Map
<1>2. /\ Len(recent) \in Nat /\ DOMAIN recent = 1 .. Len(recent)
      /\ \A k \in 1 .. Len(recent) :
           recent[k] \in Entry /\ recent[k].id \in Identities /\ recent[k].at \in Nat /\ recent[k].at <= now
  BY <1>1, EntryTypes DEF Backed
<1>3. e \in Entry /\ e.id = i /\ e.at = now /\ now \in Nat
  BY DEF Entry, Types
<1>4. /\ gone'[i] = now /\ \A j \in Identities \ {i} : gone'[j] = gone[j]
      /\ \A j \in Identities : since'[j] \in SUBSET Identities /\ since[j] \subseteq since'[j]
      /\ \A j \in Identities \ {i} : gone[j] # Never => i \in since'[j]
      /\ again \subseteq again' /\ (gone[i] # Never => i \in again')
  BY DEF Departs, Types
<1>5. /\ r \in Seq(Entry) /\ Sorted(r, again') /\ Behind(r, since')
      /\ \A k \in 1 .. Len(r) : r[k] = e \/ (r[k].id # i /\ \E n \in 1 .. Len(recent) : r[k] = recent[n])
      /\ \A n \in 1 .. Len(recent) : \E k \in 1 .. Len(r) : r[k].id = recent[n].id
      /\ \E k \in 1 .. Len(r) : r[k].id = i
  <2>1. CASE Has(recent, i)
    <3> DEFINE s == [k \in 1 .. Len(recent) |-> IF recent[k].id = i THEN e ELSE recent[k]]
    <3>1. r = s
      BY <1>2, <2>1 DEF MapSet
    <3>2. s \in Seq(Entry) /\ Len(s) = Len(recent)
      <4>1. \A k \in 1 .. Len(recent) : s[k] \in Entry
        BY <1>2, <1>3
      <4>2. s \in [1 .. Len(recent) -> Entry]
        BY <4>1
      <4> HIDE DEF s
      <4> QED
        BY <1>2, <4>2, SeqDef, LenProperties
    <3>3. \A k \in 1 .. Len(recent) :
            s[k] = (IF recent[k].id = i THEN e ELSE recent[k]) /\ s[k].id = recent[k].id
      BY <1>3
    <3> HIDE DEF s, e
    <3>4. gone[i] # Never
      <4>1. PICK k \in 1 .. Len(recent) : recent[k].id = i
        BY <1>2, <2>1 DEF Has
      <4> QED
        BY <1>1, <1>2, <4>1 DEF Backed
    <3>5. Sorted(s, again')
      <4> SUFFICES ASSUME NEW j \in 1 .. Len(recent), NEW k \in 1 .. Len(recent), j < k
                   PROVE  s[j].id # s[k].id /\ (s[j].id \notin again' => s[j].at <= s[k].at)
        BY <3>2 DEF Sorted
      <4>1. recent[j].id # recent[k].id /\ (recent[j].id \notin again => recent[j].at <= recent[k].at)
        BY <1>1 DEF Sorted
      <4>2. s[j].id \notin again' => recent[j].id # i /\ recent[j].id \notin again
        BY <1>4, <3>3, <3>4
      <4> QED
        BY <1>2, <1>3, <3>3, <4>1, <4>2
    <3>6. Behind(s, since')
      <4> SUFFICES ASSUME NEW j \in 1 .. Len(recent), NEW k \in 1 .. Len(recent), j < k
                   PROVE  s[k].id \in since'[s[j].id]
        BY <3>2 DEF Behind
      <4> QED
        BY <1>1, <1>2, <1>4, <3>3 DEF Behind
    <3>7. \E k \in 1 .. Len(s) : s[k].id = i
      BY <1>2, <2>1, <3>2, <3>3 DEF Has
    <3> HIDE DEF r
    <3> QED
      BY <3>1, <3>2, <3>3, <3>5, <3>6, <3>7
  <2>2. CASE ~Has(recent, i)
    <3>1. r = Append(recent, e)
      BY <2>2 DEF MapSet
    <3>2. /\ r \in Seq(Entry) /\ Len(r) = Len(recent) + 1
          /\ \A k \in 1 .. Len(recent) : r[k] = recent[k]
          /\ r[Len(recent) + 1] = e
      BY <1>1, <1>3, <3>1, AppendProperties
    <3> HIDE DEF r, e
    <3>3. \A k \in 1 .. Len(r) : k \in 1 .. Len(recent) \/ k = Len(recent) + 1
      BY <1>2, <3>2
    <3>4. \A k \in 1 .. Len(recent) : recent[k].id \in Identities \ {i} /\ gone[recent[k].id] # Never
      BY <1>1, <1>2, <2>2 DEF Has, Backed
    <3>5. Sorted(r, again')
      <4> SUFFICES ASSUME NEW j \in 1 .. Len(r), NEW k \in 1 .. Len(r), j < k
                   PROVE  r[j].id # r[k].id /\ (r[j].id \notin again' => r[j].at <= r[k].at)
        BY DEF Sorted
      <4>1. j \in 1 .. Len(recent)
        BY <1>2, <3>2, <3>3
      <4>2. CASE k \in 1 .. Len(recent)
        BY <1>1, <1>4, <3>2, <4>1, <4>2 DEF Sorted
      <4>3. CASE k = Len(recent) + 1
        BY <1>2, <1>3, <3>2, <3>4, <4>1, <4>3
      <4> QED
        BY <3>3, <4>2, <4>3
    <3>6. Behind(r, since')
      <4> SUFFICES ASSUME NEW j \in 1 .. Len(r), NEW k \in 1 .. Len(r), j < k
                   PROVE  r[k].id \in since'[r[j].id]
        BY DEF Behind
      <4>1. j \in 1 .. Len(recent)
        BY <1>2, <3>2, <3>3
      <4>2. CASE k \in 1 .. Len(recent)
        BY <1>1, <1>2, <1>4, <3>2, <4>1, <4>2 DEF Behind
      <4>3. CASE k = Len(recent) + 1
        BY <1>3, <1>4, <3>2, <3>4, <4>1, <4>3
      <4> QED
        BY <3>3, <4>2, <4>3
    <3>7. \A n \in 1 .. Len(recent) : n \in 1 .. Len(r)
      BY <1>2, <3>2
    <3>8. Len(r) \in 1 .. Len(r) /\ r[Len(r)].id = i
      BY <1>2, <1>3, <3>2
    <3>9. \A k \in 1 .. Len(r) : r[k] = e \/ (r[k].id # i /\ \E n \in 1 .. Len(recent) : r[k] = recent[n])
      BY <3>2, <3>3, <3>4
    <3> QED
      BY <3>2, <3>5, <3>6, <3>7, <3>8, <3>9
  <2> QED
    BY <2>1, <2>2
<1> HIDE DEF r
<1>6. Backed(r, counted, gone')
  <2> SUFFICES ASSUME NEW k \in 1 .. Len(r)
               PROVE  counted[r[k].id] = 0 /\ gone'[r[k].id] = r[k].at /\ r[k].at <= now
    BY DEF Backed
  <2>1. CASE r[k] = e
    BY <1>3, <1>4, <2>1
  <2>2. ASSUME NEW n \in 1 .. Len(recent), r[k] = recent[n], r[k].id # i
        PROVE  counted[r[k].id] = 0 /\ gone'[r[k].id] = r[k].at /\ r[k].at <= now
    BY <1>1, <1>2, <1>4, <2>2 DEF Backed
  <2> HIDE DEF e
  <2> QED
    BY <1>5, <2>1, <2>2
<1>7. Remembered(r, opened, gone', since')
  <2> SUFFICES ASSUME NEW j \in Identities, opened[j] = 0, gone'[j] # Never, now - gone'[j] <= Window,
                      Cardinality(since'[j]) < Cap, j # i
               PROVE  \E k \in 1 .. Len(r) : r[k].id = j
    BY <1>5 DEF Remembered
  <2>1. open[j] = 0 /\ gone[j] = gone'[j]
    BY <1>4
  <2>2. Cardinality(since[j]) <= Cardinality(since'[j])
    BY <1>4, FS_Subset
  <2>3. Cardinality(since[j]) < Cap
    BY <1>4, <2>2, Constants DEF Types
  <2>4. \E n \in 1 .. Len(recent) : recent[n].id = j
    BY <1>1, <2>1, <2>3 DEF Remembered
  <2> QED
    BY <1>5, <2>4
<1> QED
  BY <1>5, <1>6, <1>7 DEF Map, r

\* A session is connected of an identity without an entry.
LEMMA OpenKeeps ==
  ASSUME Types, NEW q, Map(q, open, active, gone, since, again), NEW i \in Identities, Opened(i),
         active' = [active EXCEPT ![i] = @ + 1],
         NEW r \in Seq(Entry), ~Has(r, i),
         Sorted(r, again), Backed(r, active, gone), Behind(r, since),
         \A n \in 1 .. Len(q) : q[n].id # i => \E k \in 1 .. Len(r) : r[k].id = q[n].id
  PROVE  Map(r, open', active', gone', since', again')
<1>1. \A k \in 1 .. Len(r) : r[k].id \in Identities \ {i}
  BY EntryTypes DEF Has
<1>2. /\ open'[i] # 0 /\ again' = again \ {i}
      /\ \A j \in Identities \ {i} :
           open'[j] = open[j] /\ active'[j] = active[j] /\ gone'[j] = gone[j] /\ since'[j] = since[j]
  BY DEF Opened, Types
<1>3. Sorted(r, again')
  BY <1>1, <1>2 DEF Sorted
<1>4. Backed(r, active', gone')
  BY <1>1, <1>2 DEF Backed
<1>5. Behind(r, since')
  BY <1>1, <1>2 DEF Behind
<1>6. Remembered(r, open', gone', since')
  <2> SUFFICES ASSUME NEW j \in Identities, open'[j] = 0, gone'[j] # Never, now - gone'[j] <= Window,
                      Cardinality(since'[j]) < Cap
               PROVE  \E k \in 1 .. Len(r) : r[k].id = j
    BY DEF Remembered
  <2>1. j # i
    BY <1>2
  <2>2. \E n \in 1 .. Len(q) : q[n].id = j
    BY <1>2, <2>1 DEF Map, Remembered
  <2> QED
    BY <2>1, <2>2
<1> QED
  BY <1>3, <1>4, <1>5, <1>6 DEF Map

\* Without its entry an identity has none, and the others keep theirs.
LEMMA WithoutKeeps ==
  ASSUME NEW q \in Seq(Entry), NEW often, Sorted(q, often), NEW i, Has(q, i)
  PROVE  /\ ~Has(Without(q, i), i)
         /\ \A n \in 1 .. Len(q) : q[n].id # i =>
              \E k \in 1 .. Len(Without(q, i)) : Without(q, i)[k].id = q[n].id
<1> DEFINE r == Without(q, i)
           p == Place(q, i)
<1>1. /\ p \in 1 .. Len(q) /\ q[p].id = i /\ r \in Seq(Entry) /\ Len(r) = Len(q) - 1 /\ Len(q) \in Nat
      /\ \A k \in 1 .. Len(q) - 1 : r[k] = IF k < p THEN q[k] ELSE q[k + 1]
      /\ DOMAIN r = 1 .. Len(r)
  BY WithoutEntry, LenProperties
<1> HIDE DEF r, p
<1>2. \A k \in 1 .. Len(q) : k # p => q[k].id # i
  BY <1>1 DEF Sorted
<1>3. ASSUME NEW k \in 1 .. Len(r) PROVE r[k].id # i
  BY <1>1, <1>2
<1>4. ASSUME NEW n \in 1 .. Len(q), q[n].id # i PROVE \E k \in 1 .. Len(r) : r[k].id = q[n].id
  <2>1. CASE n < p
    <3>1. n \in 1 .. Len(r) /\ r[n] = q[n]
      BY <1>1, <2>1
    <3> QED
      BY <3>1
  <2>2. CASE n > p
    <3>1. n - 1 \in 1 .. Len(r) /\ ~(n - 1 < p) /\ (n - 1) + 1 = n
      BY <1>1, <2>2
    <3>2. r[n - 1] = q[n]
      BY <1>1, <3>1
    <3> QED
      BY <3>1, <3>2
  <2> QED
    BY <1>1, <1>4, <2>1, <2>2
<1>5. ~Has(r, i)
  BY <1>1, <1>3 DEF Has
<1> QED
  BY <1>4, <1>5 DEF r

-----------------------------------------------------------------------------
(* The invariant holds.                                                    *)

LEMMA InitMap == Init => MapInv
<1> SUFFICES ASSUME Init PROVE MapInv
  OBVIOUS
<1>1. Types /\ SessionsCounted
  BY Constants DEF Init, Types, SessionsCounted
<1>2. recent \in Seq(Entry) /\ Len(recent) = 0
  BY EmptySeq DEF Init
<1>3. Remembered(recent, open, gone, since)
  BY DEF Init, Remembered
<1> QED
  BY <1>1, <1>2, <1>3, Constants DEF MapInv, Map, Sorted, Backed, Behind

\* What a session that is connected finds: the Map, swept.
LEMMA SweptMap ==
  ASSUME MapInv
  PROVE  Map(Swept(recent), open, active, gone, since, again) /\ Len(Swept(recent)) <= Cap
<1>1. /\ now \in Nat /\ since \in [Identities -> SUBSET Identities]
      /\ Map(recent, open, active, gone, since, again)
  BY DEF MapInv, Types
<1> QED
  BY <1>1, SweepKeeps

LEMMA DepartTypes ==
  ASSUME Types, NEW i \in Identities, Departs(i) \/ UNCHANGED history
  PROVE  gone' \in [Identities -> Nat \cup {Never}] /\ since' \in [Identities -> SUBSET Identities]
BY DEF Departs, Types, history

LEMMA ConnectKeeps == ASSUME MapInv, NEW i \in Identities, Connect(i) PROVE MapInv'
<1> USE Constants
<1> DEFINE q == Swept(recent)
<1>1. /\ Types /\ SessionsCounted
      /\ Map(q, open, active, gone, since, again) /\ Len(q) <= Cap
  BY SweptMap DEF MapInv
<1>2. /\ Opened(i) /\ active' = [active EXCEPT ![i] = @ + 1] /\ now' = now
      /\ IF active[i] = 0 /\ Has(q, i)
         THEN recent' = Without(q, i) /\ reconnects' = reconnects + 1
         ELSE recent' = q /\ UNCHANGED reconnects
  BY DEF Connect
<1> HIDE DEF q
<1>3. /\ q \in Seq(Entry) /\ Sorted(q, again) /\ Backed(q, active, gone) /\ Behind(q, since)
  BY <1>1 DEF Map
<1>4. Types'
  <2>1. reconnects' \in Nat
    BY <1>1, <1>2 DEF Types
  <2>2. open' \in [Identities -> Nat] /\ active' \in [Identities -> Nat]
    BY <1>1, <1>2 DEF Types, Opened
  <2>3. gone' \in [Identities -> Nat \cup {Never}] /\ since' \in [Identities -> SUBSET Identities]
    BY <1>1, <1>2 DEF Types, Opened
  <2> QED
    BY <1>1, <1>2, <2>1, <2>2, <2>3 DEF Types
<1>5. SessionsCounted'
  BY <1>1, <1>2 DEF SessionsCounted, Types, Opened
<1>6. Map(recent', open', active', gone', since', again') /\ Len(recent') <= Cap
  <2>1. CASE active[i] = 0 /\ Has(q, i)
    <3> DEFINE r == Without(q, i)
    <3>1. Thinned(r, q)
      BY <1>3, <2>1, WithoutThins
    <3>2. /\ ~Has(r, i)
          /\ \A n \in 1 .. Len(q) : q[n].id # i => \E k \in 1 .. Len(r) : r[k].id = q[n].id
      BY <1>3, <2>1, WithoutKeeps
    <3>3. recent' = r
      BY <1>2, <2>1
    <3> HIDE DEF r
    <3>4. r \in Seq(Entry) /\ Len(r) <= Len(q) /\ Len(r) \in Nat /\ Len(q) \in Nat
      BY <1>3, <3>1, LenProperties DEF Thinned
    <3>5. Sorted(r, again) /\ Backed(r, active, gone) /\ Behind(r, since)
      BY <1>3, <3>1, ThinnedKeeps
    <3>6. Map(r, open', active', gone', since', again')
      BY <1>1, <1>2, <3>2, <3>4, <3>5, OpenKeeps
    <3> QED
      BY <1>1, <3>3, <3>4, <3>6
  <2>2. CASE ~(active[i] = 0 /\ Has(q, i))
    <3>1. ~Has(q, i)
      BY <1>3, <2>2, EntryTypes DEF Has, Backed
    <3>2. \A n \in 1 .. Len(q) : q[n].id # i => \E k \in 1 .. Len(q) : q[k].id = q[n].id
      OBVIOUS
    <3>3. Map(q, open', active', gone', since', again')
      BY <1>1, <1>2, <1>3, <3>1, <3>2, OpenKeeps
    <3> QED
      BY <1>1, <1>2, <2>2, <3>3
  <2> QED
    BY <2>1, <2>2
<1> QED
  BY <1>2, <1>4, <1>5, <1>6 DEF MapInv, Map, Backed, Remembered, Sorted, Behind

\* The Map after a call of disconnected, whether or not the session was counted.
LEMMA DisconnectedKeeps ==
  ASSUME MapInv, NEW i \in Identities, Disconnected(i), now' = now,
         \A j \in Identities \ {i} : open'[j] = open[j],
         active[i] <= 1 => Departs(i),
         active[i] > 1 => open'[i] # 0 /\ (Departs(i) \/ UNCHANGED history),
         since' \in [Identities -> SUBSET Identities]
  PROVE  Map(recent', open', active', gone', since', again') /\ Len(recent') <= Cap
<1>1. /\ Types /\ SessionsCounted /\ Len(recent) <= Cap
      /\ Map(recent, open, active, gone, since, again)
  BY DEF MapInv
<1>2. active[i] \in Nat
  BY <1>1 DEF Types
<1>3. CASE active[i] <= 1
  <2> DEFINE q == MapSet(recent, i, now)
  <2>1. recent' = Swept(q) /\ active'[i] = 0 /\ \A j \in Identities \ {i} : active'[j] = active[j]
    BY <1>1, <1>3 DEF Disconnected, Types
  <2>2. Map(q, open', active', gone', since', again')
    BY <1>1, <1>3, <2>1, EnterKeeps
  <2>3. now \in Nat
    BY <1>1 DEF Types
  <2> HIDE DEF q
  <2> QED
    BY <2>1, <2>2, <2>3, SweepKeeps
<1>4. CASE active[i] > 1
  <2>1. recent' = recent /\ \A j \in Identities \ {i} : active'[j] = active[j]
    BY <1>1, <1>2, <1>4 DEF Disconnected, Types
  <2>2. ~Has(recent, i)
    <3>1. recent \in Seq(Entry) /\ Backed(recent, active, gone)
      BY <1>1 DEF Map
    <3> QED
      BY <1>4, <3>1, EntryTypes DEF Has, Backed
  <2>3. Map(recent, open', active', gone', since', again')
    BY <1>1, <1>4, <2>1, <2>2, SameIsKept
  <2> QED
    BY <1>1, <2>1, <2>3
<1> QED
  BY <1>2, <1>3, <1>4

LEMMA DisconnectKeeps == ASSUME MapInv, NEW i \in Identities, Disconnect(i) PROVE MapInv'
<1>1. Types /\ SessionsCounted
  BY DEF MapInv
<1>2. /\ open[i] \in Nat /\ open[i] > 0 /\ active[i] \in Nat /\ active[i] <= open[i]
      /\ i \notin astray => active[i] = open[i]
      /\ open' = [open EXCEPT ![i] = open[i] - 1] /\ now' = now /\ reconnects' = reconnects
      /\ Disconnected(i)
      /\ astray' = IF open[i] = 1 THEN astray \ {i} ELSE astray
      /\ IF open[i] = 1 \/ i \in astray THEN Departs(i) ELSE UNCHANGED history
  BY <1>1 DEF Disconnect, Types, SessionsCounted
<1>3. /\ active[i] <= 1 => Departs(i)
      /\ active[i] > 1 => open'[i] # 0 /\ (Departs(i) \/ UNCHANGED history)
      /\ Departs(i) \/ UNCHANGED history
  BY <1>1, <1>2 DEF Types
<1>4. /\ gone' \in [Identities -> Nat \cup {Never}]
      /\ since' \in [Identities -> SUBSET Identities]
  BY <1>1, <1>3, DepartTypes
<1>5. active' = [active EXCEPT ![i] = IF active[i] <= 1 THEN 0 ELSE active[i] - 1]
  BY <1>2 DEF Disconnected
<1>6. Types'
  BY <1>1, <1>2, <1>4, <1>5 DEF Types
<1>7. SessionsCounted'
  <2> SUFFICES ASSUME NEW j \in Identities
               PROVE  active'[j] <= open'[j] /\ (j \notin astray' => active'[j] = open'[j])
    BY DEF SessionsCounted
  <2>1. CASE j # i
    <3>1. active'[j] = active[j] /\ open'[j] = open[j] /\ (j \notin astray' => j \notin astray)
      BY <1>1, <1>2, <1>5, <2>1 DEF Types
    <3> QED
      BY <1>1, <3>1 DEF SessionsCounted
  <2>2. CASE j = i
    <3>1. active'[i] = (IF active[i] <= 1 THEN 0 ELSE active[i] - 1) /\ open'[i] = open[i] - 1
      BY <1>1, <1>2, <1>5 DEF Types
    <3>2. i \notin astray' => open[i] = 1 \/ i \notin astray
      BY <1>2
    <3> QED
      BY <1>2, <2>2, <3>1, <3>2
  <2> QED
    BY <2>1, <2>2
<1>8. Map(recent', open', active', gone', since', again') /\ Len(recent') <= Cap
  <2>1. \A j \in Identities \ {i} : open'[j] = open[j]
    BY <1>1, <1>2 DEF Types
  <2> QED
    BY <1>2, <1>3, <1>4, <2>1, DisconnectedKeeps
<1> QED
  BY <1>2, <1>6, <1>7, <1>8 DEF MapInv, Map, Backed, Remembered, Sorted, Behind

LEMMA GiveUpKeeps == ASSUME MapInv, NEW i \in Identities, GiveUp(i) PROVE MapInv'
<1>1. Types /\ SessionsCounted
  BY DEF MapInv
<1>2. /\ open[i] \in Nat /\ active[i] \in Nat /\ active[i] <= open[i]
      /\ i \notin astray => active[i] = open[i]
      /\ open' = open /\ now' = now /\ reconnects' = reconnects
      /\ Disconnected(i) /\ Departs(i)
      /\ astray' = IF open[i] > 0 THEN astray \cup {i} ELSE astray
  BY <1>1 DEF GiveUp, Types, SessionsCounted
<1>3. /\ gone' \in [Identities -> Nat \cup {Never}]
      /\ since' \in [Identities -> SUBSET Identities]
  BY <1>1, <1>2, DepartTypes
<1>4. active' = [active EXCEPT ![i] = IF active[i] <= 1 THEN 0 ELSE active[i] - 1]
  BY <1>2 DEF Disconnected
<1>5. Types'
  BY <1>1, <1>2, <1>3, <1>4 DEF Types
<1>6. SessionsCounted'
  <2> SUFFICES ASSUME NEW j \in Identities
               PROVE  active'[j] <= open'[j] /\ (j \notin astray' => active'[j] = open'[j])
    BY DEF SessionsCounted
  <2>1. j \notin astray' => j \notin astray
    BY <1>2
  <2>2. CASE j # i
    <3>1. active'[j] = active[j] /\ open'[j] = open[j]
      BY <1>1, <1>2, <1>4, <2>2 DEF Types
    <3> QED
      BY <1>1, <2>1, <3>1 DEF SessionsCounted
  <2>3. CASE j = i
    <3>1. active'[i] = (IF active[i] <= 1 THEN 0 ELSE active[i] - 1)
      BY <1>1, <1>4 DEF Types
    <3>2. i \notin astray' => open[i] = 0
      BY <1>2
    <3> QED
      BY <1>2, <2>1, <2>3, <3>1, <3>2
  <2> QED
    BY <2>2, <2>3
<1>7. Map(recent', open', active', gone', since', again') /\ Len(recent') <= Cap
  <2>1. active[i] > 1 => open'[i] # 0
    BY <1>2
  <2> QED
    BY <1>2, <1>3, <2>1, DisconnectedKeeps
<1> QED
  BY <1>2, <1>5, <1>6, <1>7 DEF MapInv, Map, Backed, Remembered, Sorted, Behind

LEMMA TickKeeps == ASSUME MapInv, Tick PROVE MapInv'
<1>1. /\ Types /\ SessionsCounted /\ Len(recent) <= Cap
      /\ recent \in Seq(Entry) /\ Sorted(recent, again) /\ Backed(recent, active, gone)
      /\ Behind(recent, since) /\ Remembered(recent, open, gone, since)
  BY DEF MapInv, Map
<1>2. /\ now' = now + 1 /\ now \in Nat
      /\ UNCHANGED <<open, active, recent, reconnects, gone, since, again, astray>>
  BY <1>1 DEF Tick, Types, code, history
<1>3. Types' /\ SessionsCounted'
  BY <1>1, <1>2 DEF Types, SessionsCounted
<1>4. \A k \in 1 .. Len(recent) : recent[k].at \in Nat
  BY <1>1, EntryTypes
<1>5. Backed(recent, active, gone)'
  BY <1>1, <1>2, <1>4 DEF Backed
<1>6. Remembered(recent, open, gone, since)'
  <2>1. \A i \in Identities :
          /\ open[i] = 0 /\ gone[i] # Never /\ (now + 1) - gone[i] <= Window
          /\ Cardinality(since[i]) < Cap
          => \E k \in 1 .. Len(recent) : recent[k].id = i
    <3> SUFFICES ASSUME NEW i \in Identities, open[i] = 0, gone[i] # Never, (now + 1) - gone[i] <= Window,
                        Cardinality(since[i]) < Cap
                 PROVE  \E k \in 1 .. Len(recent) : recent[k].id = i
      OBVIOUS
    <3>1. gone[i] \in Nat /\ Window \in Nat
      BY <1>1, Constants DEF Types
    <3>2. now - gone[i] <= Window
      BY <1>2, <3>1
    <3> QED
      BY <1>1, <3>2 DEF Remembered
  <2>2. recent' = recent /\ open' = open /\ gone' = gone /\ since' = since /\ now' = now + 1
    BY <1>2
  <2> QED
    BY <2>1, <2>2 DEF Remembered, Never
<1> QED
  BY <1>1, <1>2, <1>3, <1>5, <1>6 DEF MapInv, Map, Sorted, Behind

LEMMA NextMap == MapInv /\ [Next]_vars => MapInv'
<1> SUFFICES ASSUME MapInv, [Next]_vars PROVE MapInv'
  OBVIOUS
<1>1. CASE Tick
  BY <1>1, TickKeeps
<1>2. ASSUME NEW i \in Identities, Connect(i) \/ Disconnect(i) \/ GiveUp(i) PROVE MapInv'
  BY <1>2, ConnectKeeps, DisconnectKeeps, GiveUpKeeps
<1>3. CASE UNCHANGED vars
  BY <1>3 DEF vars, code, history, MapInv, Types, SessionsCounted, Map, Backed, Remembered, Sorted, Behind
<1> QED
  BY <1>1, <1>2, <1>3 DEF Next

\* The shape of the Map is an invariant of the counter.
THEOREM MapInvHolds == Spec => []MapInv
BY InitMap, NextMap, PTL DEF Spec

-----------------------------------------------------------------------------
(* What follows from it.                                                   *)

\* The Map of recent disconnects is bounded, in order of time but for what was
\* refreshed in its place, and holds an identity with a session only if an attempt
\* beside it was given up (observability.ts:49-69).
THEOREM RecentInOrderHolds == Spec => []RecentInOrder
<1>1. MapInv => RecentInOrder
  <2> SUFFICES ASSUME MapInv PROVE RecentInOrder
    OBVIOUS
  <2>1. /\ recent \in Seq(Entry) /\ Len(recent) <= Cap
        /\ Sorted(recent, again) /\ Backed(recent, active, gone) /\ Types /\ SessionsCounted
    BY DEF MapInv, Map
  <2>2. DOMAIN recent = 1 .. Len(recent) /\ \A k \in 1 .. Len(recent) : recent[k].id \in Identities
    BY <2>1, EntryTypes
  <2>3. \A k \in DOMAIN recent : open[recent[k].id] = 0 \/ recent[k].id \in astray
    BY <2>1, <2>2 DEF Backed, SessionsCounted
  <2>4. \A j, k \in DOMAIN recent : j < k =>
          recent[j].id # recent[k].id /\ (recent[j].id \notin again => recent[j].at <= recent[k].at)
    BY <2>1, <2>2 DEF Sorted
  <2> QED
    BY <2>1, <2>3, <2>4 DEF RecentInOrder
<1> QED
  BY <1>1, MapInvHolds, PTL

\* activeIdentities is never too large, and too small only for an identity that
\* gave up an attempt beside an open session (observability.ts:46, 51-58).
THEOREM SessionsCountedHolds == Spec => []SessionsCounted
<1>1. MapInv => SessionsCounted
  BY DEF MapInv
<1> QED
  BY <1>1, MapInvHolds, PTL

\* Only a session that is connected adds to the open ones.
LEMMA OnlyConnectOpens ==
  ASSUME MapInv, [Next]_vars, NEW i \in Identities, open'[i] > open[i]
  PROVE  Connect(i)
<1>1. Types
  BY DEF MapInv
<1>2. ~Tick /\ ~UNCHANGED vars
  BY <1>1 DEF Tick, vars, code, Types
<1>3. \A j \in Identities : ~Disconnect(j) /\ ~GiveUp(j)
  BY <1>1 DEF Disconnect, GiveUp, Types
<1>4. \A j \in Identities : Connect(j) => j = i
  BY <1>1 DEF Connect, Opened, Types
<1> QED
  BY <1>2, <1>3, <1>4 DEF Next

\* A return within the window finds its entry in the Map after the sweep.
LEMMA ReturnIsCounted ==
  ASSUME MapInv, [Next]_vars, NEW i \in Identities, Returns(i), Cardinality(since[i]) < Cap
  PROVE  reconnects' = reconnects + 1
<1> DEFINE q == Swept(recent)
<1>1. Types /\ SessionsCounted
  BY DEF MapInv
<1>2. open[i] = 0 /\ open'[i] = 1 /\ gone[i] # Never /\ now - gone[i] <= Window
  BY DEF Returns
<1>3. Connect(i)
  BY <1>2, OnlyConnectOpens
<1>4. q \in Seq(Entry) /\ Remembered(q, open, gone, since)
  BY SweptMap DEF Map
<1>5. active[i] = 0
  BY <1>1, <1>2 DEF Types, SessionsCounted
<1>6. Connect(i) => (active[i] = 0 /\ Has(q, i) => reconnects' = reconnects + 1)
  BY DEF Connect
<1> HIDE DEF q
<1>7. Has(q, i)
  <2>1. \E k \in 1 .. Len(q) : q[k].id = i
    BY <1>2, <1>4 DEF Remembered
  <2> QED
    BY <1>4, <2>1, EntryTypes DEF Has
<1> QED
  BY <1>3, <1>5, <1>6, <1>7

\* Every return within the window is counted, unless Cap identities have left
\* since (observability.ts:42-45, 61-69).
THEOREM CountsEveryReturnHolds == Spec => CountsEveryReturn
<1>1. MapInv /\ [Next]_vars =>
        [\A i \in Identities :
           Returns(i) /\ Cardinality(since[i]) < Cap => reconnects' = reconnects + 1]_vars
  BY ReturnIsCounted
<1> QED
  BY <1>1, MapInvHolds, PTL DEF Spec, CountsEveryReturn

\* What a sweep leaves is young enough, or is behind the entry of another that
\* is and was refreshed in its place.
LEMMA SweptIsYoung ==
  ASSUME MapInv, NEW k \in 1 .. Len(Swept(recent))
  PROVE  LET e == Swept(recent)[k]
         IN  \/ now - gone[e.id] <= Window
             \/ \E j \in again \ {e.id} : now - gone[j] <= Window
<1> USE Constants
<1> DEFINE q == Swept(recent)
<1>1. /\ recent \in Seq(Entry) /\ Sorted(recent, again) /\ Backed(recent, active, gone) /\ now \in Nat
  BY DEF MapInv, Map, Types
<1>2. PICK m \in 0 .. Len(recent) : SweptAt(recent, m)
  BY <1>1, SweptFromFront
<1>3. Len(recent) \in Nat /\ \A j \in 1 .. Len(recent) : recent[j].at \in Nat
  BY <1>1, EntryTypes
<1>4. k \in 1 .. Len(recent) - m /\ q[k] = recent[k + m]
  BY <1>2 DEF SweptAt
<1>5. m + 1 \in 1 .. Len(recent) /\ k + m \in 1 .. Len(recent) /\ m < Len(recent)
  BY <1>3, <1>4
<1>6. recent[m + 1].at >= now - Window
  BY <1>2, <1>5 DEF SweptAt, Stays
<1>7. gone[recent[m + 1].id] = recent[m + 1].at /\ gone[recent[k + m].id] = recent[k + m].at
  BY <1>1, <1>5 DEF Backed
<1> HIDE DEF q
<1>8. CASE k = 1
  <2>1. k + m = m + 1
    BY <1>3, <1>8
  <2>2. now - gone[q[k].id] <= Window
    BY <1>1, <1>3, <1>4, <1>5, <1>6, <1>7, <2>1
  <2> QED
    BY <2>2 DEF q
<1>9. CASE k > 1
  <2>1. /\ recent[m + 1].id # recent[k + m].id
        /\ recent[m + 1].id \notin again => recent[m + 1].at <= recent[k + m].at
    <3>1. m + 1 < k + m
      BY <1>4, <1>9
    <3> QED
      BY <1>1, <1>5, <3>1 DEF Sorted
  <2>2. CASE recent[m + 1].id \in again
    <3>1. now - gone[recent[m + 1].id] <= Window
      BY <1>1, <1>3, <1>5, <1>6, <1>7
    <3>2. recent[m + 1].id \in again \ {q[k].id}
      BY <1>4, <2>1, <2>2
    <3> QED
      BY <3>1, <3>2 DEF q
  <2>3. CASE recent[m + 1].id \notin again
    <3>1. now - gone[q[k].id] <= Window
      BY <1>1, <1>3, <1>4, <1>5, <1>6, <1>7, <2>1, <2>3
    <3> QED
      BY <3>1 DEF q
  <2> QED
    BY <2>2, <2>3
<1> QED
  BY <1>4, <1>8, <1>9

\* What is counted is a session of an identity that left and has not been
\* connected since, within the window unless a refreshed entry sheltered its own
\* (observability.ts:43-44, 54, 64).
THEOREM CountsOnlyReturnsHolds == Spec => CountsOnlyReturns
<1> DEFINE Counted(i) ==
      /\ open'[i] = open[i] + 1
      /\ gone[i] # Never
      /\ open[i] = 0 \/ i \in astray
      /\ \/ now - gone[i] <= Window
         \/ \E j \in again \ {i} : now - gone[j] <= Window
<1>1. ASSUME MapInv, [Next]_vars, reconnects' # reconnects
      PROVE  reconnects' = reconnects + 1 /\ \E i \in Identities : Counted(i)
  <2> DEFINE q == Swept(recent)
  <2>1. Types /\ SessionsCounted
    BY <1>1 DEF MapInv
  <2>2. PICK i \in Identities : Connect(i)
    BY <1>1 DEF Next, Tick, Disconnect, GiveUp, vars, code
  <2>3. active[i] = 0 /\ Has(q, i) /\ reconnects' = reconnects + 1 /\ Opened(i)
    BY <1>1, <2>2 DEF Connect
  <2>4. q \in Seq(Entry) /\ Backed(q, active, gone)
    BY <1>1, SweptMap DEF Map
  <2>5. PICK k \in 1 .. Len(q) : q[k].id = i
    <3> HIDE DEF q
    <3> QED
      BY <2>3, <2>4, EntryTypes DEF Has
  <2>6. \/ now - gone[i] <= Window
        \/ \E j \in again \ {i} : now - gone[j] <= Window
    BY <1>1, <2>5, SweptIsYoung
  <2> HIDE DEF q
  <2>7. gone[i] # Never
    <3>1. gone[i] = q[k].at /\ q[k].at \in Nat
      BY <2>4, <2>5, EntryTypes DEF Backed
    <3> QED
      BY <3>1, Constants
  <2>8. open'[i] = open[i] + 1 /\ (open[i] = 0 \/ i \in astray)
    BY <2>1, <2>3 DEF Opened, Types, SessionsCounted
  <2> QED
    BY <2>3, <2>6, <2>7, <2>8
<1>2. MapInv /\ [Next]_vars =>
        [reconnects' # reconnects =>
           reconnects' = reconnects + 1 /\ \E i \in Identities : Counted(i)]_vars
  BY <1>1
<1> QED
  BY <1>2, MapInvHolds, PTL DEF Spec, CountsOnlyReturns

=============================================================================
