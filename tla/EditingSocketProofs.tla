------------------------ MODULE EditingSocketProofs -------------------------
(***************************************************************************)
(* Proofs about one WebSocket, for any number of Editing Sessions on it,   *)
(* any messages and any limits: what the two protections promise holds in  *)
(* every interleaving of the two.                                          *)
(***************************************************************************)
EXTENDS EditingSocket, FiniteSetTheorems, WellFoundedInduction, TLAPS

-----------------------------------------------------------------------------
(* The wrappers and the buffer.                                            *)

OutTypes ==
  /\ guards \in Seq(Sessions)
  /\ buffered \in Nat
  /\ closing \in BOOLEAN
  /\ sends \in Nat
  /\ dropped \in Nat
  /\ control \in Nat

\* Only wrappers that are there close, and the first to close takes the socket
\* with it.
Guarded ==
  /\ shut \subseteq Range(guards)
  /\ shut # {} => closing
  /\ NoSilentDrop
  /\ BoundedBuffer

\* Each session is wrapped once and counted as slow once.
Counted ==
  /\ IsFiniteSet(Range(guards))
  /\ Cardinality(Range(guards)) = Len(guards)
  /\ IsFiniteSet(shut)
  /\ slow = Cardinality(shut)

OutInv == OutTypes /\ Guarded /\ Counted

LEMMA RangeOfAppend ==
  ASSUME NEW S, NEW seq \in Seq(S), NEW e
  PROVE  Range(Append(seq, e)) = Range(seq) \cup {e}
<1> DEFINE longer == Append(seq, e)
           last == Len(seq) + 1
<1>1. DOMAIN longer = DOMAIN seq \cup {last}
  <2>1. DOMAIN longer = 1 .. last /\ DOMAIN seq = 1 .. Len(seq) /\ Len(seq) \in Nat
    OBVIOUS
  <2> QED
    BY <2>1
<1>2. \A i \in DOMAIN seq : longer[i] = seq[i]
  OBVIOUS
<1>3. longer[last] = e
  OBVIOUS
<1> HIDE DEF longer, last
<1>4. ASSUME NEW x \in Range(longer) PROVE x \in Range(seq) \cup {e}
  <2>1. PICK i \in DOMAIN longer : x = longer[i]
    BY DEF Range
  <2> QED
    BY <1>1, <1>2, <1>3, <2>1 DEF Range
<1>5. ASSUME NEW x \in Range(seq) \cup {e} PROVE x \in Range(longer)
  <2>1. CASE x = e
    BY <1>1, <1>3, <2>1 DEF Range
  <2>2. CASE x \in Range(seq)
    <3>1. PICK i \in DOMAIN seq : x = seq[i]
      BY <2>2 DEF Range
    <3> QED
      BY <1>1, <1>2, <3>1 DEF Range
  <2> QED
    BY <2>1, <2>2
<1>6. Range(longer) = Range(seq) \cup {e}
  BY <1>4, <1>5
<1> QED
  BY <1>6 DEF longer

LEMMA InitOutInv == OutInit => OutInv
<1> SUFFICES ASSUME OutInit PROVE OutInv
  OBVIOUS
<1>1. Range(guards) = {} /\ Len(guards) = 0
  BY DEF OutInit, Range
<1>2. IsFiniteSet({}) /\ Cardinality({}) = 0
  BY FS_EmptySet
<1>3. OutTypes
  <2>1. <<>> \in Seq(Sessions)
    OBVIOUS
  <2>2. 0 \in Nat /\ FALSE \in BOOLEAN
    OBVIOUS
  <2> QED
    BY <2>1, <2>2 DEF OutInit, OutTypes
<1>4. Guarded
  BY <1>1 DEF OutInit, Guarded, NoSilentDrop, BoundedBuffer
<1>5. Counted
  <2>1. shut = {} /\ slow = 0
    BY DEF OutInit
  <2> QED
    BY <1>1, <1>2, <2>1 DEF Counted
<1> QED
  BY <1>3, <1>4, <1>5 DEF OutInv

\* close() in some of the wrappers that are there keeps the count.
LEMMA CloseGuardsCounts ==
  ASSUME Counted, NEW S \in SUBSET Range(guards), CloseGuards(S)
  PROVE  IsFiniteSet(shut') /\ slow' = Cardinality(shut')
<1>1. IsFiniteSet(S)
  BY FS_Subset DEF Counted
<1>2. IsFiniteSet(S \ shut)
  BY <1>1, FS_Subset
<1>3. shut' = shut \cup (S \ shut) /\ shut \cap (S \ shut) = {}
  BY DEF CloseGuards
<1>4. Cardinality(shut \cap (S \ shut)) = 0
  BY <1>3, FS_EmptySet
<1>5. /\ IsFiniteSet(shut \cup (S \ shut))
      /\ Cardinality(shut \cup (S \ shut)) =
           Cardinality(shut) + Cardinality(S \ shut) - Cardinality(shut \cap (S \ shut))
  BY <1>2, FS_Union DEF Counted
<1>6. Cardinality(shut) \in Nat /\ Cardinality(S \ shut) \in Nat
  BY <1>2, FS_CardinalityType DEF Counted
<1>7. Cardinality(shut') = Cardinality(shut) + Cardinality(S \ shut)
  BY <1>3, <1>4, <1>5, <1>6
<1>8. slow' = slow + Cardinality(S \ shut)
  BY DEF CloseGuards
<1> QED
  BY <1>3, <1>5, <1>7, <1>8 DEF Counted

LEMMA InstallKeeps ==
  ASSUME OutInv, NEW s \in Sessions, Install(s)
  PROVE  OutInv'
<1> USE BackpressureAssumption DEF BackpressureAssumption
<1> DEFINE S == IF Behind(buffered) THEN {s} ELSE {}
<1>1. Range(guards') = Range(guards) \cup {s} /\ Len(guards') = Len(guards) + 1
  BY RangeOfAppend DEF OutInv, OutTypes, Install
<1>2. OutTypes'
  BY DEF OutInv, OutTypes, Install, CloseGuards
<1>3. shut' = shut \cup S /\ closing' = (closing \/ S \ shut # {})
  BY DEF Install, CloseGuards
<1>4. Guarded'
  <2>1. shut' \subseteq Range(guards') /\ (shut' # {} => closing')
    BY <1>1, <1>3 DEF OutInv, OutTypes, Guarded
  <2>2. NoSilentDrop'
    BY <1>3 DEF OutInv, OutTypes, Guarded, NoSilentDrop, Install
  <2>3. BoundedBuffer'
    <3>1. CASE Behind(buffered)
      BY <3>1, <1>3 DEF BoundedBuffer
    <3>2. CASE ~Behind(buffered)
      BY <3>2 DEF BoundedBuffer, Behind, OutInv, OutTypes, Install
    <3> QED
      BY <3>1, <3>2
  <2> QED
    BY <2>1, <2>2, <2>3 DEF Guarded
<1>5. IsFiniteSet(Range(guards')) /\ Cardinality(Range(guards')) = Len(guards')
  BY <1>1, FS_AddElement DEF OutInv, Counted, Install
<1>6. IsFiniteSet(shut') /\ slow' = Cardinality(shut')
  <2>1. CASE Behind(buffered)
    <3>1. s \notin shut
      BY DEF OutInv, Guarded, Install
    <3>2. shut' = shut \cup {s} /\ slow' = slow + Cardinality({s})
      <4>1. {s} \ shut = {s}
        BY <3>1
      <4> QED
        BY <2>1, <4>1 DEF Install, CloseGuards
    <3> QED
      BY <3>1, <3>2, FS_AddElement, FS_Singleton DEF OutInv, Counted
  <2>2. CASE ~Behind(buffered)
    BY <2>2, CloseGuardsCounts DEF OutInv, Install
  <2> QED
    BY <2>1, <2>2
<1> QED
  BY <1>2, <1>4, <1>5, <1>6 DEF OutInv, Counted

LEMMA SendKeeps ==
  ASSUME OutInv, NEW n \in Lengths, SendPasses(n) \/ SendBehind(n) \/ SendStopped(n)
  PROVE  OutInv'
<1> USE BackpressureAssumption DEF BackpressureAssumption
<1>1. guards' = guards /\ control' = control /\ sends' = sends + 1
  BY DEF SendPasses, SendBehind, SendStopped, Send
<1>2. ASSUME NEW S \in SUBSET Range(guards), CloseGuards(S) PROVE Counted'
  BY <1>1, <1>2, CloseGuardsCounts DEF OutInv, Counted
<1>3. CASE SendPasses(n)
  <2> DEFINE S == IF Behind(buffered') THEN Range(guards) ELSE {}
  <2>1. CloseGuards(S) /\ dropped' = dropped /\ shut = {}
    BY <1>3 DEF SendPasses
  <2>2. OutTypes'
    BY <1>1, <1>3, <2>1 DEF SendPasses, OutInv, OutTypes, CloseGuards
  <2>3. Guarded'
    <3>1. shut' = S /\ closing' = (closing \/ S # {})
      BY <2>1 DEF CloseGuards
    <3>2. guards # <<>> => Range(guards) # {}
      <4>1. SUFFICES ASSUME guards # <<>> PROVE guards[1] \in Range(guards)
        OBVIOUS
      <4>2. 1 \in DOMAIN guards
        BY <4>1 DEF OutInv, OutTypes
      <4> QED
        BY <4>2 DEF Range
    <3>3. BoundedBuffer'
      <4>1. CASE Behind(buffered')
        BY <4>1, <3>1, <3>2, <1>1 DEF BoundedBuffer
      <4>2. CASE ~Behind(buffered')
        BY <4>2, <1>1, <2>2 DEF BoundedBuffer, Behind, OutTypes
      <4> QED
        BY <4>1, <4>2
    <3> QED
      BY <1>1, <2>1, <3>1, <3>3 DEF OutInv, Guarded, NoSilentDrop
  <2> QED
    BY <1>2, <2>1, <2>2, <2>3 DEF OutInv
<1>4. CASE SendBehind(n)
  <2>1. Outermost \in Range(guards)
    BY <1>4 DEF SendBehind, OutInv, OutTypes, Outermost, Range
  <2>2. CloseGuards({Outermost}) /\ buffered' = buffered /\ dropped' = dropped + 1
    BY <1>4 DEF SendBehind
  <2>3. shut' = shut \cup {Outermost} /\ closing'
    BY <1>4, <2>2 DEF SendBehind, CloseGuards
  <2>4. OutTypes'
    BY <1>1, <2>2 DEF OutInv, OutTypes, CloseGuards
  <2>5. Guarded'
    BY <1>1, <2>1, <2>3 DEF OutInv, Guarded, NoSilentDrop, BoundedBuffer
  <2> QED
    BY <1>2, <2>1, <2>2, <2>4, <2>5 DEF OutInv
<1>5. CASE SendStopped(n)
  <2>1. /\ shut' = shut /\ buffered' = buffered /\ closing' = closing /\ slow' = slow
        /\ dropped' = dropped + 1 /\ shut # {}
    BY <1>5 DEF SendStopped
  <2> QED
    BY <1>1, <2>1 DEF OutInv, OutTypes, Guarded, Counted, NoSilentDrop, BoundedBuffer
<1> QED
  BY <1>3, <1>4, <1>5

LEMMA OutNextKeeps == OutInv /\ OutNext => OutInv'
<1> SUFFICES ASSUME OutInv, OutNext PROVE OutInv'
  OBVIOUS
<1>1. CASE ControlFrame
  BY <1>1, BackpressureAssumption
  DEF ControlFrame, OutInv, OutTypes, Guarded, Counted, NoSilentDrop, BoundedBuffer, BackpressureAssumption
<1>2. CASE Drain
  BY <1>2, BackpressureAssumption
  DEF Drain, OutInv, OutTypes, Guarded, Counted, NoSilentDrop, BoundedBuffer, BackpressureAssumption
<1> QED
  BY <1>1, <1>2, InstallKeeps, SendKeeps DEF OutNext

-----------------------------------------------------------------------------
(* What SumFunctionOnSet adds up.                                          *)

\* Induction with a set for the predicate.
LEMMA UpTo ==
  ASSUME NEW n \in Nat, NEW good, 0 \in good, \A k \in 1 .. n : k - 1 \in good => k \in good
  PROVE  n \in good
<1> DEFINE bad == {k \in 0 .. n : k \notin good}
<1>1. SUFFICES ASSUME n \notin good PROVE FALSE
  OBVIOUS
<1>2. bad \in SUBSET Nat /\ bad # {}
  BY <1>1
<1>3. PICK m \in bad : \A k \in bad : ~ (<<k, m>> \in OpToRel(<, Nat))
  <2> HIDE DEF bad
  <2> QED
    BY <1>2, NatLessThanWellFounded, WFMin, Zenon
<1>4. m \in 1 .. n
  OBVIOUS
<1>5. m - 1 \in bad
  BY <1>4
<1>6. <<m - 1, m>> \in OpToRel(<, Nat)
  <2>1. <<m - 1, m>> \in Nat \X Nat /\ m - 1 < m
    BY <1>4
  <2> QED
    BY <2>1, Zenon DEF OpToRel
<1> QED
  BY <1>3, <1>5, <1>6

\* p adds up f[1] .. f[n], of the indices in S only.
AddsUp(p, f, S, n) ==
  /\ p \in [0 .. n -> Int]
  /\ p[0] = 0
  /\ \A k \in 1 .. n : p[k] = p[k - 1] + (IF k \in S THEN f[k] ELSE 0)

LEMMA AddsUpExists ==
  ASSUME NEW n \in Nat, NEW f \in [1 .. n -> Int], NEW S
  PROVE  \E p : AddsUp(p, f, S, n)
<1> DEFINE good == {k \in 0 .. n : \E p : AddsUp(p, f, S, k)}
<1>1. 0 \in good
  <2>1. AddsUp([k \in 0 .. 0 |-> 0], f, S, 0)
    BY DEF AddsUp
  <2> QED
    BY <2>1
<1>2. ASSUME NEW k \in 1 .. n, k - 1 \in good PROVE k \in good
  <2>1. PICK p : AddsUp(p, f, S, k - 1)
    BY <1>2
  <2> DEFINE q == [j \in 0 .. k |-> IF j = k THEN p[k - 1] + (IF k \in S THEN f[k] ELSE 0) ELSE p[j]]
  <2>2. AddsUp(q, f, S, k)
    BY <2>1 DEF AddsUp
  <2> QED
    BY <2>2
<1> HIDE DEF good
<1>3. n \in good
  BY <1>1, <1>2, UpTo
<1> QED
  BY <1>3 DEF good

\* What is added up is determined, and an index more adds its value.
LEMMA AddsUpWithout ==
  ASSUME NEW n \in Nat, NEW f \in [1 .. n -> Int], NEW x \in 1 .. n,
         NEW S, x \in S, NEW p, AddsUp(p, f, S, n), NEW q, AddsUp(q, f, S \ {x}, n)
  PROVE  p[n] = q[n] + f[x]
<1> DEFINE good == {k \in 0 .. n : p[k] = q[k] + (IF k >= x THEN f[x] ELSE 0)}
<1>1. 0 \in good
  BY DEF AddsUp
<1>2. ASSUME NEW k \in 1 .. n, k - 1 \in good PROVE k \in good
  <2>1. p[k - 1] = q[k - 1] + (IF k - 1 >= x THEN f[x] ELSE 0)
    BY <1>2
  <2>2. p[k] = p[k - 1] + (IF k \in S THEN f[k] ELSE 0)
    BY DEF AddsUp
  <2>3. q[k] = q[k - 1] + (IF k \in S \ {x} THEN f[k] ELSE 0)
    BY DEF AddsUp
  <2>4. p[k - 1] \in Int /\ q[k - 1] \in Int /\ f[k] \in Int /\ f[x] \in Int
    <3>1. p \in [0 .. n -> Int] /\ q \in [0 .. n -> Int]
      BY DEF AddsUp
    <3>2. k - 1 \in 0 .. n
      OBVIOUS
    <3> QED
      BY <3>1, <3>2
  <2>5. p[k] = q[k] + (IF k >= x THEN f[x] ELSE 0)
    <3>1. CASE k < x
      BY <2>1, <2>2, <2>3, <2>4, <3>1
    <3>2. CASE k = x
      BY <2>1, <2>2, <2>3, <2>4, <3>2
    <3>3. CASE k > x
      BY <2>1, <2>2, <2>3, <2>4, <3>3
    <3> QED
      BY <3>1, <3>2, <3>3
  <2> QED
    BY <2>5
<1> HIDE DEF good
<1>3. n \in good
  BY <1>1, <1>2, UpTo
<1> QED
  BY <1>3 DEF good

\* Fewer indices do not add up to more.
LEMMA AddsUpMonotone ==
  ASSUME NEW n \in Nat, NEW f \in [1 .. n -> Nat],
         NEW S, NEW p, AddsUp(p, f, S, n), NEW T \in SUBSET S, NEW q, AddsUp(q, f, T, n)
  PROVE  q[n] <= p[n]
<1> DEFINE good == {k \in 0 .. n : q[k] <= p[k]}
<1>1. 0 \in good
  BY DEF AddsUp
<1>2. ASSUME NEW k \in 1 .. n, k - 1 \in good PROVE k \in good
  <2>1. p[k] = p[k - 1] + (IF k \in S THEN f[k] ELSE 0)
    BY DEF AddsUp
  <2>2. q[k] = q[k - 1] + (IF k \in T THEN f[k] ELSE 0)
    BY DEF AddsUp
  <2>3. p[k - 1] \in Int /\ q[k - 1] \in Int /\ f[k] \in Nat
    BY DEF AddsUp
  <2>4. q[k] <= p[k]
    BY <1>2, <2>1, <2>2, <2>3
  <2> QED
    BY <2>4
<1> HIDE DEF good
<1>3. n \in good
  BY <1>1, <1>2, UpTo
<1> QED
  BY <1>3 DEF good

\* Nothing adds up to nothing.
LEMMA AddsUpNothing ==
  ASSUME NEW n \in Nat, NEW f, NEW p, AddsUp(p, f, {}, n)
  PROVE  p[n] = 0
<1> DEFINE good == {k \in 0 .. n : p[k] = 0}
<1>1. 0 \in good /\ \A k \in 1 .. n : k - 1 \in good => k \in good
  BY DEF AddsUp
<1> HIDE DEF good
<1>2. n \in good
  BY <1>1, UpTo
<1> QED
  BY <1>2 DEF good

Total(f, S, n) == (CHOOSE p : AddsUp(p, f, S, n))[n]

LEMMA TotalAddsUp ==
  ASSUME NEW n \in Nat, NEW f \in [1 .. n -> Int], NEW S
  PROVE  \E p : AddsUp(p, f, S, n) /\ Total(f, S, n) = p[n]
BY AddsUpExists DEF Total

\* The properties of a total that the queue needs.
LEMMA TotalOfNothing ==
  ASSUME NEW n \in Nat, NEW f \in [1 .. n -> Int]
  PROVE  Total(f, {}, n) = 0
BY TotalAddsUp, AddsUpNothing

LEMMA TotalWithout ==
  ASSUME NEW n \in Nat, NEW f \in [1 .. n -> Int], NEW S, NEW x \in 1 .. n, x \in S
  PROVE  Total(f, S, n) = Total(f, S \ {x}, n) + f[x]
BY TotalAddsUp, AddsUpWithout

LEMMA TotalMonotone ==
  ASSUME NEW n \in Nat, NEW f \in [1 .. n -> Nat], NEW S, NEW T \in SUBSET S
  PROVE  Total(f, T, n) <= Total(f, S, n)
<1>1. f \in [1 .. n -> Int]
  OBVIOUS
<1> QED
  BY <1>1, TotalAddsUp, AddsUpMonotone

\* The fold behind SumFunctionOnSet, which takes the elements in any order.
FoldsUp(f, S, iter) ==
  iter = [T \in SUBSET S |->
            IF T = {} THEN 0
            ELSE f[CHOOSE x \in T : TRUE] + iter[T \ {CHOOSE x \in T : TRUE}]]

LEMMA SumIsTotal ==
  ASSUME NEW n \in Nat, NEW f \in [1 .. n -> Int], NEW S \in SUBSET (1 .. n)
  PROVE  SumFunctionOnSet(f, S) = Total(f, S, n)
<1> DEFINE any(T) == CHOOSE x \in T : TRUE
           totals == [T \in SUBSET S |-> Total(f, T, n)]
           iter == CHOOSE it : FoldsUp(f, S, it)
<1>1. SumFunctionOnSet(f, S) = iter[S]
  BY DEF SumFunctionOnSet, FoldFunctionOnSet, MapThenFoldSet, FoldsUp
<1>2. ASSUME NEW T \in SUBSET S
      PROVE  totals[T] = IF T = {} THEN 0 ELSE f[any(T)] + totals[T \ {any(T)}]
  <2>1. CASE T = {}
    BY <2>1, TotalOfNothing
  <2>2. CASE T # {}
    <3>1. any(T) \in T /\ any(T) \in 1 .. n /\ T \ {any(T)} \in SUBSET S
      BY <2>2
    <3> HIDE DEF any
    <3>2. Total(f, T, n) = Total(f, T \ {any(T)}, n) + f[any(T)]
      BY <3>1, TotalWithout
    <3>3. Total(f, T \ {any(T)}, n) \in Int /\ f[any(T)] \in Int
      <4>1. PICK p : AddsUp(p, f, T \ {any(T)}, n) /\ Total(f, T \ {any(T)}, n) = p[n]
        BY TotalAddsUp
      <4> QED
        BY <3>1, <4>1 DEF AddsUp
    <3>4. totals[T] = Total(f, T, n) /\ totals[T \ {any(T)}] = Total(f, T \ {any(T)}, n)
      BY <3>1
    <3>5. totals[T] = f[any(T)] + totals[T \ {any(T)}]
      <4>1. Total(f, T, n) = f[any(T)] + Total(f, T \ {any(T)}, n)
        BY <3>2, <3>3
      <4> HIDE DEF totals
      <4> QED
        BY <3>4, <4>1
    <3> QED
      BY <2>2, <3>5
  <2> QED
    BY <2>1, <2>2
<1>3. FoldsUp(f, S, totals)
  <2>1. totals = [T \in SUBSET S |-> totals[T]]
    OBVIOUS
  <2> HIDE DEF totals
  <2> QED
    BY <1>2, <2>1 DEF FoldsUp
<1>4. FoldsUp(f, S, iter)
  <2> HIDE DEF totals
  <2> QED
    BY <1>3
<1> HIDE DEF iter, totals
<1>5. \A T \in SUBSET S : iter[T] = IF T = {} THEN 0 ELSE f[any(T)] + iter[T \ {any(T)}]
  <2> HIDE DEF any
  <2>1. iter = [T \in SUBSET S |-> IF T = {} THEN 0 ELSE f[any(T)] + iter[T \ {any(T)}]]
    BY <1>4 DEF FoldsUp, any
  <2> QED
    BY <2>1
<1>6. IsFiniteSet(S)
  <2>1. IsFiniteSet(1 .. n)
    BY FS_Interval
  <2> QED
    BY <2>1, FS_Subset
<1> DEFINE good == {k \in 0 .. Cardinality(S) : \A T \in SUBSET S : Cardinality(T) = k => iter[T] = totals[T]}
<1>7. Cardinality(S) \in Nat /\ \A T \in SUBSET S : IsFiniteSet(T) /\ Cardinality(T) \in Nat
  BY <1>6, FS_Subset, FS_CardinalityType
<1>8. 0 \in good
  <2>1. \A T \in SUBSET S : Cardinality(T) = 0 => T = {}
    BY <1>7, FS_EmptySet
  <2>2. iter[{}] = totals[{}]
    BY <1>2, <1>5
  <2>3. \A T \in SUBSET S : Cardinality(T) = 0 => iter[T] = totals[T]
    BY <2>1, <2>2
  <2>4. 0 \in 0 .. Cardinality(S)
    BY <1>7
  <2> QED
    BY <2>3, <2>4
<1>9. ASSUME NEW k \in 1 .. Cardinality(S), k - 1 \in good PROVE k \in good
  <2> SUFFICES ASSUME NEW T \in SUBSET S, Cardinality(T) = k PROVE iter[T] = totals[T]
    OBVIOUS
  <2>1. T # {} /\ any(T) \in T
    BY <1>7, FS_EmptySet
  <2> HIDE DEF any
  <2>2. T \ {any(T)} \in SUBSET S /\ Cardinality(T \ {any(T)}) = k - 1
    BY <1>7, <2>1, FS_RemoveElement
  <2>3. iter[T \ {any(T)}] = totals[T \ {any(T)}]
    BY <1>9, <2>2
  <2> QED
    BY <1>2, <1>5, <2>1, <2>3
<1> HIDE DEF good
<1>10. Cardinality(S) \in good
  BY <1>7, <1>8, <1>9, UpTo
<1>11. iter[S] = totals[S]
  BY <1>10 DEF good
<1> QED
  BY <1>1, <1>11 DEF totals

\* One more value leaves the others' sum as it is.
LEMMA SumOfLonger ==
  ASSUME NEW n \in Nat, NEW f \in [1 .. n -> Int], NEW g \in [1 .. n + 1 -> Int],
         \A k \in 1 .. n : g[k] = f[k], NEW S \in SUBSET (1 .. n)
  PROVE  SumFunctionOnSet(g, S) = SumFunctionOnSet(f, S)
<1>1. PICK p : AddsUp(p, f, S, n) /\ Total(f, S, n) = p[n]
  BY TotalAddsUp
<1>2. PICK q : AddsUp(q, g, S, n + 1) /\ Total(g, S, n + 1) = q[n + 1]
  BY TotalAddsUp
<1> DEFINE good == {k \in 0 .. n : p[k] = q[k]}
<1>3. 0 \in good
  BY <1>1, <1>2 DEF AddsUp
<1>4. ASSUME NEW k \in 1 .. n, k - 1 \in good PROVE k \in good
  <2>1. p[k] = p[k - 1] + (IF k \in S THEN f[k] ELSE 0)
    BY <1>1 DEF AddsUp
  <2>2. q[k] = q[k - 1] + (IF k \in S THEN g[k] ELSE 0)
    BY <1>2 DEF AddsUp
  <2> QED
    BY <1>4, <2>1, <2>2
<1> HIDE DEF good
<1>5. n \in good
  BY <1>3, <1>4, UpTo
<1>6. q[n + 1] = q[n] + 0 /\ q[n] \in Int
  <2>1. n + 1 \in 1 .. n + 1 /\ n + 1 \notin S /\ n \in 0 .. n + 1 /\ (n + 1) - 1 = n
    OBVIOUS
  <2> QED
    BY <1>2, <2>1 DEF AddsUp
<1>7. S \in SUBSET (1 .. n + 1)
  OBVIOUS
<1>8. SumFunctionOnSet(f, S) = p[n] /\ SumFunctionOnSet(g, S) = q[n + 1]
  BY <1>1, <1>2, <1>7, SumIsTotal
<1> QED
  BY <1>5, <1>6, <1>8 DEF good

LEMMA SumOfNothing ==
  ASSUME NEW n \in Nat, NEW f \in [1 .. n -> Int]
  PROVE  SumFunctionOnSet(f, {}) = 0
<1>1. SumFunctionOnSet(f, {}) = Total(f, {}, n)
  BY SumIsTotal
<1> QED
  BY <1>1, TotalOfNothing

LEMMA SumWithout ==
  ASSUME NEW n \in Nat, NEW f \in [1 .. n -> Int], NEW S \in SUBSET (1 .. n), NEW x \in S
  PROVE  SumFunctionOnSet(f, S) = SumFunctionOnSet(f, S \ {x}) + f[x]
<1>1. S \ {x} \in SUBSET (1 .. n) /\ x \in 1 .. n
  OBVIOUS
<1> QED
  BY <1>1, SumIsTotal, TotalWithout

LEMMA SumMonotone ==
  ASSUME NEW n \in Nat, NEW f \in [1 .. n -> Nat], NEW S \in SUBSET (1 .. n), NEW T \in SUBSET S
  PROVE  SumFunctionOnSet(f, T) <= SumFunctionOnSet(f, S)
<1>1. f \in [1 .. n -> Int] /\ T \in SUBSET (1 .. n)
  OBVIOUS
<1>2. SumFunctionOnSet(f, S) = Total(f, S, n) /\ SumFunctionOnSet(f, T) = Total(f, T, n)
  BY <1>1, SumIsTotal
<1> QED
  BY <1>2, TotalMonotone

LEMMA SumType ==
  ASSUME NEW n \in Nat, NEW f \in [1 .. n -> Int], NEW S \in SUBSET (1 .. n)
  PROVE  SumFunctionOnSet(f, S) \in Int
<1>1. PICK p : AddsUp(p, f, S, n) /\ Total(f, S, n) = p[n]
  BY TotalAddsUp
<1>2. n \in 0 .. n
  OBVIOUS
<1> QED
  BY <1>1, <1>2, SumIsTotal DEF AddsUp

-----------------------------------------------------------------------------
(* The queue.                                                              *)

\* The counts are those of the messages whose promise has not settled, within
\* the limits, and nothing else is queued.
Accounted ==
  /\ size \in Seq(Sizes)
  /\ waiting \subseteq 1 .. Len(size)
  /\ queuedBytes = SumFunctionOnSet(size, waiting) /\ queuedBytes <= MaxBytes
  /\ queuedMessages = Cardinality(waiting) /\ queuedMessages <= MaxMessages

\* No message is queued twice.
Distinct(q) ==
  /\ Cardinality(Range(q)) = Len(q)
  /\ \A j, k \in 1 .. Len(q) : q[j] = q[k] => j = k

QueueInv == Accounted /\ queue \in Seq(Nat) /\ Range(queue) \subseteq waiting /\ Distinct(queue)

LEMMA Waiting ==
  ASSUME Accounted
  PROVE  /\ Len(size) \in Nat /\ size \in [1 .. Len(size) -> Nat] /\ size \in [1 .. Len(size) -> Int]
         /\ IsFiniteSet(waiting) /\ queuedBytes \in Int /\ queuedMessages \in Nat
<1>1. Len(size) \in Nat /\ size \in [1 .. Len(size) -> Sizes]
  BY DEF Accounted
<1>2. size \in [1 .. Len(size) -> Nat] /\ size \in [1 .. Len(size) -> Int]
  <2>1. Sizes \subseteq Nat /\ Sizes \subseteq Int
    BY InboundAssumption DEF InboundAssumption
  <2> QED
    BY <1>1, <2>1
<1>3. IsFiniteSet(waiting)
  <2>1. IsFiniteSet(1 .. Len(size))
    BY <1>1, FS_Interval
  <2> QED
    BY <2>1, FS_Subset DEF Accounted
<1>4. queuedBytes \in Int
  BY <1>1, <1>2, SumType DEF Accounted
<1>5. queuedMessages \in Nat
  BY <1>3, FS_CardinalityType DEF Accounted
<1> QED
  BY <1>1, <1>2, <1>3, <1>4, <1>5

LEMMA InitQueueInv == Init => QueueInv
<1> SUFFICES ASSUME Init PROVE QueueInv
  OBVIOUS
<1>1. size = <<>> /\ size \in Seq(Sizes) /\ Len(size) = 0 /\ waiting = {}
  BY DEF Init
<1>2. queuedBytes = SumFunctionOnSet(size, waiting)
  <2>1. <<>> \in [1 .. 0 -> Int]
    OBVIOUS
  <2>2. SumFunctionOnSet(<<>>, {}) = 0
    BY <2>1, SumOfNothing
  <2> QED
    BY <2>2 DEF Init
<1>3. queuedMessages = Cardinality(waiting)
  BY FS_EmptySet DEF Init
<1>4. queuedBytes <= MaxBytes /\ queuedMessages <= MaxMessages
  BY InboundAssumption DEF InboundAssumption, Init
<1>5. Accounted
  BY <1>1, <1>2, <1>3, <1>4 DEF Accounted
<1>6. queue \in Seq(Nat) /\ Range(queue) = {} /\ Len(queue) = 0 /\ Cardinality(Range(queue)) = 0
  <2>1. queue = <<>> /\ queue \in Seq(Nat) /\ Len(queue) = 0
    BY DEF Init
  <2>2. Range(queue) = {}
    BY <2>1 DEF Range
  <2> QED
    BY <2>1, <2>2, FS_EmptySet
<1> QED
  BY <1>5, <1>6 DEF QueueInv, Distinct

\* A message that is received changes nothing for those before it.
LEMMA ReceivedKeeps ==
  ASSUME Accounted, NEW n \in Sizes, Received(n)
  PROVE  /\ size' \in Seq(Sizes) /\ Len(size') = Len(size) + 1 /\ size'[Len(size')] = n
         /\ size' \in [1 .. Len(size) + 1 -> Int]
         /\ waiting \subseteq 1 .. Len(size')
         /\ SumFunctionOnSet(size', waiting) = SumFunctionOnSet(size, waiting)
<1>1. size \in Seq(Sizes) /\ waiting \subseteq 1 .. Len(size)
  BY DEF Accounted
<1>2. Len(size) \in Nat /\ size \in [1 .. Len(size) -> Int]
  BY Waiting
<1>3. /\ size' \in Seq(Sizes) /\ Len(size') = Len(size) + 1 /\ size'[Len(size) + 1] = n
      /\ \A k \in 1 .. Len(size) : size'[k] = size[k]
  BY <1>1 DEF Received
<1>4. size' \in [1 .. Len(size) + 1 -> Int]
  <2>1. size' \in [1 .. Len(size) + 1 -> Sizes]
    BY <1>3
  <2>2. Sizes \subseteq Int
    BY InboundAssumption DEF InboundAssumption
  <2> QED
    BY <2>1, <2>2
<1>5. waiting \subseteq 1 .. Len(size')
  BY <1>1, <1>2, <1>3
<1>6. SumFunctionOnSet(size', waiting) = SumFunctionOnSet(size, waiting)
  BY <1>1, <1>2, <1>3, <1>4, SumOfLonger
<1> QED
  BY <1>3, <1>4, <1>5, <1>6

LEMMA AcceptKeeps ==
  ASSUME QueueInv, NEW n \in Sizes, Accept(n)
  PROVE  QueueInv'
<1> DEFINE i == Len(size')
<1>1. /\ size' \in Seq(Sizes) /\ i = Len(size) + 1 /\ size'[i] = n
      /\ size' \in [1 .. i -> Int] /\ waiting \subseteq 1 .. i
      /\ SumFunctionOnSet(size', waiting) = queuedBytes
  <2>1. Accounted /\ Received(n)
    BY DEF QueueInv, Accept
  <2> QED
    BY <2>1, ReceivedKeeps DEF Accounted
<1>2. /\ Len(size) \in Nat /\ IsFiniteSet(waiting) /\ queuedBytes \in Int /\ queuedMessages \in Nat
      /\ waiting \subseteq 1 .. Len(size) /\ queuedMessages = Cardinality(waiting)
  BY Waiting DEF QueueInv, Accounted
<1>3. /\ waiting' = waiting \cup {i} /\ queue' = Append(queue, i)
      /\ queuedBytes' = queuedBytes + n /\ queuedMessages' = queuedMessages + 1
      /\ ~OverLimit(n)
  BY DEF Accept
<1> HIDE DEF i
<1>4. i \in Nat /\ i \in 1 .. i /\ i \notin waiting
  BY <1>1, <1>2
<1>5. queuedBytes' = SumFunctionOnSet(size', waiting')
  <2>1. waiting' \in SUBSET (1 .. i) /\ i \in waiting' /\ waiting' \ {i} = waiting
    BY <1>1, <1>3, <1>4
  <2>2. SumFunctionOnSet(size', waiting') = SumFunctionOnSet(size', waiting' \ {i}) + size'[i]
    BY <1>1, <1>4, <2>1, SumWithout
  <2> QED
    BY <1>1, <1>3, <2>1, <2>2
<1>6. queuedMessages' = Cardinality(waiting')
  BY <1>2, <1>3, <1>4, FS_AddElement
<1>7. queuedBytes' <= MaxBytes /\ queuedMessages' <= MaxMessages
  <2>1. n \in Int /\ MaxBytes \in Int /\ MaxMessages \in Int
    BY InboundAssumption DEF InboundAssumption
  <2> QED
    BY <1>2, <1>3, <2>1 DEF OverLimit
<1>8. Accounted'
  BY <1>1, <1>3, <1>4, <1>5, <1>6, <1>7 DEF Accounted, i
<1>9. queue \in Seq(Nat) /\ Range(queue) \subseteq waiting /\ Distinct(queue)
  BY DEF QueueInv
<1>10. /\ queue' \in Seq(Nat) /\ Len(queue') = Len(queue) + 1 /\ Len(queue) \in Nat
       /\ queue'[Len(queue) + 1] = i /\ \A k \in 1 .. Len(queue) : queue'[k] = queue[k]
  BY <1>3, <1>4, <1>9
<1>11. Range(queue') = Range(queue) \cup {i} /\ i \notin Range(queue)
  BY <1>3, <1>4, <1>9, RangeOfAppend
<1>12. Distinct(queue')
  <2>1. Cardinality(Range(queue')) = Len(queue')
    <3>1. IsFiniteSet(Range(queue))
      BY <1>2, <1>9, FS_Subset
    <3>2. Cardinality(Range(queue) \cup {i}) = Cardinality(Range(queue)) + 1
      BY <1>11, <3>1, FS_AddElement
    <3>3. Cardinality(Range(queue)) = Len(queue)
      BY <1>9 DEF Distinct
    <3> QED
      BY <1>10, <1>11, <3>2, <3>3
  <2>2. \A k \in 1 .. Len(queue) : queue[k] # i
    <3>1. DOMAIN queue = 1 .. Len(queue)
      BY <1>9
    <3> QED
      BY <1>11, <3>1 DEF Range
  <2>3. ASSUME NEW j \in 1 .. Len(queue'), NEW k \in 1 .. Len(queue'), queue'[j] = queue'[k] PROVE j = k
    BY <1>9, <1>10, <2>2, <2>3 DEF Distinct
  <2> QED
    BY <2>1, <2>3 DEF Distinct
<1> QED
  BY <1>3, <1>8, <1>9, <1>10, <1>11, <1>12 DEF QueueInv

LEMMA HandleKeeps ==
  ASSUME QueueInv, Handle
  PROVE  QueueInv'
<1>1. queue \in Seq(Nat) /\ Range(queue) \subseteq waiting /\ Distinct(queue) /\ queue # <<>>
  BY DEF QueueInv, Handle
<1>2. queue' = Tail(queue) /\ waiting' = waiting
  BY DEF Handle
<1>3. /\ queue' \in Seq(Nat) /\ Len(queue) \in Nat /\ Len(queue) > 0 /\ Len(queue') = Len(queue) - 1
      /\ \A k \in 1 .. Len(queue) - 1 : queue'[k] = queue[k + 1]
  BY <1>1, <1>2
<1>4. DOMAIN queue = 1 .. Len(queue) /\ DOMAIN queue' = 1 .. Len(queue')
  BY <1>1, <1>3
<1>5. \A j, k \in 1 .. Len(queue) : queue[j] = queue[k] => j = k
  BY <1>1 DEF Distinct
<1>6. Range(queue') = Range(queue) \ {queue[1]}
  <2>1. ASSUME NEW x \in Range(queue') PROVE x \in Range(queue) \ {queue[1]}
    <3>1. PICK k \in 1 .. Len(queue') : x = queue'[k]
      BY <1>4 DEF Range
    <3>2. x = queue[k + 1] /\ k + 1 \in 1 .. Len(queue) /\ k + 1 # 1 /\ 1 \in 1 .. Len(queue)
      BY <1>3, <3>1
    <3> QED
      BY <1>4, <1>5, <3>2 DEF Range
  <2>2. ASSUME NEW x \in Range(queue), x # queue[1] PROVE x \in Range(queue')
    <3>1. PICK k \in 1 .. Len(queue) : x = queue[k]
      BY <1>4 DEF Range
    <3>2. k - 1 \in 1 .. Len(queue') /\ queue'[k - 1] = x
      <4>1. k # 1
        BY <2>2, <3>1
      <4>2. k - 1 \in 1 .. Len(queue) - 1 /\ (k - 1) + 1 = k
        BY <1>3, <4>1
      <4> QED
        BY <1>3, <3>1, <4>2
    <3> QED
      BY <1>4, <3>2 DEF Range
  <2> QED
    BY <2>1, <2>2
<1>7. queue[1] \in Range(queue)
  BY <1>3, <1>4 DEF Range
<1>8. Distinct(queue')
  <2>1. Cardinality(Range(queue')) = Len(queue')
    <3>1. IsFiniteSet(waiting)
      BY Waiting DEF QueueInv
    <3>2. IsFiniteSet(Range(queue))
      BY <1>1, <3>1, FS_Subset
    <3> QED
      BY <1>1, <1>3, <1>6, <1>7, <3>2, FS_RemoveElement DEF Distinct
  <2>2. ASSUME NEW j \in 1 .. Len(queue'), NEW k \in 1 .. Len(queue'), queue'[j] = queue'[k] PROVE j = k
    <3>1. queue[j + 1] = queue[k + 1] /\ j + 1 \in 1 .. Len(queue) /\ k + 1 \in 1 .. Len(queue)
      BY <1>3, <2>2
    <3>2. j + 1 = k + 1
      BY <1>5, <3>1
    <3> QED
      BY <1>3, <3>2
  <2> QED
    BY <2>1, <2>2 DEF Distinct
<1>9. Accounted'
  BY DEF QueueInv, Accounted, Handle
<1> QED
  BY <1>1, <1>2, <1>3, <1>6, <1>8, <1>9 DEF QueueInv

LEMMA SettleKeeps ==
  ASSUME QueueInv, NEW i \in waiting, Settle(i)
  PROVE  QueueInv'
<1>1. /\ Len(size) \in Nat /\ size \in [1 .. Len(size) -> Nat] /\ size \in [1 .. Len(size) -> Int]
      /\ IsFiniteSet(waiting) /\ queuedBytes \in Int /\ queuedMessages \in Nat
  BY Waiting DEF QueueInv
<1>2. /\ waiting \in SUBSET (1 .. Len(size)) /\ size[i] \in Nat
      /\ queuedBytes = SumFunctionOnSet(size, waiting) /\ queuedMessages = Cardinality(waiting)
      /\ queuedBytes <= MaxBytes /\ queuedMessages <= MaxMessages
  BY <1>1 DEF QueueInv, Accounted
<1>3. /\ waiting' = waiting \ {i} /\ size' = size /\ queue' = queue
      /\ queuedBytes' = queuedBytes - size[i] /\ queuedMessages' = queuedMessages - 1
  BY DEF Settle
<1>4. queuedBytes' = SumFunctionOnSet(size, waiting')
  <2>1. SumFunctionOnSet(size, waiting) = SumFunctionOnSet(size, waiting \ {i}) + size[i]
    BY <1>1, <1>2, SumWithout
  <2>2. waiting \ {i} \in SUBSET (1 .. Len(size))
    BY <1>2
  <2>3. SumFunctionOnSet(size, waiting \ {i}) \in Int
    BY <1>1, <2>2, SumType
  <2> QED
    BY <1>2, <1>3, <2>1, <2>3
<1>5. queuedMessages' = Cardinality(waiting')
  BY <1>1, <1>2, <1>3, FS_RemoveElement
<1>6. queuedBytes' <= MaxBytes /\ queuedMessages' <= MaxMessages
  BY <1>1, <1>2, <1>3, InboundAssumption DEF InboundAssumption
<1>7. Accounted'
  BY <1>2, <1>3, <1>4, <1>5, <1>6 DEF QueueInv, Accounted
<1>8. Range(queue) \subseteq waiting \ {i}
  <2>1. queue \in Seq(Nat) /\ Range(queue) \subseteq waiting
    BY DEF QueueInv
  <2>2. i \notin Range(queue)
    BY DEF Settle, Range
  <2> QED
    BY <2>1, <2>2
<1> QED
  BY <1>3, <1>7, <1>8 DEF QueueInv

-----------------------------------------------------------------------------
(* Both protections of the socket.                                         *)

\* A session is closed as soon as its socket was, and once.
ClosedWith == closes \in Nat /\ closes <= 1 /\ (closes > 0 => closed)

SocketInv == OutInv /\ ClosedWith /\ QueueInv

LEMMA InitSocketInv == SocketInit => SocketInv
<1>1. Init => ClosedWith
  BY DEF Init, ClosedWith
<1> QED
  BY <1>1, InitOutInv, InitQueueInv DEF SocketInit, SocketInv

LEMMA NextSocketInv == SocketInv /\ [SocketNext]_socketVars => SocketInv'
<1> SUFFICES ASSUME SocketInv, [SocketNext]_socketVars PROVE SocketInv'
  OBVIOUS
<1>1. ASSUME UNCHANGED outVars PROVE OutInv'
  BY <1>1 DEF SocketInv, OutInv, OutTypes, Guarded, Counted, NoSilentDrop, BoundedBuffer, outVars
<1>2. ASSUME UNCHANGED <<queuedBytes, queuedMessages, queue, waiting, size>> PROVE QueueInv'
  BY <1>2 DEF SocketInv, QueueInv, Accounted
<1>3. ASSUME NEW n \in Sizes, Received(n), UNCHANGED <<queuedBytes, queuedMessages, queue, waiting>> PROVE QueueInv'
  <2>1. Accounted'
    BY <1>3, ReceivedKeeps DEF SocketInv, QueueInv, Accounted
  <2> QED
    BY <1>3, <2>1 DEF SocketInv, QueueInv
<1>4. ASSUME NEW n \in Sizes, Ignore(n), UNCHANGED outVars PROVE SocketInv'
  BY <1>1, <1>3, <1>4 DEF SocketInv, ClosedWith, Ignore
<1>5. ASSUME NEW n \in Sizes, Accept(n), UNCHANGED outVars PROVE SocketInv'
  <2>1. closed' = closed /\ closes' = closes
    BY <1>5 DEF Accept
  <2> QED
    BY <1>1, <1>5, <2>1, AcceptKeeps DEF SocketInv, ClosedWith
<1>6. ASSUME NEW n \in Sizes, Refuse(n), CloseSocket PROVE SocketInv'
  <2>1. OutInv'
    BY <1>6 DEF CloseSocket, SocketInv, OutInv, OutTypes, Guarded, Counted, NoSilentDrop, BoundedBuffer
  <2> QED
    BY <1>3, <1>6, <2>1 DEF SocketInv, ClosedWith, Refuse
<1>7. CASE Handle /\ UNCHANGED outVars
  <2>1. closed' = closed /\ closes' = closes
    BY <1>7 DEF Handle
  <2> QED
    BY <1>1, <1>7, <2>1, HandleKeeps DEF SocketInv, ClosedWith
<1>8. ASSUME NEW i \in waiting, Settle(i), UNCHANGED outVars PROVE SocketInv'
  <2>1. closed' = closed /\ closes' = closes
    BY <1>8 DEF Settle
  <2> QED
    BY <1>1, <1>8, <2>1, SettleKeeps DEF SocketInv, ClosedWith
<1>9. CASE OutNext /\ UNCHANGED vars
  BY <1>2, <1>9, OutNextKeeps DEF SocketInv, ClosedWith, vars
<1>10. CASE UNCHANGED socketVars
  BY <1>1, <1>2, <1>10 DEF SocketInv, ClosedWith, socketVars, vars
<1> QED
  BY <1>4, <1>5, <1>6, <1>7, <1>8, <1>9, <1>10 DEF SocketNext, Inbound

LEMMA SocketInvHolds == SocketSpec => []SocketInv
BY InitSocketInv, NextSocketInv, PTL DEF SocketSpec

\* A message a wrapper held back was held back on a socket that is being closed
\* (resource-limits.ts:58-83).
THEOREM NoSilentDropHolds == SocketSpec => []NoSilentDrop
<1>1. SocketInv => NoSilentDrop
  BY DEF SocketInv, OutInv, Guarded
<1> QED
  BY <1>1, SocketInvHolds, PTL

\* While all wrappers let messages through, what is buffered is within the
\* limit but for the control frames (resource-limits.ts:58-83).
THEOREM BoundedBufferHolds == SocketSpec => []BoundedBuffer
<1>1. SocketInv => BoundedBuffer
  BY DEF SocketInv, OutInv, Guarded
<1> QED
  BY <1>1, SocketInvHolds, PTL

\* There are never more sessions counted as slow than have joined over the
\* socket (resource-limits.ts:48-56).
THEOREM SlowCountedOnceHolds == SocketSpec => []SlowCountedOnce
<1>1. SocketInv => SlowCountedOnce
  <2> SUFFICES ASSUME SocketInv PROVE slow <= Len(guards)
    BY DEF SlowCountedOnce
  <2> QED
    BY FS_Subset, FS_CardinalityType DEF SocketInv, OutInv, Guarded, Counted
<1> QED
  BY <1>1, SocketInvHolds, PTL

\* A session over the limit of its queue has its socket closed once, whatever
\* it sends after that (resource-limits.ts:15-44).
THEOREM ClosedOnceHolds == SocketSpec => []ClosedOnce
<1>1. SocketInv => ClosedOnce
  BY DEF SocketInv, ClosedWith, ClosedOnce
<1> QED
  BY <1>1, SocketInvHolds, PTL

\* What an Editing Session has queued and Hocuspocus has not handled is within
\* both limits, however late and in whatever order the promises settle
\* (resource-limits.ts:15-44).
THEOREM BoundedBacklogHolds == SocketSpec => []BoundedBacklog
<1>1. SocketInv => BoundedBacklog
  <2> SUFFICES ASSUME QueueInv PROVE BoundedBacklog
    BY DEF SocketInv
  <2>1. /\ Len(size) \in Nat /\ size \in [1 .. Len(size) -> Nat] /\ size \in [1 .. Len(size) -> Int]
        /\ IsFiniteSet(waiting) /\ queuedBytes \in Int /\ queuedMessages \in Nat
    BY Waiting DEF QueueInv
  <2>2. /\ waiting \in SUBSET (1 .. Len(size)) /\ Range(queue) \in SUBSET waiting
        /\ queuedBytes = SumFunctionOnSet(size, waiting) /\ queuedBytes <= MaxBytes
        /\ queuedMessages = Cardinality(waiting) /\ queuedMessages <= MaxMessages
        /\ Cardinality(Range(queue)) = Len(queue)
    BY DEF QueueInv, Accounted, Distinct
  <2>3. MaxBytes \in Int /\ MaxMessages \in Int
    BY InboundAssumption DEF InboundAssumption
  <2>4. SumFunctionOnSet(size, Range(queue)) <= MaxBytes
    <3>1. SumFunctionOnSet(size, Range(queue)) <= SumFunctionOnSet(size, waiting)
      BY <2>1, <2>2, SumMonotone
    <3>2. SumFunctionOnSet(size, Range(queue)) \in Int
      BY <2>1, <2>2, SumType
    <3> QED
      BY <2>1, <2>2, <2>3, <3>1, <3>2
  <2>5. Len(queue) <= MaxMessages
    <3>1. /\ Cardinality(Range(queue)) <= Cardinality(waiting)
          /\ Cardinality(Range(queue)) \in Nat /\ Cardinality(waiting) \in Nat
      BY <2>1, <2>2, FS_Subset, FS_CardinalityType
    <3> QED
      BY <2>2, <2>3, <3>1
  <2> QED
    BY <2>4, <2>5 DEF BoundedBacklog
<1> QED
  BY <1>1, SocketInvHolds, PTL

\* A session that has come to rest has its whole allowance again
\* (resource-limits.ts:33-43).
THEOREM NothingLeaksHolds == SocketSpec => []NothingLeaks
<1>1. SocketInv => NothingLeaks
  <2> SUFFICES ASSUME QueueInv, waiting = {} PROVE queuedBytes = 0 /\ queuedMessages = 0
    BY DEF SocketInv, NothingLeaks
  <2>1. Len(size) \in Nat /\ size \in [1 .. Len(size) -> Int]
    BY Waiting DEF QueueInv
  <2>2. SumFunctionOnSet(size, {}) = 0
    BY <2>1, SumOfNothing
  <2> QED
    BY <2>2, FS_EmptySet DEF QueueInv, Accounted
<1> QED
  BY <1>1, SocketInvHolds, PTL

=============================================================================
