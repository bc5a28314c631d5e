------------------------- MODULE DocumentStoreProofs ------------------------
(***************************************************************************)
(* Proofs about the contents of a Document, for any editors, updates,      *)
(* initializations, sizes and limits: nothing an editor sent is lost       *)
(* silently, core-api's state never shrinks, an open Document stays within *)
(* its limit and what was stored can be loaded again.                      *)
(***************************************************************************)
EXTENDS DocumentStoreProps, TLAPS

-----------------------------------------------------------------------------
(* Type correctness.                                                       *)

\* The parts of TypeOK, so that a step cites only what it disturbs.
Types ==
  /\ doc \in {"none", "loading", "fetched", "open"}
  /\ content \subseteq Items
  /\ conn \subseteq Editors
  /\ held \in [Editors -> SUBSET Items]
  /\ dirty \in BOOLEAN
  /\ store \in {"idle", "asking", "putting", "applied"}
  /\ snapshot \subseteq Items
  /\ stored \subseteq Items
  /\ late \subseteq SUBSET Items
  /\ used \subseteq Inits
  /\ owed \subseteq Items
  /\ disturbed \in BOOLEAN

Quiet ==
  /\ doc # "open" => conn = {} /\ ~dirty /\ store = "idle"
  /\ doc \in {"none", "loading"} => content = {}

LEMMA TypeParts == TypeOK <=> Types /\ Quiet
BY DEF TypeOK, Types, Quiet

LEMMA InitTypeOK == Init => TypeOK
BY TypeParts DEF Init, Types, Quiet

LEMMA NextTypeOK == TypeOK /\ [Next]_vars => TypeOK'
<1> SUFFICES ASSUME Types, Quiet, [Next]_vars PROVE Types' /\ Quiet'
  BY TypeParts, PTL
<1> USE DEF Types, Quiet, docVars, storeVars, coreVars, history
<1>1. CASE Load
  <2>1. CASE LoadStart \/ FetchState \/ Open \/ LoadFails
    BY <2>1 DEF LoadStart, FetchState, Open, LoadFails
  <2>2. ASSUME NEW i \in Inits \ used, FetchProjections(i) PROVE Types' /\ Quiet'
    BY <2>2 DEF FetchProjections, Items
  <2> QED
    BY <1>1, <2>1, <2>2 DEF Load
<1>2. CASE Store
  <2>1. CASE StoreBegin \/ StoreSkips \/ StoreSends \/ CoreAPIApplies \/ StoreSucceeds
    BY <2>1 DEF StoreBegin, StoreSkips, StoreSends, CoreAPIApplies, StoreSucceeds
  <2>2. ASSUME NEW again \in BOOLEAN, StoreFails(again) PROVE Types' /\ Quiet'
    BY <2>2 DEF StoreFails, GiveUpPut
  <2> QED
    BY <1>2, <2>1, <2>2 DEF Store
<1>3. CASE Unload \/ Crash
  <2>1. CASE Unload
    BY <2>1 DEF Unload
  <2>2. CASE Crash
    <3>1. snapshot' \subseteq Items /\ late' \subseteq SUBSET Items
      BY <2>2 DEF Crash, GiveUpPut
    <3> QED
      BY <2>2, <3>1 DEF Crash
  <2> QED
    BY <1>3, <2>1, <2>2
<1>4. ASSUME NEW s \in Editors, Edit(s) PROVE Types' /\ Quiet'
  <2>1. CASE Join(s) \/ Leave(s) \/ Pull(s)
    BY <2>1 DEF Join, Leave, Pull
  <2>2. ASSUME NEW u \in Updates, Type(s, u) PROVE Types' /\ Quiet'
    BY <2>2 DEF Type, Items
  <2>3. ASSUME NEW type \in {1, 2}, NEW U \in SUBSET held[s],
               MessageRefused(s, type, U) \/ SyncRefused(s, type, U) \/ SyncAccepted(s, type, U)
        PROVE  Types' /\ Quiet'
    <3>1. U \subseteq Items
      OBVIOUS
    <3>2. s \in conn /\ doc = "open"
      BY <2>3 DEF MessageRefused, SyncRefused, SyncAccepted, Carries
    <3> QED
      BY <2>3, <3>1, <3>2 DEF MessageRefused, SyncRefused, SyncAccepted
  <2> QED
    BY <1>4, <2>1, <2>2, <2>3 DEF Edit
<1>5. ASSUME NEW S \in late, CoreAPIAppliesLate(S) PROVE Types' /\ Quiet'
  BY <1>5 DEF CoreAPIAppliesLate
<1>6. CASE UNCHANGED vars
  BY <1>6 DEF vars
<1> QED
  BY <1>1, <1>2, <1>3, <1>4, <1>5, <1>6 DEF Next

\* The contents of a Document, its editors and its store are of their types,
\* and nothing is left of a Document that is not open (server.ts:135-153).
THEOREM TypeCorrect == Spec => []TypeOK
<1>1. Init => TypeOK
  BY InitTypeOK
<1>2. TypeOK /\ [Next]_vars => TypeOK'
  BY NextTypeOK
<1> QED
  BY <1>1, <1>2, PTL DEF Spec

-----------------------------------------------------------------------------
(* Sizes.                                                                  *)

\* What core-api has, or may yet get, has passed the checks of a store.
Checked(S) == S = {} \/ Storable(S)

Measured ==
  /\ doc \in {"fetched", "open"} => Bytes[content] <= MaxDocumentBytes + Slack
  /\ Checked(stored)
  /\ Checked(snapshot)
  /\ \A S \in late : Checked(S)

LEMMA Limits ==
  /\ MaxDocumentBytes \in Nat /\ MaxResponseBytes \in Nat /\ Slack \in Nat
  /\ \A S \in SUBSET Items : Bytes[S] \in Nat /\ Payload[S] \in Nat
BY StoreAssumption DEF StoreAssumption, ConfigAccepted, PositiveInteger

\* A state within the limit is no longer in base64 than the limit is.
LEMMA Base64Monotone ==
  ASSUME NEW m \in Nat, NEW n \in Nat, m <= n
  PROVE  Base64Length(m) <= Base64Length(n)
<1>1. (m + 2) \div 3 <= (n + 2) \div 3
  OBVIOUS
<1>2. (m + 2) \div 3 \in Nat /\ (n + 2) \div 3 \in Nat
  OBVIOUS
<1> QED
  BY <1>1, <1>2 DEF Base64Length

LEMMA InitMeasured == Init => Measured
BY DEF Init, Measured, Checked

LEMMA NextMeasured == TypeOK /\ Measured /\ [Next]_vars => Measured'
<1> SUFFICES ASSUME Types, Quiet, Measured, [Next]_vars PROVE Measured'
  BY TypeParts
<1> USE Limits DEF Measured, docVars, storeVars, coreVars, history
<1>1. CASE Load
  <2>1. CASE LoadStart \/ Open \/ LoadFails
    BY <2>1 DEF LoadStart, Open, LoadFails
  <2>2. CASE FetchState
    <3>1. Bytes[stored] <= MaxDocumentBytes
      BY <2>2 DEF FetchState, Loadable, Decodes, Fits
    <3> QED
      BY <2>2, <3>1 DEF FetchState, Types
  <2>3. ASSUME NEW i \in Inits \ used, FetchProjections(i) PROVE Measured'
    <3>1. {i} \in SUBSET Items /\ Bytes[{i}] <= MaxDocumentBytes
      BY <2>3 DEF FetchProjections, Fits, Items
    <3> QED
      BY <2>3, <3>1 DEF FetchProjections
  <2> QED
    BY <1>1, <2>1, <2>2, <2>3 DEF Load
<1>2. CASE Store
  <2>1. CASE StoreBegin \/ StoreSkips \/ CoreAPIApplies
    BY <2>1 DEF StoreBegin, StoreSkips, CoreAPIApplies
  <2>2. CASE StoreSends \/ StoreSucceeds
    BY <2>2 DEF StoreSends, StoreSucceeds, Checked
  <2>3. ASSUME NEW again \in BOOLEAN, StoreFails(again) PROVE Measured'
    BY <2>3 DEF StoreFails, GiveUpPut, Checked
  <2> QED
    BY <1>2, <2>1, <2>2, <2>3 DEF Store
<1>3. CASE Unload \/ Crash
  BY <1>3 DEF Unload, Crash, GiveUpPut, Checked
<1>4. ASSUME NEW s \in Editors, Edit(s) PROVE Measured'
  <2>1. CASE Join(s) \/ Leave(s) \/ Pull(s)
    BY <2>1 DEF Join, Leave, Pull
  <2>2. ASSUME NEW u \in Updates, Type(s, u) PROVE Measured'
    BY <2>2 DEF Type
  <2>3. ASSUME NEW type \in {1, 2}, NEW U \in SUBSET held[s],
               MessageRefused(s, type, U) \/ SyncRefused(s, type, U)
        PROVE  Measured'
    BY <2>3 DEF MessageRefused, SyncRefused
  <2>4. ASSUME NEW type \in {1, 2}, NEW U \in SUBSET held[s], SyncAccepted(s, type, U)
        PROVE  Measured'
    <3>1. content \in SUBSET Items /\ U \in SUBSET Items
      BY DEF Types
    <3>2. Bytes[content \cup U] <= Bytes[content] + Payload[U] + Slack
      BY <3>1, StoreAssumption DEF StoreAssumption
    <3>3. Bytes[content] + Payload[U] <= MaxDocumentBytes
      BY <2>4, <3>1 DEF SyncAccepted, OverLimit
    <3>4. Bytes[content \cup U] <= MaxDocumentBytes + Slack
      BY <3>1, <3>2, <3>3
    <3> QED
      BY <2>4, <3>4 DEF SyncAccepted
  <2> QED
    BY <1>4, <2>1, <2>2, <2>3, <2>4 DEF Edit
<1>5. ASSUME NEW S \in late, CoreAPIAppliesLate(S) PROVE Measured'
  BY <1>5 DEF CoreAPIAppliesLate
<1>6. CASE UNCHANGED vars
  BY <1>6 DEF vars
<1> QED
  BY <1>1, <1>2, <1>3, <1>4, <1>5, <1>6 DEF Next

LEMMA AlwaysMeasured == Spec => []Measured
<1>1. Init => TypeOK /\ Measured
  BY InitTypeOK, InitMeasured
<1>2. TypeOK /\ Measured /\ [Next]_vars => (TypeOK /\ Measured)'
  BY NextTypeOK, NextMeasured
<1> QED
  BY <1>1, <1>2, PTL DEF Spec

\* An open Document stays within its limit, but for the slack of one update,
\* whatever copies editors bring along (resource-limits.ts:85-95).
THEOREM OpenFitsHolds == Spec => []OpenFits
<1>1. Measured => OpenFits
  BY DEF Measured, OpenFits
<1> QED
  BY <1>1, AlwaysMeasured, PTL

\* Every state that core-api was sent, or is still to get, passes the checks
\* of a load if the response stays within its bound (storage.ts:59-96).
THEOREM StoredLoadsHolds == Spec => []StoredLoads
<1>1. TypeOK /\ Measured => StoredLoads
  <2> SUFFICES ASSUME TypeOK, Measured,
                      NEW S \in {stored, snapshot} \cup late, S # {}, ResponseFits(S)
               PROVE  Loadable(S)
    BY DEF StoredLoads
  <2>1. S \in SUBSET Items
    BY DEF TypeOK
  <2>2. Storable(S)
    BY DEF Measured, Checked
  <2>3. Base64Length(Bytes[S]) <= Base64Length(MaxDocumentBytes)
    BY <2>1, <2>2, Limits, Base64Monotone DEF Storable, Fits
  <2> QED
    BY <2>2, <2>3 DEF Loadable, Decodes, Storable
<1> QED
  BY <1>1, TypeCorrect, AlwaysMeasured, PTL

-----------------------------------------------------------------------------
(* Contents: what is on the server, in the PUT under way and in core-api.  *)

\* Unless an abandoned PUT was applied, each contains the next: the Document,
\* the PUT under way, the canonical state.
Nested ==
  /\ store \in {"putting", "applied"} => snapshot \subseteq content
  /\ ~disturbed /\ doc \in {"fetched", "open"} => stored \subseteq content
  /\ ~disturbed /\ store = "putting" => stored \subseteq snapshot

\* Where whatever is owed to the editors can be found.
Accounted ==
  /\ doc \in {"fetched", "open"} => owed \subseteq content
  /\ doc # "open" => owed \subseteq stored
  /\ ~dirty /\ store \in {"idle", "applied"} => owed \subseteq stored
  /\ ~dirty /\ store = "putting" => owed \subseteq snapshot

Grown == disturbed' \/ stored \subseteq stored'

LEMMA InitContents == Init => Nested /\ Accounted
BY DEF Init, Nested, Accounted

LEMMA NextContents ==
  TypeOK /\ Nested /\ Accounted /\ [Next]_vars => Nested' /\ Accounted' /\ Grown
<1> SUFFICES ASSUME Types, Quiet, Nested, Accounted, [Next]_vars
             PROVE  Nested' /\ Accounted' /\ Grown
  BY TypeParts
<1> USE DEF Nested, Accounted, Grown, docVars, storeVars, coreVars, history
<1>1. CASE Load
  <2>1. CASE LoadStart \/ FetchState \/ Open \/ LoadFails
    BY <2>1 DEF LoadStart, FetchState, Open, LoadFails, Quiet
  <2>2. ASSUME NEW i \in Inits \ used, FetchProjections(i)
        PROVE  Nested' /\ Accounted' /\ Grown
    BY <2>2 DEF FetchProjections, Quiet
  <2> QED
    BY <1>1, <2>1, <2>2 DEF Load
<1>2. CASE Store
  <2>1. CASE StoreBegin \/ StoreSkips \/ StoreSends
    BY <2>1 DEF StoreBegin, StoreSkips, StoreSends, Types, Quiet
  <2>2. CASE CoreAPIApplies \/ StoreSucceeds
    BY <2>2 DEF CoreAPIApplies, StoreSucceeds, Types, Quiet
  <2>3. ASSUME NEW again \in BOOLEAN, StoreFails(again)
        PROVE  Nested' /\ Accounted' /\ Grown
    BY <2>3 DEF StoreFails, Types
  <2> QED
    BY <1>2, <2>1, <2>2, <2>3 DEF Store
<1>3. CASE Unload \/ Crash
  BY <1>3 DEF Unload, Crash
<1>4. ASSUME NEW s \in Editors, Edit(s) PROVE Nested' /\ Accounted' /\ Grown
  <2>1. CASE Join(s) \/ Leave(s) \/ Pull(s)
    BY <2>1 DEF Join, Leave, Pull
  <2>2. ASSUME NEW u \in Updates, Type(s, u) PROVE Nested' /\ Accounted' /\ Grown
    BY <2>2 DEF Type
  <2>3. ASSUME NEW type \in {1, 2}, NEW U \in SUBSET held[s],
               MessageRefused(s, type, U) \/ SyncRefused(s, type, U)
        PROVE  Nested' /\ Accounted' /\ Grown
    BY <2>3 DEF MessageRefused, SyncRefused
  <2>4. ASSUME NEW type \in {1, 2}, NEW U \in SUBSET held[s], SyncAccepted(s, type, U)
        PROVE  Nested' /\ Accounted' /\ Grown
    <3>1. doc = "open"
      BY <2>4 DEF SyncAccepted, Carries, Quiet
    <3> QED
      BY <2>4, <3>1 DEF SyncAccepted
  <2> QED
    BY <1>4, <2>1, <2>2, <2>3, <2>4 DEF Edit
<1>5. ASSUME NEW S \in late, CoreAPIAppliesLate(S) PROVE Nested' /\ Accounted' /\ Grown
  BY <1>5 DEF CoreAPIAppliesLate
<1>6. CASE UNCHANGED vars
  BY <1>6 DEF vars
<1> QED
  BY <1>1, <1>2, <1>3, <1>4, <1>5, <1>6 DEF Next

LEMMA AlwaysAccounted == Spec => [](TypeOK /\ Nested /\ Accounted)
<1>1. Init => TypeOK /\ Nested /\ Accounted
  BY InitTypeOK, InitContents
<1>2. TypeOK /\ Nested /\ Accounted /\ [Next]_vars => (TypeOK /\ Nested /\ Accounted)'
  BY NextTypeOK, NextContents
<1> QED
  BY <1>1, <1>2, PTL DEF Spec

\* What the server took from an editor is in the Document while that is open
\* and in core-api after it, or its loss was accounted for (server.ts:143-153).
THEOREM NoSilentLossHolds == Spec => []NoSilentLoss
<1>1. Accounted => NoSilentLoss
  BY DEF Accounted, NoSilentLoss
<1> QED
  BY <1>1, AlwaysAccounted, PTL

\* The canonical state only grows, unless core-api applies a PUT that the
\* server has given up on (server.ts:265-299, storage.ts:116-125).
THEOREM NeverShrinksHolds == Spec => NeverShrinks
<1>1. TypeOK /\ Nested /\ Accounted /\ [Next]_vars => [disturbed' \/ stored \subseteq stored']_vars
  BY NextContents DEF Grown
<1> QED
  BY <1>1, AlwaysAccounted, PTL DEF Spec, NeverShrinks

=============================================================================
