---------------------------- MODULE DocumentStore ----------------------------
(***************************************************************************)
(* The contents of one Document: how they are loaded from core-api, synced *)
(* with editors who keep copies of their own, and stored again, on the one *)
(* replica that has the Document (README.md:68).                           *)
(*                                                                         *)
(* A Yjs document is the set of items it contains, and applying an update  *)
(* adds items.  Every initialization of a Document without canonical state *)
(* makes new ones: TiptapTransformer.toYdoc inserts title and body under a *)
(* client id of its own each time.  Sizes are functions of such sets.      *)
(*                                                                         *)
(* Yjs, Tiptap, Hocuspocus (one load, one store of a Document at a time,   *)
(* unloading), Redis and core-api are not part of the repository and are   *)
(* modelled from how server.ts and storage.ts use them.  DocumentRoom has  *)
(* the deletion of the Document in full; here it is an answer of Redis.    *)
(*                                                                         *)
(* `owed' and `disturbed' only record history.                             *)
(***************************************************************************)
EXTENDS Integers

CONSTANTS
  Editors,
  Updates,            \* items that editors type
  Inits,              \* items that initializations insert
  Bytes,              \* Bytes[S]: a Document with the items S as one update
  Payload,            \* Payload[U]: a sync message that carries the items U
  Slack,              \* what an update may add to a Document beyond its own
                      \* size, because it splits the runs it falls into
  Projection,         \* Projection[S]: the longer one of title and body HTML
  Json,               \* Json[S]: the response of core-api but for the state
  MaxDocumentBytes,
  MaxMessageBytes,    \* maxWebSocketMessageBytes
  MaxResponseBytes    \* maxPersistenceResponseBytes

Items == Updates \cup Inits

\* The length of n bytes in base64.
Base64Length(n) == ((n + 2) \div 3) * 4

PositiveInteger(n) == n \in Nat \ {0}

\* What loadConfig lets through of the bounds used here.
ConfigAccepted ==
  /\ \A n \in {MaxDocumentBytes, MaxMessageBytes, MaxResponseBytes} : PositiveInteger(n)
  /\ MaxMessageBytes >= MaxDocumentBytes
  /\ MaxResponseBytes >= Base64Length(MaxDocumentBytes)

ASSUME StoreAssumption ==
  /\ Updates \cap Inits = {}
  /\ Bytes \in [SUBSET Items -> Nat]
  /\ Payload \in [SUBSET Items -> Nat]
  /\ Slack \in Nat
  /\ \A S, U \in SUBSET Items : Bytes[S \cup U] <= Bytes[S] + Payload[U] + Slack
  /\ Projection \in [SUBSET Items -> Nat]
  /\ Json \in [SUBSET Items -> Nat]
  /\ ConfigAccepted

VARIABLES
  doc,        \* "none", "loading", "fetched" (core-api has answered) or "open"
  content,    \* the items of the Document on the server
  conn,       \* the editors connected to the Document
  held,       \* held[s]: the items in the copy that editor s keeps
  dirty,      \* the Document has changes no store has been begun for
  store,      \* "idle", "asking" (Redis), "putting" or "applied" (by core-api)
  snapshot,   \* the state in the PUT under way, or {}
  stored,     \* the canonical state in core-api, {} when there is none
  late,       \* states in PUTs given up that core-api may still apply
  used,       \* initializations there have been
  owed,       \* items taken from editors whose loss has not been excused
  disturbed   \* core-api has applied a PUT after the server gave it up

docVars == <<doc, content, conn, held>>
storeVars == <<dirty, store, snapshot>>
coreVars == <<stored, late>>
history == <<owed, disturbed>>
vars == <<docVars, storeVars, coreVars, used, history>>

Init ==
  /\ doc = "none"
  /\ content = {}
  /\ conn = {}
  /\ held = [s \in Editors |-> {}]
  /\ dirty = FALSE
  /\ store = "idle"
  /\ snapshot = {}
  /\ stored = {}
  /\ late = {}
  /\ used = {}
  /\ owed = {}
  /\ disturbed = FALSE

-----------------------------------------------------------------------------
(* loadDocumentState and CoreAPIStorage.load.                              *)

\* enforceDocumentLimit
Fits(S) == Bytes[S] <= MaxDocumentBytes

\* validateProjectionSize
ProjectionFits(S) == Projection[S] <= MaxDocumentBytes

\* readBoundedJSON
ResponseFits(S) == Base64Length(Bytes[S]) + Json[S] <= MaxResponseBytes

\* decodeCanonicalBase64 takes this state.
Decodes(S) ==
  \/ S = {}
  \/ /\ Base64Length(Bytes[S]) <= Base64Length(MaxDocumentBytes)
     /\ Fits(S)

Loadable(S) == ResponseFits(S) /\ ProjectionFits(S) /\ Decodes(S)

LoadStart ==
  /\ doc = "none"
  /\ doc' = "loading"
  /\ UNCHANGED <<content, conn, held, storeVars, coreVars, used, history>>

\* core-api answers with a canonical state.
FetchState ==
  /\ doc = "loading"
  /\ stored # {}
  /\ Loadable(stored)
  /\ doc' = "fetched"
  /\ content' = stored
  /\ UNCHANGED <<conn, held, storeVars, coreVars, used, history>>

\* core-api answers with the title and body it has, and no state: initializeDocument
\* makes i from them.
FetchProjections(i) ==
  /\ doc = "loading"
  /\ stored = {}
  /\ Json[{i}] <= MaxResponseBytes
  /\ ProjectionFits({i})
  /\ Fits({i})
  /\ doc' = "fetched"
  /\ content' = {i}
  /\ used' = used \cup {i}
  /\ UNCHANGED <<conn, held, storeVars, coreVars, history>>

Open ==
  /\ doc = "fetched"
  /\ doc' = "open"
  /\ UNCHANGED <<content, conn, held, storeVars, coreVars, used, history>>

\* Fault: a Document whose state cannot be loaded is opened empty.
LoadFailsOpen ==
  /\ doc \in {"loading", "fetched"}
  /\ doc' = "open"
  /\ content' = {}
  /\ UNCHANGED <<conn, held, storeVars, coreVars, used, history>>

\* Fault: a load that failed late leaves what it had made behind.
LoadFailsKeeps ==
  /\ doc \in {"loading", "fetched"}
  /\ doc' = "none"
  /\ UNCHANGED <<content, conn, held, storeVars, coreVars, used, history>>

\* core-api failed or was too slow, or what it sent is refused.
LoadFails ==
  /\ doc \in {"loading", "fetched"}
  /\ doc' = "none"
  /\ content' = {}
  /\ UNCHANGED <<conn, held, storeVars, coreVars, used, history>>

-----------------------------------------------------------------------------
(* Editors.  A provider keeps its copy when it loses the connection, and   *)
(* on the next one sends whatever the server lacks.                        *)

Join(s) ==
  /\ doc = "open"
  /\ s \notin conn
  /\ conn' = conn \cup {s}
  /\ UNCHANGED <<doc, content, held, storeVars, coreVars, used, history>>

Leave(s) ==
  /\ s \in conn
  /\ conn' = conn \ {s}
  /\ UNCHANGED <<doc, content, held, storeVars, coreVars, used, history>>

\* The server's half of the sync, and what it broadcasts later.
Pull(s) ==
  /\ s \in conn
  /\ ~(content \subseteq held[s])
  /\ held' = [held EXCEPT ![s] = @ \cup content]
  /\ UNCHANGED <<doc, content, conn, storeVars, coreVars, used, history>>

\* Whoever has the Document types, connected or not.
Type(s, u) ==
  /\ held[s] # {}
  /\ \A e \in Editors : u \notin held[e]
  /\ held' = [held EXCEPT ![s] = @ \cup {u}]
  /\ UNCHANGED <<doc, content, conn, storeVars, coreVars, used, history>>

\* enforceSyncLimit refuses this message.
\* Fault: only updates (2) are checked, not answers to a sync request (1).
OverLimitUpdatesOnly(type, U) == type = 2 /\ Bytes[content] + Payload[U] > MaxDocumentBytes

OverLimit(type, U) ==
  /\ type \in {1, 2}
  /\ Bytes[content] + Payload[U] > MaxDocumentBytes

\* Messages that carry items: an answer to the server's sync request (1) may
\* have any number, an update (2) is one change.
Carries(s, type, U) ==
  /\ s \in conn
  /\ U # {}
  /\ U \subseteq held[s]
  /\ type = 2 => \E u \in Updates : U = {u}

\* websocketOptions.maxPayload: the socket is closed before anybody sees this.
TooLong(U) == Payload[U] > MaxMessageBytes

MessageRefused(s, type, U) ==
  /\ Carries(s, type, U)
  /\ TooLong(U)
  /\ conn' = conn \ {s}
  /\ UNCHANGED <<doc, content, held, storeVars, coreVars, used, history>>

\* beforeSync throws and the Editing Session is closed (1009).
SyncRefused(s, type, U) ==
  /\ Carries(s, type, U)
  /\ ~TooLong(U)
  /\ OverLimit(type, U)
  /\ conn' = conn \ {s}
  /\ UNCHANGED <<doc, content, held, storeVars, coreVars, used, history>>

SyncAccepted(s, type, U) ==
  /\ Carries(s, type, U)
  /\ ~TooLong(U)
  /\ ~OverLimit(type, U)
  /\ ~(U \subseteq content)
  /\ content' = content \cup U
  /\ dirty' = TRUE
  /\ owed' = owed \cup U
  /\ UNCHANGED <<doc, conn, held, store, snapshot, coreVars, used, disturbed>>

-----------------------------------------------------------------------------
(* onStoreDocument, storeDocumentState and CoreAPIStorage.store.           *)

StoreBegin ==
  /\ doc = "open"
  /\ dirty
  /\ store = "idle"
  /\ store' = "asking"
  /\ dirty' = FALSE
  /\ UNCHANGED <<docVars, snapshot, coreVars, used, history>>

\* The Document is deleted: it is not stored, and that is not a failure.
StoreSkips ==
  /\ store = "asking"
  /\ store' = "idle"
  /\ owed' = owed \cap stored
  /\ UNCHANGED <<docVars, dirty, snapshot, coreVars, used, disturbed>>

\* Fault: the projections go to core-api unchecked.
StorableByState(S) == Fits(S)

Storable(S) == Fits(S) /\ ProjectionFits(S)

\* Redis has answered; the state is taken now, not when the store began.
StoreSends ==
  /\ store = "asking"
  /\ Storable(content)
  /\ store' = "putting"
  /\ snapshot' = content
  /\ UNCHANGED <<docVars, dirty, coreVars, used, history>>

CoreAPIApplies ==
  /\ store = "putting"
  /\ store' = "applied"
  /\ stored' = snapshot
  /\ UNCHANGED <<docVars, dirty, snapshot, late, used, history>>

StoreSucceeds ==
  /\ store = "applied"
  /\ store' = "idle"
  /\ snapshot' = {}
  /\ UNCHANGED <<docVars, dirty, coreVars, used, history>>

\* The PUT under way, if core-api has not applied it, may be applied later.
GiveUpPut ==
  /\ snapshot' = {}
  /\ late' = IF store = "putting" THEN late \cup {snapshot} ELSE late

\* Fault: the failure is swallowed; it is not reported to anybody.
StoreFailsSilently(again) ==
  /\ store # "idle"
  /\ store' = "idle"
  /\ GiveUpPut
  /\ UNCHANGED <<docVars, dirty, stored, used, history>>

\* Fault: a PUT has no timeout.
StoreFailsUnlessPutting(again) ==
  /\ store \in {"asking", "applied"}
  /\ store' = "idle"
  /\ dirty' = (dirty \/ again)
  /\ owed' = owed \cap stored
  /\ snapshot' = {}
  /\ UNCHANGED <<docVars, coreVars, used, disturbed>>

\* Redis or core-api failed or was too slow, or the Document is too large.  It
\* is reported and counted; whether Hocuspocus tries again is its business.
StoreFails(again) ==
  /\ store # "idle"
  /\ store' = "idle"
  /\ GiveUpPut
  /\ dirty' = (dirty \/ again)
  /\ owed' = owed \cap stored
  /\ UNCHANGED <<docVars, stored, used, disturbed>>

-----------------------------------------------------------------------------
(* The surroundings.                                                       *)

\* Hocuspocus drops a Document that nobody is connected to.
Unload ==
  /\ doc = "open"
  /\ conn = {}
  /\ store = "idle"
  /\ ~dirty
  /\ doc' = "none"
  /\ content' = {}
  /\ UNCHANGED <<conn, held, storeVars, coreVars, used, history>>

\* core-api applies a PUT the server has given up on, over a newer one even.
CoreAPIAppliesLate(S) ==
  /\ S \in late
  /\ late' = late \ {S}
  /\ stored' = S
  /\ owed' = owed \cap S
  /\ disturbed' = TRUE
  /\ UNCHANGED <<docVars, storeVars, used>>

\* The process dies and starts again with nothing; editors keep their copies.
Crash ==
  /\ doc # "none"
  /\ doc' = "none"
  /\ content' = {}
  /\ conn' = {}
  /\ dirty' = FALSE
  /\ store' = "idle"
  /\ GiveUpPut
  /\ owed' = owed \cap stored
  /\ UNCHANGED <<held, stored, used, disturbed>>

Load == LoadStart \/ FetchState \/ (\E i \in Inits \ used : FetchProjections(i)) \/ Open \/ LoadFails

Edit(s) ==
  \/ Join(s) \/ Leave(s) \/ Pull(s)
  \/ \E u \in Updates : Type(s, u)
  \/ \E type \in {1, 2}, U \in SUBSET held[s] :
       MessageRefused(s, type, U) \/ SyncRefused(s, type, U) \/ SyncAccepted(s, type, U)

Store ==
  \/ StoreBegin \/ StoreSkips \/ StoreSends \/ CoreAPIApplies \/ StoreSucceeds
  \/ \E again \in BOOLEAN : StoreFails(again)

Next ==
  \/ Load \/ Store \/ Unload \/ Crash
  \/ \E s \in Editors : Edit(s)
  \/ \E S \in late : CoreAPIAppliesLate(S)

Spec == Init /\ [][Next]_vars

\* The debounce fires at the latest after maxDebounce, and each question to
\* Redis or core-api fails once its timeout has passed.  Neither need answer.
Fairness == WF_vars(StoreBegin) /\ WF_vars(\E again \in BOOLEAN : StoreFails(again))

FairSpec == Spec /\ Fairness

=============================================================================
