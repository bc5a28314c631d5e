------------------------- MODULE DocumentStoreProps -------------------------
(***************************************************************************)
(* What must hold of the contents of a Document.                           *)
(***************************************************************************)
EXTENDS DocumentStore

\* Types, and: what is not open has no editors and no changes, and what is not
\* loaded has no contents (server.ts:135-142).
TypeOK ==
  /\ doc \in {"none", "loading", "fetched", "open"}
  /\ content \subseteq Items
  /\ conn \subseteq Editors
  /\ held \in [Editors -> SUBSET Items]
  /\ dirty \in BOOLEAN
  /\ store \in {"idle", "asking", "putting", "applied"}
  /\ snapshot \subseteq Items
  /\ stored \subseteq Items
  /\ late \subseteq SUBSET Items
  /\ used \subseteq Inits
  /\ owed \subseteq Items
  /\ disturbed \in BOOLEAN
  /\ doc # "open" => conn = {} /\ ~dirty /\ store = "idle"
  /\ doc \in {"none", "loading"} => content = {}

\* No edit is lost silently: what the server took from an editor is in core-api
\* once the Document is at rest or gone, unless the process died, Redis had the
\* Document as deleted, a store failed and said so (server.ts:149-152), or a
\* PUT the server had given up on was applied after all.
NoSilentLoss ==
  /\ doc = "open" => owed \subseteq content
  /\ doc # "open" \/ (store = "idle" /\ ~dirty) => owed \subseteq stored

\* The canonical state in core-api never loses anything it had, through
\* failed loads, crashes, reconnecting editors and edits during a store, as
\* long as core-api applies no PUT that the server has given up on.
NeverShrinks == [][disturbed' \/ stored \subseteq stored']_vars

\* An open Document stays within the limit whatever editors bring along from
\* earlier connections, but for what the last update added beyond its own size
\* (enforceSyncLimit adds the sizes up and does not merge).
OpenFits == doc = "open" => Bytes[content] <= MaxDocumentBytes + Slack

\* What core-api was sent can be loaded again, unless the response outgrows
\* its bound, which loadConfig compares with the state alone (config.ts:71).
StoredLoads ==
  \A S \in {stored, snapshot} \cup late : S # {} /\ ResponseFits(S) => Loadable(S)

\* What an editor sent reaches core-api in the end, or the loss is accounted
\* for as in NoSilentLoss: a store never hangs on Redis or on core-api.
EditsReachCore == \A u \in Updates : u \in owed ~> (u \in stored \/ u \notin owed)

\* A Document without canonical state is initialized from the persisted title
\* and body, which appear in it once.
InitializedOnce == doc = "open" => \A i, j \in content \cap Inits : i = j

=============================================================================
