-------------------------- MODULE DocumentRoomProps -------------------------
(***************************************************************************)
(* What must hold of a Document Room and its deletion.                     *)
(***************************************************************************)
EXTENDS DocumentRoom

\* Every variable has its type, and whoever is in the room, and a store, has
\* the Document open on the replica: through shared and failed loads, unloads
\* and crashes.
TypeOK ==
  /\ marker \in BOOLEAN
  /\ subscribed \in [Replicas -> BOOLEAN]
  /\ notices \in [Replicas -> SUBSET Deletes]
  /\ exec \in [Deletes -> {"new", "sent", "done", "failed"}]
  /\ answer \in [Deletes -> {"none", "204", "503", "lost"}]
  /\ session \in [Sessions -> {"new", "asking", "clear", "deleted", "joining",
                               "connected", "rejected", "closed"}]
  /\ doc \in [Replicas -> {"none", "loading", "open"}]
  /\ dirty \in [Replicas -> BOOLEAN]
  /\ store \in [Replicas -> {"idle", "asking", "clear", "deleted", "putting"}]
  /\ over \subseteq Deletes
  /\ told \in [Deletes -> SUBSET Replicas]
  /\ late \subseteq Sessions
  /\ lateStores \subseteq Replicas
  /\ \A r \in Replicas : Connected(r) # {} \/ store[r] # "idle" => doc[r] = "open"

\* Once core-api has its 204, or any replica has acted on the notice, a
\* session that comes to whatever replica and asks is never let in while the
\* marker lives: not on an answer Redis gave before, not because Redis fails,
\* and not in the instant between the marker and the notice.
NewSessionsRejected ==
  \A s \in late : session[s] \notin {"clear", "joining", "connected"}

\* A store begun after that does not reach core-api, be it the one that the
\* closing of the room itself sets off: it would bring a deleted Document back.
DeletedNotStored ==
  \A r \in lateStores : store[r] \notin {"clear", "putting"}

\* Deleting a Document closes its room on every replica: core-api has its 204,
\* each replica has handled the notice, the marker is alive, and nobody is in
\* the room.
DeletedRoomIsEmpty ==
  \A d \in Deletes \ over :
    answer[d] = "204" /\ told[d] = Replicas => \A r \in Replicas : Connected(r) = {}

-----------------------------------------------------------------------------
\* A request to delete the room is answered even if Redis is silent, unless
\* the replica crashes.
DeleteAnswers == \A d \in Deletes : exec[d] # "new" ~> answer[d] # "none"

\* A session that is in the room when its replica gets the notice is closed,
\* unless the subscriber connection goes down before the notice is handled.
NoticeCloses ==
  \A r \in Replicas, s \in Sessions :
    (notices[r] # {} /\ s \in Connected(r)) ~> (session[s] = "closed" \/ ~subscribed[r])

\* No session hangs in authentication or in loading: it gets in or is refused,
\* though the Document may be opened and closed and opened again meanwhile.
SessionsDecided ==
  \A s \in Sessions :
    session[s] = "asking" ~> session[s] \in {"connected", "rejected", "closed"}

-----------------------------------------------------------------------------
(* The room implements RoomDeletion: a deletion is in force while somebody *)
(* knows of it and its marker is not over, and a store writes while its    *)
(* PUT is under way.                                                       *)
Inside == {s \in Sessions : session[s] = "connected"}

Writing == {r \in Replicas : store[r] = "putting"}

Abstract == INSTANCE RoomDeletion
  WITH Stores <- Replicas, inForce <- Known, barred <- late, barredStores <- lateStores,
       inside <- Inside, writing <- Writing

\* Every step of the replicas and of Redis is a step of RoomDeletion or
\* invisible to it: however the questions, the answers, the notices and the
\* timeouts interleave, it looks as if the deletion had come into force on all
\* replicas at once.
ImplementsRoomDeletion == Abstract!RoomSpec

=============================================================================
