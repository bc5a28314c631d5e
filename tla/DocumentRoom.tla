---------------------------- MODULE DocumentRoom ----------------------------
(***************************************************************************)
(* One Document Room of the collaboration server, on several replicas: how *)
(* Editing Sessions get in, how the Document is stored, and how deleting   *)
(* the Document closes the room.                                           *)
(*                                                                         *)
(* Redis holds the deletion marker and carries the notices to replicas.    *)
(* Every question to Redis is a step that sends it, a step in which Redis  *)
(* answers, and a step in which the replica goes on with an answer that    *)
(* may be out of date by then.  Hocuspocus (it keeps the documents of a    *)
(* replica, shares one load among the sessions that wait for it, and runs  *)
(* one store of a document at a time), Redis and core-api are not part of  *)
(* the repository: they are modelled from how server.ts and                *)
(* room-lifecycle.ts use them.                                             *)
(*                                                                         *)
(* `over', `told', `late' and `lateStores' only record history.            *)
(***************************************************************************)
EXTENDS FiniteSets

CONSTANTS
  Replicas,       \* the processes of the collaboration server
  Sessions,       \* Editing Sessions, one per attempt to authenticate
  Deletes,        \* DELETE .../room requests of core-api
  Home            \* the replica a session or a request goes to

ASSUME RoomAssumption ==
  /\ Sessions \cap Deletes = {}
  /\ Home \in [Sessions \cup Deletes -> Replicas]

VARIABLES
  marker,       \* the deletion key of the room exists in Redis
  subscribed,   \* the subscriber connection of a replica is subscribed
  notices,      \* deletions published to a replica and not handled there yet
  exec,         \* what became of the MULTI of a delete request
  answer,       \* the status a delete request was answered with
  session,      \* how far an Editing Session has come
  doc,          \* the Document on a replica: "none", "loading" or "open"
  dirty,        \* the Document has changes no store has been started for
  store,        \* the store of the Document under way on a replica
  over,         \* deletions whose marker is no longer guaranteed
  told,         \* told[d]: the replicas that handled the notice of d
  late,         \* sessions that asked while the room was known as deleted
  lateStores    \* replicas whose store began while it was

redisVars == <<marker, subscribed, notices>>
deleteVars == <<exec, answer>>
roomVars == <<session, doc, dirty, store>>
history == <<over, told, late, lateStores>>
vars == <<redisVars, deleteVars, roomVars, history>>

At(r) == {s \in Sessions : Home[s] = r}

Connected(r) == {s \in At(r) : session[s] = "connected"}

\* Deletions somebody has been told of: core-api by a 204, or a replica by the
\* notice of a transaction that went through; and the marker has not expired.
Known ==
  {d \in Deletes \ over : answer[d] = "204" \/ (exec[d] = "done" /\ told[d] # {})}

Init ==
  /\ marker = FALSE
  /\ subscribed = [r \in Replicas |-> FALSE]
  /\ notices = [r \in Replicas |-> {}]
  /\ exec = [d \in Deletes |-> "new"]
  /\ answer = [d \in Deletes |-> "none"]
  /\ session = [s \in Sessions |-> "new"]
  /\ doc = [r \in Replicas |-> "none"]
  /\ dirty = [r \in Replicas |-> FALSE]
  /\ store = [r \in Replicas |-> "idle"]
  /\ over = {}
  /\ told = [d \in Deletes |-> {}]
  /\ late = {}
  /\ lateStores = {}

-----------------------------------------------------------------------------
(* The deletion: RedisRoomLifecycle.delete and its HTTP handler.           *)

DeleteAsk(d) ==
  /\ exec[d] = "new"
  /\ exec' = [exec EXCEPT ![d] = "sent"]
  /\ UNCHANGED <<redisVars, answer, roomVars, history>>

\* Fault: no transaction; the notices can go out before the key is set.
RedisDeleteInTwoSteps(d, set, published) ==
  \/ /\ exec[d] = "sent"
     /\ exec' = [exec EXCEPT ![d] = IF set THEN "done" ELSE "failed"]
     /\ notices' = [r \in Replicas |-> IF subscribed[r] THEN notices[r] \cup {d} ELSE notices[r]]
     /\ UNCHANGED <<marker, subscribed, answer, roomVars, history>>
  \/ /\ exec[d] = "done"
     /\ marker' = TRUE
     /\ UNCHANGED <<subscribed, notices, deleteVars, roomVars, history>>

\* Redis executes the transaction, whoever still waits for it.  The marker and
\* the notices appear in one step; a command of the transaction may have an
\* error of its own, and a transaction that is aborted does neither.
RedisDelete(d, set, published) ==
  /\ exec[d] = "sent"
  /\ exec' = [exec EXCEPT ![d] = IF set /\ published THEN "done" ELSE "failed"]
  /\ marker' = (marker \/ set)
  /\ notices' = [r \in Replicas |->
                   IF published /\ subscribed[r] THEN notices[r] \cup {d} ELSE notices[r]]
  /\ UNCHANGED <<subscribed, answer, roomVars, history>>

\* Fault: the results of the single commands are not looked at.
DeleteAnsweredBlindly(d) ==
  /\ answer[d] = "none"
  /\ exec[d] \in {"done", "failed"}
  /\ answer' = [answer EXCEPT ![d] = "204"]
  /\ UNCHANGED <<redisVars, exec, roomVars, history>>

\* The answer to the transaction is in: 204, or 503 if any of it failed.
DeleteAnswered(d) ==
  /\ answer[d] = "none"
  /\ exec[d] \in {"done", "failed"}
  /\ answer' = [answer EXCEPT ![d] = IF exec[d] = "done" THEN "204" ELSE "503"]
  /\ UNCHANGED <<redisVars, exec, roomVars, history>>

\* Fault: a command has no timeout of its own.
DeleteTimesOutIfExecuted(d) ==
  /\ answer[d] = "none"
  /\ exec[d] \in {"done", "failed"}
  /\ answer' = [answer EXCEPT ![d] = "503"]
  /\ UNCHANGED <<redisVars, exec, roomVars, history>>

\* Fault: a timeout is taken for an answer.
DeleteTimesOutQuietly(d) ==
  /\ answer[d] = "none"
  /\ exec[d] # "new"
  /\ answer' = [answer EXCEPT ![d] = "204"]
  /\ UNCHANGED <<redisVars, exec, roomVars, history>>

\* The command timed out or the connection broke: 503, although the
\* transaction may have been executed or may be later.
DeleteTimesOut(d) ==
  /\ answer[d] = "none"
  /\ exec[d] # "new"
  /\ answer' = [answer EXCEPT ![d] = "503"]
  /\ UNCHANGED <<redisVars, exec, roomVars, history>>

\* The marker's time to live has passed (or Redis lost it).
Expire ==
  /\ marker
  /\ marker' = FALSE
  /\ over' = over \cup {d \in Deletes : exec[d] = "done"}
  /\ late' = {s \in late : session[s] # "asking"}
  /\ lateStores' = {r \in lateStores : store[r] # "asking"}
  /\ UNCHANGED <<subscribed, notices, deleteVars, roomVars, told>>

-----------------------------------------------------------------------------
(* The subscriber connection.  A notice published while it is down, or not *)
(* yet up after listen, is lost.                                           *)

Subscribe(r) ==
  /\ ~subscribed[r]
  /\ subscribed' = [subscribed EXCEPT ![r] = TRUE]
  /\ UNCHANGED <<marker, notices, deleteVars, roomVars, history>>

ConnectionLost(r) ==
  /\ subscribed[r]
  /\ subscribed' = [subscribed EXCEPT ![r] = FALSE]
  /\ notices' = [notices EXCEPT ![r] = {}]
  /\ UNCHANGED <<marker, deleteVars, roomVars, history>>

\* Fault: the peers are told that the Document is gone and stay connected.
TerminateRoomTellsOnly(r, d) ==
  /\ d \in notices[r]
  /\ notices' = [notices EXCEPT ![r] = @ \ {d}]
  /\ told' = [told EXCEPT ![d] = @ \cup {r}]
  /\ UNCHANGED <<marker, subscribed, deleteVars, roomVars, over, late, lateStores>>

\* A notice arrives: every connection of the Document is told and closed.
\* Sessions still loading have no connection yet and are not touched.
TerminateRoom(r, d) ==
  /\ d \in notices[r]
  /\ notices' = [notices EXCEPT ![r] = @ \ {d}]
  /\ session' = [s \in Sessions |-> IF s \in Connected(r) THEN "closed" ELSE session[s]]
  /\ told' = [told EXCEPT ![d] = @ \cup {r}]
  /\ UNCHANGED <<marker, subscribed, deleteVars, doc, dirty, store, over, late, lateStores>>

-----------------------------------------------------------------------------
(* onAuthenticate.                                                         *)

AuthAsk(s) ==
  /\ session[s] = "new"
  /\ session' = [session EXCEPT ![s] = "asking"]
  /\ late' = IF Known # {} THEN late \cup {s} ELSE late
  /\ UNCHANGED <<redisVars, deleteVars, doc, dirty, store, over, told, lateStores>>

RedisAnswersSession(s) ==
  /\ session[s] = "asking"
  /\ session' = [session EXCEPT ![s] = IF marker THEN "deleted" ELSE "clear"]
  /\ UNCHANGED <<redisVars, deleteVars, doc, dirty, store, history>>

\* The question failed: no connection to Redis, or no answer in time.
RedisFailsSession(s) ==
  /\ session[s] = "asking"
  /\ session' = [session EXCEPT ![s] = "rejected"]
  /\ UNCHANGED <<redisVars, deleteVars, doc, dirty, store, history>>

\* Whether the room name, the origin and the ticket are good is decided only
\* now; a session that is let in waits for the Document.
AuthResume(s, good) ==
  /\ session[s] \in {"clear", "deleted"}
  /\ session' = [session EXCEPT
       ![s] = IF session[s] = "clear" /\ good THEN "joining" ELSE "rejected"]
  /\ UNCHANGED <<redisVars, deleteVars, doc, dirty, store, history>>

-----------------------------------------------------------------------------
(* Opening the Document and editing it.                                    *)

LoadStart(r) ==
  /\ doc[r] = "none"
  /\ \E s \in At(r) : session[s] = "joining"
  /\ doc' = [doc EXCEPT ![r] = "loading"]
  /\ UNCHANGED <<redisVars, deleteVars, session, dirty, store, history>>

LoadSucceeds(r) ==
  /\ doc[r] = "loading"
  /\ doc' = [doc EXCEPT ![r] = "open"]
  /\ UNCHANGED <<redisVars, deleteVars, session, dirty, store, history>>

\* Fault: those who waited for a load that failed go on waiting.
LoadFailsAlone(r) ==
  /\ doc[r] = "loading"
  /\ doc' = [doc EXCEPT ![r] = "none"]
  /\ UNCHANGED <<redisVars, deleteVars, session, dirty, store, history>>

\* The load failed, timed out or was too large: all who waited are turned away.
LoadFails(r) ==
  /\ doc[r] = "loading"
  /\ doc' = [doc EXCEPT ![r] = "none"]
  /\ session' = [s \in Sessions |->
       IF s \in At(r) /\ session[s] = "joining" THEN "rejected" ELSE session[s]]
  /\ UNCHANGED <<redisVars, deleteVars, dirty, store, history>>

Enter(s) ==
  /\ session[s] = "joining"
  /\ doc[Home[s]] = "open"
  /\ session' = [session EXCEPT ![s] = "connected"]
  /\ UNCHANGED <<redisVars, deleteVars, doc, dirty, store, history>>

Edit(s) ==
  /\ session[s] = "connected"
  /\ dirty' = [dirty EXCEPT ![Home[s]] = TRUE]
  /\ UNCHANGED <<redisVars, deleteVars, session, doc, store, history>>

\* The peer leaves, or a resource limit closes its connection.
Leave(s) ==
  /\ session[s] \in {"asking", "clear", "deleted", "joining", "connected"}
  /\ session' = [session EXCEPT ![s] = "closed"]
  /\ UNCHANGED <<redisVars, deleteVars, doc, dirty, store, history>>

-----------------------------------------------------------------------------
(* onStoreDocument, started after a quiet time or when the last session    *)
(* has left.                                                               *)

StoreBegin(r) ==
  /\ doc[r] = "open"
  /\ dirty[r]
  /\ store[r] = "idle"
  /\ store' = [store EXCEPT ![r] = "asking"]
  /\ dirty' = [dirty EXCEPT ![r] = FALSE]
  /\ lateStores' = IF Known # {} THEN lateStores \cup {r} ELSE lateStores
  /\ UNCHANGED <<redisVars, deleteVars, session, doc, over, told, late>>

RedisAnswersStore(r) ==
  /\ store[r] = "asking"
  /\ store' = [store EXCEPT ![r] = IF marker THEN "deleted" ELSE "clear"]
  /\ UNCHANGED <<redisVars, deleteVars, session, doc, dirty, history>>

\* A deleted Document is not stored, and that is not a failure.
StoreResume(r) ==
  /\ store[r] \in {"clear", "deleted"}
  /\ store' = [store EXCEPT ![r] = IF store[r] = "clear" THEN "putting" ELSE "idle"]
  /\ lateStores' = IF store[r] = "clear" THEN lateStores ELSE lateStores \ {r}
  /\ UNCHANGED <<redisVars, deleteVars, session, doc, dirty, over, told, late>>

StoreSucceeds(r) ==
  /\ store[r] = "putting"
  /\ store' = [store EXCEPT ![r] = "idle"]
  /\ lateStores' = lateStores \ {r}
  /\ UNCHANGED <<redisVars, deleteVars, session, doc, dirty, over, told, late>>

\* Redis or core-api failed, or the Document is too large; whether Hocuspocus tries again is its business.
StoreFails(r, again) ==
  /\ store[r] \in {"asking", "clear", "putting"}
  /\ store' = [store EXCEPT ![r] = "idle"]
  /\ dirty' = [dirty EXCEPT ![r] = @ \/ again]
  /\ lateStores' = lateStores \ {r}
  /\ UNCHANGED <<redisVars, deleteVars, session, doc, over, told, late>>

\* Fault: the Document is unloaded after a store, whoever has come meanwhile.
UnloadWhileConnected(r) ==
  /\ doc[r] = "open"
  /\ store[r] = "idle"
  /\ ~dirty[r]
  /\ doc' = [doc EXCEPT ![r] = "none"]
  /\ UNCHANGED <<redisVars, deleteVars, session, dirty, store, history>>

\* Hocuspocus drops a Document that nobody is connected to.
Unload(r) ==
  /\ doc[r] = "open"
  /\ Connected(r) = {}
  /\ store[r] = "idle"
  /\ ~dirty[r]
  /\ doc' = [doc EXCEPT ![r] = "none"]
  /\ UNCHANGED <<redisVars, deleteVars, session, dirty, store, history>>

-----------------------------------------------------------------------------
(* A replica crashes and starts again with nothing; what it has sent to    *)
(* Redis may still be executed.                                            *)
Crash(r) ==
  /\ subscribed' = [subscribed EXCEPT ![r] = FALSE]
  /\ notices' = [notices EXCEPT ![r] = {}]
  /\ session' = [s \in Sessions |->
       IF s \in At(r) /\ session[s] # "new" THEN "closed" ELSE session[s]]
  /\ answer' = [d \in Deletes |->
       IF Home[d] = r /\ exec[d] # "new" /\ answer[d] = "none" THEN "lost" ELSE answer[d]]
  /\ doc' = [doc EXCEPT ![r] = "none"]
  /\ dirty' = [dirty EXCEPT ![r] = FALSE]
  /\ store' = [store EXCEPT ![r] = "idle"]
  /\ lateStores' = lateStores \ {r}
  /\ UNCHANGED <<marker, exec, over, told, late>>

Deletion(d) ==
  \/ DeleteAsk(d) \/ DeleteAnswered(d) \/ DeleteTimesOut(d)
  \/ \E set, published \in BOOLEAN : RedisDelete(d, set, published)
  \/ \E r \in Replicas : TerminateRoom(r, d)

Join(s) ==
  \/ AuthAsk(s) \/ RedisAnswersSession(s) \/ RedisFailsSession(s)
  \/ \E good \in BOOLEAN : AuthResume(s, good)
  \/ Enter(s) \/ Edit(s) \/ Leave(s)

Replica(r) ==
  \/ Subscribe(r) \/ ConnectionLost(r) \/ Crash(r)
  \/ LoadStart(r) \/ LoadSucceeds(r) \/ LoadFails(r) \/ Unload(r)
  \/ StoreBegin(r) \/ RedisAnswersStore(r) \/ StoreResume(r) \/ StoreSucceeds(r)
  \/ \E again \in BOOLEAN : StoreFails(r, again)

Next ==
  \/ \E d \in Deletes : Deletion(d)
  \/ \E s \in Sessions : Join(s)
  \/ \E r \in Replicas : Replica(r)
  \/ Expire

Spec == Init /\ [][Next]_vars

-----------------------------------------------------------------------------
(* Fairness.  Every question to Redis is answered, or fails after the      *)
(* command timeout; every request to core-api ends within its own timeout; *)
(* an event loop gets round to what is ready; Hocuspocus connects a        *)
(* session whose Document is open.  Redis need not execute anything, and   *)
(* no peer, no crash and no connection is made to do anything.             *)
Fairness ==
  /\ \A d \in Deletes :
       /\ WF_vars(DeleteAnswered(d) \/ DeleteTimesOut(d))
       /\ \A r \in Replicas : WF_vars(TerminateRoom(r, d))
  /\ \A s \in Sessions :
       /\ WF_vars(RedisAnswersSession(s) \/ RedisFailsSession(s))
       /\ WF_vars(\E good \in BOOLEAN : AuthResume(s, good))
       /\ SF_vars(Enter(s))
  /\ \A r \in Replicas :
       /\ WF_vars(LoadStart(r))
       /\ WF_vars(LoadSucceeds(r) \/ LoadFails(r))

FairSpec == Spec /\ Fairness

=============================================================================
