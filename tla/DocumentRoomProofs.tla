-------------------------- MODULE DocumentRoomProofs ------------------------
(***************************************************************************)
(* Proofs about the Document Room, for any replicas, sessions and delete   *)
(* requests: once a deletion is known, new sessions stay out and nothing   *)
(* is stored while the marker lives.                                       *)
(***************************************************************************)
EXTENDS DocumentRoomProps, TLAPS

-----------------------------------------------------------------------------
(* Type correctness.                                                       *)

\* The parts of TypeOK, so that a step cites only what it disturbs.
Types ==
  /\ marker \in BOOLEAN
  /\ subscribed \in [Replicas -> BOOLEAN]
  /\ notices \in [Replicas -> SUBSET Deletes]
  /\ exec \in [Deletes -> {"new", "sent", "done", "failed"}]
  /\ answer \in [Deletes -> {"none", "204", "503", "lost"}]
  /\ session \in [Sessions -> {"new", "asking", "clear", "deleted", "joining",
                               "connected", "rejected", "closed"}]
  /\ doc \in [Replicas -> {"none", "loading", "open"}]
  /\ dirty \in [Replicas -> BOOLEAN]
  /\ store \in [Replicas -> {"idle", "asking", "clear", "deleted", "putting"}]
  /\ over \subseteq Deletes
  /\ told \in [Deletes -> SUBSET Replicas]
  /\ late \subseteq Sessions
  /\ lateStores \subseteq Replicas

RoomIsOpen ==
  \A r \in Replicas : Connected(r) # {} \/ store[r] # "idle" => doc[r] = "open"

LEMMA TypeParts == TypeOK <=> Types /\ RoomIsOpen
BY DEF TypeOK, Types, RoomIsOpen

LEMMA InitTypeOK == Init => TypeOK
<1> SUFFICES ASSUME Init PROVE Types /\ RoomIsOpen
  BY TypeParts
<1>1. Types
  BY DEF Init, Types
<1>2. RoomIsOpen
  BY RoomAssumption DEF Init, RoomIsOpen, Connected, At
<1> QED
  BY <1>1, <1>2

LEMMA NextTypeOK == TypeOK /\ [Next]_vars => TypeOK'
<1> SUFFICES ASSUME Types, RoomIsOpen, [Next]_vars PROVE Types' /\ RoomIsOpen'
  BY TypeParts, PTL
<1> USE RoomAssumption DEF Types
<1> DEFINE Inv == Types /\ RoomIsOpen
<1>1. ASSUME UNCHANGED <<session, doc, store>> PROVE RoomIsOpen'
  BY <1>1 DEF RoomIsOpen, Connected, At
<1>2. ASSUME NEW d \in Deletes, Deletion(d) PROVE Inv'
  <2>1. CASE DeleteAsk(d) \/ DeleteAnswered(d) \/ DeleteTimesOut(d)
    BY <2>1, <1>1 DEF DeleteAsk, DeleteAnswered, DeleteTimesOut, redisVars, roomVars, history
  <2>2. ASSUME NEW set \in BOOLEAN, NEW published \in BOOLEAN, RedisDelete(d, set, published)
        PROVE  Inv'
    BY <2>2, <1>1 DEF RedisDelete, roomVars, history
  <2>3. ASSUME NEW r \in Replicas, TerminateRoom(r, d) PROVE Inv'
    <3>1. Types'
      BY <2>3 DEF TerminateRoom, deleteVars
    <3>2. \A q \in Replicas : Connected(q)' \subseteq Connected(q)
      BY <2>3 DEF TerminateRoom, Connected, At
    <3>3. RoomIsOpen'
      BY <2>3, <3>2 DEF TerminateRoom, RoomIsOpen
    <3> QED
      BY <3>1, <3>3
  <2> QED
    BY <1>2, <2>1, <2>2, <2>3 DEF Deletion
<1>3. ASSUME NEW s \in Sessions, Join(s) PROVE Inv'
  <2>1. CASE Enter(s)
    <3>1. Types'
      BY <2>1 DEF Enter, redisVars, deleteVars, history
    <3>2. \A r \in Replicas : Connected(r)' \subseteq Connected(r) \cup (IF r = Home[s] THEN {s} ELSE {})
      BY <2>1 DEF Enter, Connected, At
    <3>3. doc[Home[s]] = "open" /\ UNCHANGED <<doc, store>>
      BY <2>1 DEF Enter
    <3>4. RoomIsOpen'
      BY <3>2, <3>3 DEF RoomIsOpen
    <3> QED
      BY <3>1, <3>4
  <2>2. CASE Edit(s)
    BY <2>2, <1>1 DEF Edit, redisVars, deleteVars, history
  <2>3. ASSUME NEW good \in BOOLEAN,
               AuthAsk(s) \/ RedisAnswersSession(s) \/ RedisFailsSession(s)
                 \/ AuthResume(s, good) \/ Leave(s)
        PROVE  Inv'
    <3>1. Types'
      BY <2>3 DEF AuthAsk, RedisAnswersSession, RedisFailsSession, AuthResume, Leave,
                  redisVars, deleteVars, history
    <3>2. \A r \in Replicas : Connected(r)' \subseteq Connected(r)
      BY <2>3 DEF AuthAsk, RedisAnswersSession, RedisFailsSession, AuthResume, Leave,
                  Connected, At
    <3>3. UNCHANGED <<doc, store>>
      BY <2>3 DEF AuthAsk, RedisAnswersSession, RedisFailsSession, AuthResume, Leave
    <3>4. RoomIsOpen'
      BY <3>2, <3>3 DEF RoomIsOpen
    <3> QED
      BY <3>1, <3>4
  <2> QED
    BY <1>3, <2>1, <2>2, <2>3 DEF Join
<1>4. ASSUME NEW r \in Replicas, Replica(r) PROVE Inv'
  <2>1. CASE Subscribe(r) \/ ConnectionLost(r)
    BY <2>1, <1>1 DEF Subscribe, ConnectionLost, deleteVars, roomVars, history
  <2>2. CASE Crash(r)
    <3>1. Types'
      BY <2>2 DEF Crash
    <3>2. \A q \in Replicas : /\ Connected(q)' \subseteq Connected(q)
                              /\ q = r => Connected(q)' = {}
      BY <2>2 DEF Crash, Connected, At
    <3>3. RoomIsOpen'
      BY <2>2, <3>2 DEF Crash, RoomIsOpen
    <3> QED
      BY <3>1, <3>3
  <2>3. CASE LoadStart(r) \/ LoadSucceeds(r) \/ Unload(r)
    <3>1. Types' /\ UNCHANGED <<session, store>>
      BY <2>3 DEF LoadStart, LoadSucceeds, Unload, redisVars, deleteVars, history
    <3>2. \A q \in Replicas : Connected(q)' = Connected(q)
      BY <3>1 DEF Connected, At
    <3>3. RoomIsOpen'
      BY <2>3, <3>1, <3>2 DEF RoomIsOpen, LoadStart, LoadSucceeds, Unload
    <3> QED
      BY <3>1, <3>3
  <2>4. CASE LoadFails(r)
    <3>1. Types'
      BY <2>4 DEF LoadFails, redisVars, deleteVars, history
    <3>2. \A q \in Replicas : Connected(q)' \subseteq Connected(q)
      BY <2>4 DEF LoadFails, Connected, At
    <3>3. RoomIsOpen'
      BY <2>4, <3>2 DEF LoadFails, RoomIsOpen
    <3> QED
      BY <3>1, <3>3
  <2>5. ASSUME NEW again \in BOOLEAN,
               StoreBegin(r) \/ RedisAnswersStore(r) \/ StoreResume(r) \/ StoreSucceeds(r)
                 \/ StoreFails(r, again)
        PROVE  Inv'
    <3>1. Types'
      BY <2>5 DEF StoreBegin, RedisAnswersStore, StoreResume, StoreSucceeds, StoreFails,
                  redisVars, deleteVars, history
    <3>2. UNCHANGED <<session, doc>>
      BY <2>5 DEF StoreBegin, RedisAnswersStore, StoreResume, StoreSucceeds, StoreFails
    <3>3. \A q \in Replicas : store'[q] # "idle" => store[q] # "idle" \/ (q = r /\ doc[q] = "open")
      BY <2>5 DEF StoreBegin, RedisAnswersStore, StoreResume, StoreSucceeds, StoreFails
    <3>4. \A q \in Replicas : Connected(q)' = Connected(q)
      BY <3>2 DEF Connected, At
    <3>5. RoomIsOpen'
      BY <3>2, <3>3, <3>4 DEF RoomIsOpen
    <3> QED
      BY <3>1, <3>5
  <2> QED
    BY <1>4, <2>1, <2>2, <2>3, <2>4, <2>5 DEF Replica
<1>5. CASE Expire
  BY <1>5, <1>1 DEF Expire, deleteVars, roomVars
<1>6. CASE UNCHANGED vars
  BY <1>6, <1>1 DEF vars, redisVars, deleteVars, roomVars, history
<1> QED
  BY <1>2, <1>3, <1>4, <1>5, <1>6 DEF Next

\* The types are right in every reachable state, and nobody is connected to a
\* Document that is not open.
THEOREM TypeCorrect == Spec => []TypeOK
BY InitTypeOK, NextTypeOK, PTL DEF Spec

-----------------------------------------------------------------------------
(* Deletion.  The marker is there from the step in which Redis executes    *)
(* the transaction until it expires, so it is there when anybody can know  *)
(* of the deletion; and a question asked while it is known is answered     *)
(* while the marker lives, or the marker has expired and nothing is        *)
(* promised any more.                                                      *)

Marked == \A d \in Deletes \ over : exec[d] = "done" => marker

Acknowledged == \A d \in Deletes : answer[d] = "204" => exec[d] = "done"

LateSessions ==
  \A s \in late : /\ session[s] \notin {"new", "clear", "joining", "connected"}
                  /\ session[s] = "asking" => marker

LateStores ==
  \A r \in lateStores : /\ store[r] \notin {"idle", "clear", "putting"}
                        /\ store[r] = "asking" => marker

DeletionInv == TypeOK /\ Marked /\ Acknowledged /\ LateSessions /\ LateStores

LEMMA KnownMarked == DeletionInv /\ Known # {} => marker
BY DEF DeletionInv, Known, Marked, Acknowledged

LEMMA InitDeletionInv == Init => DeletionInv
BY InitTypeOK DEF Init, DeletionInv, Marked, Acknowledged, LateSessions, LateStores

LEMMA NextDeletionInv == DeletionInv /\ [Next]_vars => DeletionInv'
<1> SUFFICES ASSUME DeletionInv, [Next]_vars PROVE DeletionInv'
  OBVIOUS
<1>0. TypeOK' /\ Types /\ late' \subseteq Sessions /\ lateStores' \subseteq Replicas
  BY NextTypeOK, TypeParts DEF DeletionInv, TypeOK
<1> USE DEF DeletionInv
<1> DEFINE Rest == Marked /\ Acknowledged /\ LateSessions /\ LateStores
<1>1. ASSUME UNCHANGED <<marker, exec, answer, over>>, LateSessions', LateStores' PROVE Rest'
  BY <1>1 DEF Marked, Acknowledged
<1>2. ASSUME UNCHANGED <<marker, late, lateStores, session, store>>
      PROVE  LateSessions' /\ LateStores'
  BY <1>2 DEF LateSessions, LateStores
<1>3. ASSUME NEW d \in Deletes, Deletion(d) PROVE Rest'
  <2>1. CASE DeleteAsk(d)
    <3>1. UNCHANGED <<marker, answer, over, late, lateStores, session, store>>
      BY <2>1 DEF DeleteAsk, redisVars, roomVars, history
    <3>2. Marked' /\ Acknowledged'
      BY <1>0, <2>1, <3>1 DEF DeleteAsk, Marked, Acknowledged, Types
    <3> QED
      BY <1>2, <3>1, <3>2
  <2>2. ASSUME NEW set \in BOOLEAN, NEW published \in BOOLEAN, RedisDelete(d, set, published)
        PROVE  Rest'
    <3>1. UNCHANGED <<answer, over, late, lateStores, session, store>> /\ (marker => marker')
      BY <2>2 DEF RedisDelete, roomVars, history
    <3>2. Marked' /\ Acknowledged'
      BY <1>0, <2>2, <3>1 DEF RedisDelete, Marked, Acknowledged, Types
    <3>3. LateSessions' /\ LateStores'
      BY <3>1 DEF LateSessions, LateStores
    <3> QED
      BY <3>2, <3>3
  <2>3. CASE DeleteAnswered(d) \/ DeleteTimesOut(d)
    <3>1. UNCHANGED <<marker, exec, over, late, lateStores, session, store>>
      BY <2>3 DEF DeleteAnswered, DeleteTimesOut, redisVars, roomVars, history
    <3>2. Marked' /\ Acknowledged'
      BY <1>0, <2>3, <3>1 DEF DeleteAnswered, DeleteTimesOut, Marked, Acknowledged, Types
    <3> QED
      BY <1>2, <3>1, <3>2
  <2>4. ASSUME NEW r \in Replicas, TerminateRoom(r, d) PROVE Rest'
    <3>1. UNCHANGED <<marker, exec, answer, over, late, lateStores, store>>
      BY <2>4 DEF TerminateRoom, deleteVars
    <3>2. \A s \in Sessions : session'[s] = session[s] \/ session'[s] = "closed"
      BY <2>4 DEF TerminateRoom
    <3>3. LateSessions' /\ LateStores'
      BY <1>0, <3>1, <3>2 DEF LateSessions, LateStores, Types
    <3> QED
      BY <1>1, <3>1, <3>3
  <2> QED
    BY <1>3, <2>1, <2>2, <2>3, <2>4 DEF Deletion
<1>4. ASSUME NEW s \in Sessions, Join(s) PROVE Rest'
  <2>1. UNCHANGED <<marker, exec, answer, over, lateStores, store>>
    BY <1>4 DEF Join, AuthAsk, RedisAnswersSession, RedisFailsSession, AuthResume, Enter,
                Edit, Leave, redisVars, deleteVars, history
  <2>2. LateStores'
    BY <2>1 DEF LateStores
  <2>3. \A x \in Sessions : x # s => session'[x] = session[x] /\ (x \in late' <=> x \in late)
    BY <1>0, <1>4 DEF Join, AuthAsk, RedisAnswersSession, RedisFailsSession, AuthResume, Enter,
                Edit, Leave, history, Types
  <2>4. s \in late' => /\ session'[s] \notin {"new", "clear", "joining", "connected"}
                       /\ session'[s] = "asking" => marker
    <3>1. CASE AuthAsk(s)
      <4>1. s \in late => FALSE
        BY <3>1 DEF AuthAsk, LateSessions
      <4>2. s \in late' => marker
        BY <3>1, <4>1, KnownMarked DEF AuthAsk
      <4> QED
        BY <1>0, <3>1, <4>2 DEF AuthAsk, Types
    <3>2. CASE RedisAnswersSession(s) \/ RedisFailsSession(s) \/ Enter(s) \/ Edit(s) \/ Leave(s)
      BY <1>0, <3>2 DEF RedisAnswersSession, RedisFailsSession, Enter, Edit, Leave, history,
                  LateSessions, Types
    <3>3. ASSUME NEW good \in BOOLEAN, AuthResume(s, good)
          PROVE s \in late' => session'[s] \notin {"new", "clear", "joining", "connected", "asking"}
      BY <1>0, <3>3 DEF AuthResume, history, LateSessions, Types
    <3> QED
      BY <1>4, <3>1, <3>2, <3>3 DEF Join
  <2>5. LateSessions'
    BY <1>0, <2>1, <2>3, <2>4 DEF LateSessions, Types
  <2> QED
    BY <1>1, <2>1, <2>2, <2>5
<1>5. ASSUME NEW r \in Replicas, Replica(r) PROVE Rest'
  <2>1. UNCHANGED <<marker, exec, over, late>> /\ \A d \in Deletes : answer'[d] = "204" => answer[d] = "204"
    BY <1>5 DEF Replica, Subscribe, ConnectionLost, Crash, LoadStart, LoadSucceeds, LoadFails,
                Unload, StoreBegin, RedisAnswersStore, StoreResume, StoreSucceeds, StoreFails,
                redisVars, deleteVars, history
  <2>2. Marked' /\ Acknowledged'
    BY <2>1 DEF Marked, Acknowledged
  <2>3. \A s \in Sessions : session'[s] = session[s] \/ session'[s] \in {"closed", "rejected"}
    BY <1>5 DEF Replica, Subscribe, ConnectionLost, Crash, LoadStart, LoadSucceeds, LoadFails,
                Unload, StoreBegin, RedisAnswersStore, StoreResume, StoreSucceeds, StoreFails,
                roomVars
  <2>4. LateSessions'
    BY <1>0, <2>1, <2>3 DEF LateSessions, Types
  <2>5. \A q \in Replicas : q # r => store'[q] = store[q] /\ (q \in lateStores' <=> q \in lateStores)
    BY <1>0, <1>5 DEF Replica, Subscribe, ConnectionLost, Crash, LoadStart, LoadSucceeds, LoadFails,
                Unload, StoreBegin, RedisAnswersStore, StoreResume, StoreSucceeds, StoreFails,
                roomVars, history, Types
  <2>6. r \in lateStores' => /\ store'[r] \notin {"idle", "clear", "putting"}
                             /\ store'[r] = "asking" => marker
    <3>1. CASE StoreBegin(r)
      <4>1. r \in lateStores' => marker
        BY <3>1, KnownMarked DEF StoreBegin, LateStores, Types
      <4> QED
        BY <1>0, <3>1, <4>1 DEF StoreBegin, Types
    <3>2. CASE RedisAnswersStore(r) \/ StoreResume(r)
      BY <1>0, <3>2 DEF RedisAnswersStore, StoreResume, history, LateStores, Types
    <3>3. CASE Subscribe(r) \/ ConnectionLost(r) \/ LoadStart(r) \/ LoadSucceeds(r) \/ LoadFails(r) \/ Unload(r)
      BY <3>3 DEF Subscribe, ConnectionLost, LoadStart, LoadSucceeds, LoadFails, Unload,
                  roomVars, history, LateStores
    <3>4. CASE Crash(r) \/ StoreSucceeds(r) \/ \E again \in BOOLEAN : StoreFails(r, again)
      BY <3>4 DEF Crash, StoreSucceeds, StoreFails
    <3> QED
      BY <1>5, <3>1, <3>2, <3>3, <3>4 DEF Replica
  <2>7. LateStores'
    BY <1>0, <2>1, <2>5, <2>6 DEF LateStores, Types
  <2> QED
    BY <2>2, <2>4, <2>7
<1>6. ASSUME Expire PROVE Rest'
  <2>1. UNCHANGED <<exec, answer, session, store>> /\ over' = over \cup {d \in Deletes : exec[d] = "done"}
    BY <1>6 DEF Expire, deleteVars, roomVars
  <2>2. Marked' /\ Acknowledged'
    BY <2>1 DEF Marked, Acknowledged
  <2>3. LateSessions' /\ LateStores'
    BY <1>6, <2>1 DEF Expire, LateSessions, LateStores
  <2> QED
    BY <2>2, <2>3
<1>7. ASSUME UNCHANGED vars PROVE Rest'
  BY <1>7, <1>1, <1>2 DEF vars, redisVars, deleteVars, roomVars, history
<1>8. Rest'
  BY <1>3, <1>4, <1>5, <1>6, <1>7 DEF Next
<1> QED
  BY <1>0, <1>8

\* DeletionInv is an invariant of the room.
THEOREM DeletionInvariant == Spec => []DeletionInv
BY InitDeletionInv, NextDeletionInv, PTL DEF Spec

\* Once a deletion is known to anybody, whoever comes after is kept out on
\* every replica while the marker lives, for any number of replicas, sessions
\* and repeated deletions.
THEOREM NewSessionsRejectedHolds == Spec => []NewSessionsRejected
<1>1. DeletionInv => NewSessionsRejected
  BY DEF DeletionInv, LateSessions, NewSessionsRejected
<1> QED
  BY <1>1, DeletionInvariant, PTL

\* A store begun once a deletion is known never reaches core-api while the
\* marker lives.
THEOREM DeletedNotStoredHolds == Spec => []DeletedNotStored
<1>1. DeletionInv => DeletedNotStored
  BY DEF DeletionInv, LateStores, DeletedNotStored
<1> QED
  BY <1>1, DeletionInvariant, PTL

-----------------------------------------------------------------------------
(* The room implements RoomDeletion.                                       *)

LEMMA InitRefines == Init => Abstract!RoomInit
BY DEF Init, Abstract!RoomInit, Known, Inside, Writing

\* What RoomDeletion sees of a step, by what the step leaves alone.
LEMMA KnownStays ==
  ASSUME \A d \in Deletes : /\ answer'[d] = "204" <=> answer[d] = "204"
                            /\ exec'[d] = "done" <=> exec[d] = "done"
                            /\ told'[d] = told[d],
         over' = over
  PROVE  Known' = Known
BY DEF Known

LEMMA InsideStays == ASSUME session' = session PROVE Inside' = Inside
BY DEF Inside

LEMMA WritingStays == ASSUME store' = store PROVE Writing' = Writing
BY DEF Writing

\* A step of a deletion: it may come into force with it.
LEMMA DeletionRefines ==
  ASSUME DeletionInv, NEW d \in Deletes, Deletion(d)
  PROVE  Abstract!RoomNext \/ UNCHANGED Abstract!roomVars
<1>1. Types
  BY TypeParts DEF DeletionInv
<1>2. UNCHANGED <<over, late, lateStores, store>>
  BY DEF Deletion, DeleteAsk, DeleteAnswered, DeleteTimesOut, RedisDelete, TerminateRoom,
         roomVars, history
<1>3. Writing' = Writing
  BY <1>2, WritingStays
<1>4. Known' = Known \/ Known' = Known \cup {d}
  <2>1. \A x \in Deletes : x # d => /\ answer'[x] = answer[x] /\ exec'[x] = exec[x]
                                    /\ told'[x] = told[x]
    BY <1>1 DEF Deletion, DeleteAsk, DeleteAnswered, DeleteTimesOut, RedisDelete, TerminateRoom,
                deleteVars, history, Types
  <2>2. \A x \in Deletes : x # d => (x \in Known' <=> x \in Known)
    BY <1>2, <2>1 DEF Known
  <2>3. d \in Known => d \in Known'
    <3>1. answer[d] = "204" => answer'[d] = "204"
      BY <1>1 DEF Deletion, DeleteAsk, DeleteAnswered, DeleteTimesOut, RedisDelete, TerminateRoom,
                  deleteVars, Types
    <3>2. exec[d] = "done" => exec'[d] = "done"
      BY <1>1 DEF Deletion, DeleteAsk, DeleteAnswered, DeleteTimesOut, RedisDelete, TerminateRoom,
                  deleteVars, Types
    <3>3. told[d] # {} => told'[d] # {}
      BY <1>1 DEF Deletion, DeleteAsk, DeleteAnswered, DeleteTimesOut, RedisDelete, TerminateRoom,
                  history, Types
    <3> QED
      BY <1>2, <3>1, <3>2, <3>3 DEF Known
  <2>4. Known \subseteq Deletes /\ Known' \subseteq Deletes
    BY DEF Known
  <2> QED
    BY <2>2, <2>3, <2>4
<1>5. PICK out \in SUBSET Sessions : Inside' = Inside \ out
  <2>1. CASE session' = session
    <3>1. Inside' = Inside \ {}
      BY <2>1, InsideStays
    <3> QED
      BY <3>1
  <2>2. ASSUME NEW r \in Replicas, TerminateRoom(r, d)
        PROVE  \E out \in SUBSET Sessions : Inside' = Inside \ out
    <3>1. Inside' = Inside \ Connected(r) /\ Connected(r) \in SUBSET Sessions
      BY <2>2 DEF TerminateRoom, Inside, Connected, At
    <3> QED
      BY <3>1
  <2> QED
    BY <2>1, <2>2 DEF Deletion, DeleteAsk, DeleteAnswered, DeleteTimesOut, RedisDelete, roomVars
<1>6. CASE Known' = Known
  <2>1. Abstract!Stop(out, {})
    BY <1>2, <1>3, <1>5, <1>6 DEF Abstract!Stop
  <2> QED
    BY <2>1 DEF Abstract!RoomNext
<1>7. CASE Known' = Known \cup {d}
  <2>1. Abstract!Announce(d, out)
    BY <1>2, <1>3, <1>5, <1>7 DEF Abstract!Announce
  <2> QED
    BY <2>1 DEF Abstract!RoomNext
<1> QED
  BY <1>4, <1>6, <1>7

\* A step of a session: it comes, gets in or leaves.
LEMMA JoinRefines ==
  ASSUME DeletionInv, NEW s \in Sessions, Join(s)
  PROVE  Abstract!RoomNext \/ UNCHANGED Abstract!roomVars
<1>1. Types
  BY TypeParts DEF DeletionInv
<1>2. UNCHANGED <<answer, exec, told, over, lateStores, store>>
  BY DEF Join, AuthAsk, RedisAnswersSession, RedisFailsSession, AuthResume, Enter, Edit, Leave,
         deleteVars, history
<1>3. Known' = Known /\ Writing' = Writing
  BY <1>2, KnownStays, WritingStays
<1>4. CASE AuthAsk(s)
  <2>1. Inside' = Inside
    BY <1>1, <1>4 DEF AuthAsk, Inside, Types
  <2>2. CASE Known # {}
    <3>1. Abstract!Come(s)
      BY <1>2, <1>3, <1>4, <2>1, <2>2 DEF AuthAsk, Abstract!Come
    <3> QED
      BY <3>1 DEF Abstract!RoomNext
  <2>3. CASE Known = {}
    BY <1>2, <1>3, <1>4, <2>1, <2>3 DEF AuthAsk, Abstract!roomVars
  <2> QED
    BY <2>2, <2>3
<1>5. ASSUME NEW good \in BOOLEAN,
             RedisAnswersSession(s) \/ RedisFailsSession(s) \/ AuthResume(s, good) \/ Edit(s)
      PROVE  UNCHANGED Abstract!roomVars
  <2>1. Inside' = Inside
    BY <1>1, <1>5 DEF RedisAnswersSession, RedisFailsSession, AuthResume, Edit, Inside, Types
  <2>2. late' = late
    BY <1>5 DEF RedisAnswersSession, RedisFailsSession, AuthResume, Edit, history
  <2> QED
    BY <1>2, <1>3, <2>1, <2>2 DEF Abstract!roomVars
<1>6. CASE Enter(s)
  <2>1. Inside' = Inside \cup {s}
    BY <1>1, <1>6 DEF Enter, Inside, Types
  <2>2. s \notin late /\ late' = late
    BY <1>6 DEF Enter, history, DeletionInv, LateSessions
  <2>3. Abstract!GetIn(s)
    BY <1>2, <1>3, <2>1, <2>2 DEF Abstract!GetIn
  <2> QED
    BY <2>3 DEF Abstract!RoomNext
<1>7. CASE Leave(s)
  <2>1. Inside' = Inside \ {s} /\ late' = late
    BY <1>1, <1>7 DEF Leave, Inside, Types, history
  <2>2. Abstract!Stop({s}, {})
    BY <1>2, <1>3, <2>1 DEF Abstract!Stop
  <2> QED
    BY <2>2 DEF Abstract!RoomNext
<1> QED
  BY <1>4, <1>5, <1>6, <1>7 DEF Join

\* A step of a replica: a store begins, writes or is over, or everything is.
LEMMA ReplicaRefines ==
  ASSUME DeletionInv, NEW r \in Replicas, Replica(r)
  PROVE  Abstract!RoomNext \/ UNCHANGED Abstract!roomVars
<1>1. Types
  BY TypeParts DEF DeletionInv
<1>2. UNCHANGED <<exec, told, over, late>> /\ \A d \in Deletes : answer'[d] = "204" <=> answer[d] = "204"
  BY <1>1 DEF Replica, Subscribe, ConnectionLost, Crash, LoadStart, LoadSucceeds, LoadFails,
         Unload, StoreBegin, RedisAnswersStore, StoreResume, StoreSucceeds, StoreFails,
         redisVars, deleteVars, history, Types
<1>3. Known' = Known
  BY <1>2, KnownStays
<1>4. CASE Subscribe(r) \/ ConnectionLost(r) \/ LoadStart(r) \/ LoadSucceeds(r) \/ LoadFails(r) \/ Unload(r)
  <2>1. UNCHANGED <<store, lateStores>>
    BY <1>4 DEF Subscribe, ConnectionLost, LoadStart, LoadSucceeds, LoadFails, Unload, roomVars, history
  <2>2. Inside' = Inside
    BY <1>1, <1>4 DEF Subscribe, ConnectionLost, LoadStart, LoadSucceeds, LoadFails, Unload, roomVars,
                      Inside, Types
  <2> QED
    BY <1>2, <1>3, <2>1, <2>2, WritingStays DEF Abstract!roomVars
<1>5. CASE Crash(r)
  <2>1. Inside' = Inside \ At(r) /\ At(r) \in SUBSET Sessions
    BY <1>1, <1>5 DEF Crash, Inside, At, Types
  <2>2. Writing' = Writing \ {r} /\ lateStores' = lateStores \ {r}
    BY <1>1, <1>5 DEF Crash, Writing, Types
  <2>3. Abstract!Stop(At(r), {r})
    BY <1>2, <1>3, <2>1, <2>2 DEF Abstract!Stop
  <2> QED
    BY <2>1, <2>3 DEF Abstract!RoomNext
<1>6. ASSUME session' = session, store'[r] # "putting",
             \A q \in Replicas : q # r => store'[q] = store[q],
             lateStores' = lateStores \ {r}
      PROVE  Abstract!RoomNext
  <2>1. Writing' = Writing \ {r}
    BY <1>6 DEF Writing
  <2>2. Inside' = Inside \ {}
    BY <1>6, InsideStays
  <2>3. Abstract!Stop({}, {r})
    BY <1>2, <1>3, <1>6, <2>1, <2>2 DEF Abstract!Stop
  <2> QED
    BY <2>3 DEF Abstract!RoomNext
<1>7. CASE StoreBegin(r)
  <2>1. Inside' = Inside /\ Writing' = Writing
    BY <1>1, <1>7, InsideStays DEF StoreBegin, Writing, Types
  <2>2. CASE Known # {}
    <3>1. Abstract!BeginStore(r)
      BY <1>2, <1>3, <1>7, <2>1, <2>2 DEF StoreBegin, Abstract!BeginStore
    <3> QED
      BY <3>1 DEF Abstract!RoomNext
  <2>3. CASE Known = {}
    BY <1>2, <1>3, <1>7, <2>1, <2>3 DEF StoreBegin, Abstract!roomVars
  <2> QED
    BY <2>2, <2>3
<1>8. CASE RedisAnswersStore(r)
  <2>1. Inside' = Inside /\ Writing' = Writing /\ lateStores' = lateStores
    BY <1>1, <1>8, InsideStays DEF RedisAnswersStore, Writing, Types, history
  <2> QED
    BY <1>2, <1>3, <2>1 DEF Abstract!roomVars
<1>9. CASE StoreResume(r)
  <2>1. CASE store[r] = "clear"
    <3>1. Inside' = Inside /\ Writing' = Writing \cup {r} /\ lateStores' = lateStores
      BY <1>1, <1>9, <2>1, InsideStays DEF StoreResume, Writing, Types
    <3>2. r \notin lateStores
      BY <2>1 DEF DeletionInv, LateStores
    <3>3. Abstract!Write(r)
      BY <1>2, <1>3, <3>1, <3>2 DEF Abstract!Write
    <3> QED
      BY <3>3 DEF Abstract!RoomNext
  <2>2. CASE store[r] # "clear"
    BY <1>1, <1>6, <1>9, <2>2 DEF StoreResume, Types
  <2> QED
    BY <2>1, <2>2
<1>10. CASE StoreSucceeds(r)
  BY <1>1, <1>6, <1>10 DEF StoreSucceeds, Types
<1>11. ASSUME NEW again \in BOOLEAN, StoreFails(r, again) PROVE Abstract!RoomNext
  BY <1>1, <1>6, <1>11 DEF StoreFails, Types
<1> QED
  BY <1>4, <1>5, <1>7, <1>8, <1>9, <1>10, <1>11 DEF Replica

\* The marker's end is the end of every deletion in force: all of them have
\* their transactions behind them.
LEMMA ExpireRefines ==
  ASSUME DeletionInv, Expire
  PROVE  Abstract!Forget
<1>1. Known' = {}
  BY DEF Expire, Known, deleteVars, DeletionInv, Acknowledged
<1>2. Inside' = Inside /\ Writing' = Writing
  BY InsideStays, WritingStays DEF Expire, roomVars
<1>3. late' \in SUBSET late /\ lateStores' \in SUBSET lateStores
  BY DEF Expire
<1> QED
  BY <1>1, <1>2, <1>3 DEF Abstract!Forget

LEMMA NextRefines == DeletionInv /\ [Next]_vars => [Abstract!RoomNext]_(Abstract!roomVars)
<1> SUFFICES ASSUME DeletionInv, [Next]_vars
             PROVE  Abstract!RoomNext \/ UNCHANGED Abstract!roomVars
  OBVIOUS
<1>1. CASE Expire
  BY <1>1, ExpireRefines DEF Abstract!RoomNext
<1>2. CASE UNCHANGED vars
  BY <1>2, KnownStays, InsideStays, WritingStays
  DEF vars, redisVars, deleteVars, roomVars, history, Abstract!roomVars
<1> QED
  BY <1>1, <1>2, DeletionRefines, JoinRefines, ReplicaRefines DEF Next

\* For any replicas, sessions and deletions: however the questions, answers,
\* notices, timeouts and crashes interleave, a deletion looks as if it had
\* come into force on all replicas at once.
THEOREM RoomImplementsRoomDeletion == Spec => ImplementsRoomDeletion
<1>1. Init => Abstract!RoomInit
  BY InitRefines
<1>2. DeletionInv /\ [Next]_vars => [Abstract!RoomNext]_(Abstract!roomVars)
  BY NextRefines
<1> QED
  BY <1>1, <1>2, DeletionInvariant, PTL DEF Spec, ImplementsRoomDeletion, Abstract!RoomSpec

=============================================================================
