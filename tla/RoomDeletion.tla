---------------------------- MODULE RoomDeletion ----------------------------
(***************************************************************************)
(* What deleting a Document promises, with no Redis, no questions under    *)
(* way and no notices: from the moment somebody has been told of it, a     *)
(* deletion is in force, on all replicas at once, until it is forgotten.   *)
(* Whoever comes while one is in force is barred: a session does not get   *)
(* in, a store does not write.  Those who came before may still do both.   *)
(* DocumentRoom implements this module.                                    *)
(***************************************************************************)
CONSTANTS
  Sessions,   \* those who want to get in
  Stores,     \* those who write the Document, again and again
  Deletes     \* deletions

VARIABLES
  inForce,        \* the deletions that are in force
  barred,         \* the sessions that came while one was
  barredStores,   \* the stores begun while one was, and not over yet
  inside,         \* the sessions in the room
  writing         \* the stores that are writing

roomVars == <<inForce, barred, barredStores, inside, writing>>

RoomInit ==
  /\ inForce = {}
  /\ barred = {}
  /\ barredStores = {}
  /\ inside = {}
  /\ writing = {}

\* A deletion comes into force; sessions may be put out with it.
Announce(d, out) ==
  /\ inForce' = inForce \cup {d}
  /\ inside' = inside \ out
  /\ UNCHANGED <<barred, barredStores, writing>>

\* The deletions are forgotten, all of them; who has not got a verdict yet
\* may get in after all.
Forget ==
  /\ inForce' = {}
  /\ barred' \in SUBSET barred
  /\ barredStores' \in SUBSET barredStores
  /\ UNCHANGED <<inside, writing>>

Come(s) ==
  /\ inForce # {}
  /\ barred' = barred \cup {s}
  /\ UNCHANGED <<inForce, barredStores, inside, writing>>

GetIn(s) ==
  /\ s \notin barred
  /\ inside' = inside \cup {s}
  /\ UNCHANGED <<inForce, barred, barredStores, writing>>

BeginStore(r) ==
  /\ inForce # {}
  /\ barredStores' = barredStores \cup {r}
  /\ UNCHANGED <<inForce, barred, inside, writing>>

Write(r) ==
  /\ r \notin barredStores
  /\ writing' = writing \cup {r}
  /\ UNCHANGED <<inForce, barred, barredStores, inside>>

\* Sessions leave, and stores are over.
Stop(out, over) ==
  /\ inside' = inside \ out
  /\ writing' = writing \ over
  /\ barredStores' = barredStores \ over
  /\ UNCHANGED <<inForce, barred>>

RoomNext ==
  \/ \E d \in Deletes, out \in SUBSET Sessions : Announce(d, out)
  \/ Forget
  \/ \E s \in Sessions : Come(s) \/ GetIn(s)
  \/ \E r \in Stores : BeginStore(r) \/ Write(r)
  \/ \E out \in SUBSET Sessions, over \in SUBSET Stores : Stop(out, over)

RoomSpec == RoomInit /\ [][RoomNext]_roomVars

=============================================================================
