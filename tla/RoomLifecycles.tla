--------------------------- MODULE RoomLifecycles ---------------------------
(***************************************************************************)
(* The two implementations of RoomLifecycle, driven by the same calls: the *)
(* Redis one (a key with a time to live, and a channel the replicas        *)
(* subscribe to) and the in-memory one that the tests share between        *)
(* replicas (a set, one timer per deletion, a set of listeners).  One      *)
(* room.  Time is a counter; a timer that is due fires before time goes on.*)
(* `overlapped' only records history.                                      *)
(***************************************************************************)
EXTENDS Integers

CONSTANTS
  Replicas,     \* the servers that share the lifecycle
  TTL,          \* deletionTTL in ticks
  MaxTime,      \* bound on the clock, for TLC
  MaxDeletes    \* bound on the number of deletions, for TLC

ASSUME LifecycleAssumption == TTL \in Nat \ {0} /\ MaxTime \in Nat /\ MaxDeletes \in Nat

VARIABLES
  now,
  keyUntil,     \* Redis: the key exists while now < keyUntil
  subscribers,  \* Redis: the replicas with a subscribed connection
  marked,       \* memory: the room is in deletedRooms
  timers,       \* memory: the timers set, [no |-> of which deletion, due |-> when]
  listeners,    \* memory: the replicas whose callback is in the set
  deletes,      \* number of deletions so far
  destroyed,    \* the replicas that called destroy
  overlapped    \* the latest deletion came while the timer of another was running

vars == <<now, keyUntil, subscribers, marked, timers, listeners, deletes, destroyed, overlapped>>

\* isDeleted, by either implementation.
RedisIsDeleted == now < keyUntil
MemoryIsDeleted == marked

Init ==
  /\ now = 1
  /\ keyUntil = 0
  /\ subscribers = {}
  /\ marked = FALSE
  /\ timers = {}
  /\ listeners = {}
  /\ deletes = 0
  /\ destroyed = {}
  /\ overlapped = FALSE

Start(r) ==
  /\ r \notin subscribers \cup destroyed
  /\ subscribers' = subscribers \cup {r}
  /\ listeners' = listeners \cup {r}
  /\ UNCHANGED <<now, keyUntil, marked, timers, deletes, destroyed, overlapped>>

\* Fault: the timer is set a tick too long.
DeleteLongTimer ==
  /\ deletes < MaxDeletes
  /\ deletes' = deletes + 1
  /\ keyUntil' = now + TTL
  /\ marked' = TRUE
  /\ timers' = timers \cup {[no |-> deletes', due |-> now + TTL + 1]}
  /\ overlapped' = (timers # {})
  /\ UNCHANGED <<now, subscribers, listeners, destroyed>>

\* SET with PX replaces the time to live; the memory starts one more timer.
Delete ==
  /\ deletes < MaxDeletes
  /\ deletes' = deletes + 1
  /\ keyUntil' = now + TTL
  /\ marked' = TRUE
  /\ timers' = timers \cup {[no |-> deletes', due |-> now + TTL]}
  /\ overlapped' = (timers # {})
  /\ UNCHANGED <<now, subscribers, listeners, destroyed>>

TimerFires(t) ==
  /\ t.due <= now
  /\ timers' = timers \ {t}
  /\ marked' = FALSE
  /\ UNCHANGED <<now, keyUntil, subscribers, listeners, deletes, destroyed, overlapped>>

\* quit ends one replica's connections; the shared memory is emptied of the
\* timers and the callbacks of all.
Destroy(r) ==
  /\ r \in subscribers
  /\ subscribers' = subscribers \ {r}
  /\ timers' = {}
  /\ listeners' = {}
  /\ destroyed' = destroyed \cup {r}
  /\ UNCHANGED <<now, keyUntil, marked, deletes, overlapped>>

Tick ==
  /\ now < MaxTime
  /\ \A t \in timers : t.due > now
  /\ now' = now + 1
  /\ UNCHANGED <<keyUntil, subscribers, marked, timers, listeners, deletes, destroyed, overlapped>>

Next ==
  \/ \E r \in Replicas : Start(r) \/ Destroy(r)
  \/ Delete
  \/ \E t \in timers : TimerFires(t)
  \/ Tick

Spec == Init /\ [][Next]_vars

-----------------------------------------------------------------------------
\* Nothing is due that has not fired: the two are compared at such instants.
Settled == \A t \in timers : t.due > now

\* As long as no replica has been destroyed, both implementations tell the same
\* replicas, and the memory never remembers a deletion longer than Redis does.  It
\* forgets earlier only if the room was deleted again while the timer of a deletion
\* before was running, which is not stopped; and the latest deletion alone decides
\* that, whatever came before.
LifecyclesAgree ==
  destroyed = {} /\ Settled =>
    /\ MemoryIsDeleted => RedisIsDeleted
    /\ RedisIsDeleted => MemoryIsDeleted \/ overlapped
    /\ listeners = subscribers

=============================================================================
