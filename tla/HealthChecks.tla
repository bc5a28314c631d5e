---------------------------- MODULE HealthChecks ----------------------------
(***************************************************************************)
(* The health checks of the collaboration server.  GET /health and GET     *)
(* /metrics each look at both dependencies, side by side.  The check of    *)
(* Redis (RedisRoomLifecycle.health) is shared: whoever comes while one is *)
(* under way waits for that one.  Each request gives a dependency so much  *)
(* time and no more, the shared check goes on without it.                  *)
(*                                                                         *)
(* What `up' says of Redis and core-api is known to nobody; a ping or a    *)
(* fetch that succeeds has found them up, one that fails may be a timeout. *)
(*                                                                         *)
(* `seen' fields only record history: the parts that were up at some time  *)
(* since the checks began on which a result rests.                         *)
(***************************************************************************)
EXTENDS Integers

CONSTANTS
  Probes,     \* clients that ask for /health
  Scrapers,   \* clients that ask for /metrics
  MaxFlips    \* bound on outages and recoveries, for TLC

ASSUME HealthAssumption ==
  /\ Probes \cap Scrapers = {}
  /\ MaxFlips \in Nat

Clients == Probes \cup Scrapers

Connections == {"client", "subscriber"}   \* of RedisRoomLifecycle
Dependencies == {"room_lifecycle", "core_api"}
Parts == Connections \cup {"core_api"}

VARIABLES
  up,        \* the parts that are up
  flips,     \* how often that has changed
  flight,    \* the shared check: whether there is one, and the pings it waits for
  request,   \* request[q]: "idle", "checking", "refreshed" or "answered"
  result,    \* result[q]: what became of each dependency's check
  answer,    \* answer[q]: healthy or not, and on which evidence
  gauge      \* CollaborationObservability.healthy

vars == <<up, flips, flight, request, result, answer, gauge>>

NoFlight == [open |-> FALSE, pinging |-> {}, seen |-> {}]

Init ==
  /\ up \in SUBSET Parts
  /\ flips = 0
  /\ flight = NoFlight
  /\ request = [q \in Clients |-> "idle"]
  /\ result = [q \in Clients |-> [d \in Dependencies |-> "none"]]
  /\ answer = [q \in Clients |-> [healthy |-> FALSE, seen |-> {}]]
  /\ gauge = [healthy |-> FALSE, seen |-> {}]

Waiting(d) == {q \in Clients : result[q][d] = "asked"}

\* A dependency's check is over for the requests Q.
Decide(Q, d, verdict) ==
  result' = [q \in Clients |-> IF q \in Q THEN [result[q] EXCEPT ![d] = verdict] ELSE result[q]]

\* Fault: only the client connection is pinged.
CheckHealthClientOnly ==
  [open |-> TRUE, pinging |-> {"client"}, seen |-> up \cap Connections]

CheckHealth ==
  [open |-> TRUE, pinging |-> Connections, seen |-> up \cap Connections]

\* onRequest, refreshHealth, failedDependencies, RoomLifecycle.health
Ask(q) ==
  /\ request[q] \in {"idle", "answered"}
  /\ request' = [request EXCEPT ![q] = "checking"]
  /\ result' = [result EXCEPT ![q] = [d \in Dependencies |-> "asked"]]
  /\ answer' = [answer EXCEPT ![q] = [healthy |-> FALSE, seen |-> up \cap {"core_api"}]]
  /\ flight' = IF flight.open THEN flight ELSE CheckHealth
  /\ UNCHANGED <<up, flips, gauge>>

Pong(c) ==
  /\ c \in flight.pinging \cap up
  /\ flight' = [flight EXCEPT !.pinging = @ \ {c}]
  /\ UNCHANGED <<up, flips, request, result, answer, gauge>>

\* All pings are answered.
FlightSucceeds ==
  /\ flight.open
  /\ flight.pinging = {}
  /\ Decide(Waiting("room_lifecycle"), "room_lifecycle", "healthy")
  /\ answer' = [q \in Clients |->
       IF q \in Waiting("room_lifecycle") THEN [answer[q] EXCEPT !.seen = @ \cup flight.seen]
       ELSE answer[q]]
  /\ flight' = NoFlight
  /\ UNCHANGED <<up, flips, request, gauge>>

\* Fault: a check that has failed stays the shared one.
FlightFailsForGood ==
  /\ flight.pinging # {}
  /\ Decide(Waiting("room_lifecycle"), "room_lifecycle", "failed")
  /\ UNCHANGED <<up, flips, flight, request, answer, gauge>>

\* Fault: a failure resets the shared check but does not settle its promise.
FlightFailsUnsettled ==
  /\ flight.pinging # {}
  /\ flight' = NoFlight
  /\ UNCHANGED <<up, flips, request, result, answer, gauge>>

\* One ping failed, by its command timeout at the latest.
FlightFails ==
  /\ flight.pinging # {}
  /\ Decide(Waiting("room_lifecycle"), "room_lifecycle", "failed")
  /\ flight' = NoFlight
  /\ UNCHANGED <<up, flips, request, answer, gauge>>

\* CoreAPIStorage.health
CoreAPIAnswers(q, healthy) ==
  /\ result[q]["core_api"] = "asked"
  /\ healthy => "core_api" \in up
  /\ Decide({q}, "core_api", IF healthy THEN "healthy" ELSE "failed")
  /\ UNCHANGED <<up, flips, flight, request, answer, gauge>>

\* Fault: the shared check alone is raced with a timer.
GiveUpOnLifecycle(q, d) ==
  /\ d = "room_lifecycle"
  /\ result[q][d] = "asked"
  /\ Decide({q}, d, "failed")
  /\ UNCHANGED <<up, flips, flight, request, answer, gauge>>

\* `within' rejects; what it waited for goes on.
GiveUp(q, d) ==
  /\ result[q][d] = "asked"
  /\ Decide({q}, d, "failed")
  /\ UNCHANGED <<up, flips, flight, request, answer, gauge>>

\* refreshHealth goes on: healthResult.
Refresh(q) ==
  /\ request[q] = "checking"
  /\ \A d \in Dependencies : result[q][d] # "asked"
  /\ request' = [request EXCEPT ![q] = "refreshed"]
  /\ answer' = [answer EXCEPT ![q].healthy = \A d \in Dependencies : result[q][d] = "healthy"]
  /\ gauge' = answer'[q]
  /\ UNCHANGED <<up, flips, flight, result>>

\* /health answers what it has found, /metrics what the gauge holds by now.
Respond(q) ==
  /\ request[q] = "refreshed"
  /\ request' = [request EXCEPT ![q] = "answered"]
  /\ answer' = [answer EXCEPT ![q] = IF q \in Scrapers THEN gauge ELSE @]
  /\ UNCHANGED <<up, flips, flight, result, gauge>>

Fall(p) ==
  /\ flips < MaxFlips
  /\ p \in up
  /\ up' = up \ {p}
  /\ flips' = flips + 1
  /\ UNCHANGED <<flight, request, result, answer, gauge>>

Rise(p) ==
  /\ flips < MaxFlips
  /\ p \in Parts \ up
  /\ up' = up \cup {p}
  /\ flips' = flips + 1
  /\ flight' = [flight EXCEPT !.seen = IF flight.open /\ p \in Connections THEN @ \cup {p} ELSE @]
  /\ answer' = [q \in Clients |->
       IF p = "core_api" /\ q \in Waiting(p) THEN [answer[q] EXCEPT !.seen = @ \cup {p}] ELSE answer[q]]
  /\ UNCHANGED <<request, result, gauge>>

Check(q) ==
  \/ Ask(q) \/ Refresh(q) \/ Respond(q)
  \/ \E healthy \in BOOLEAN : CoreAPIAnswers(q, healthy)
  \/ \E d \in Dependencies : GiveUp(q, d)

Next ==
  \/ \E q \in Clients : Check(q)
  \/ \E c \in Connections : Pong(c)
  \/ FlightSucceeds \/ FlightFails
  \/ \E p \in Parts : Fall(p) \/ Rise(p)

Spec == Init /\ [][Next]_vars

\* ioredis rejects a ping after commandTimeout, the timer of `within' fires,
\* and the event loop goes on with what is decided.  No dependency need answer.
Fairness ==
  /\ WF_vars(FlightSucceeds) /\ WF_vars(FlightFails)
  /\ \A q \in Clients :
       /\ \A d \in Dependencies : WF_vars(GiveUp(q, d))
       /\ WF_vars(Refresh(q)) /\ WF_vars(Respond(q))

FairSpec == Spec /\ Fairness

-----------------------------------------------------------------------------
\* Types, and: whoever waits for the shared check waits for one there is
\* (room-lifecycle.ts:42-49).
TypeOK ==
  /\ up \subseteq Parts
  /\ flips \in 0 .. MaxFlips
  /\ flight \in [open : BOOLEAN, pinging : SUBSET Connections, seen : SUBSET Connections]
  /\ ~flight.open => flight = NoFlight /\ Waiting("room_lifecycle") = {}
  /\ request \in [Clients -> {"idle", "checking", "refreshed", "answered"}]
  /\ result \in [Clients -> [Dependencies -> {"none", "asked", "healthy", "failed"}]]
  /\ answer \in [Clients -> [healthy : BOOLEAN, seen : SUBSET Parts]]
  /\ gauge \in [healthy : BOOLEAN, seen : SUBSET Parts]

\* Good news is never older than the checks it rests on: when a request is told
\* healthy, or the gauge says so, core-api and both connections to Redis (a
\* lost subscriber means lost deletions) were up at some time since then,
\* though the request joined another one's check or its check was overtaken.
GoodIsBacked ==
  /\ gauge.healthy => gauge.seen = Parts
  /\ \A q \in Clients : answer[q].healthy => answer[q].seen = Parts

\* Every request is answered, whatever the dependencies do.
RequestsAnswered == \A q \in Clients : request[q] = "checking" ~> request[q] = "answered"

\* The shared check ends, well or badly, and the next request gets a new one:
\* an outage does not stay on record.
FlightEnds == flight.open ~> ~flight.open

=============================================================================
