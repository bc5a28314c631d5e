------------------------- MODULE HealthChecksProofs -------------------------
(***************************************************************************)
(* Proofs about the health checks, for any number of requests and any      *)
(* outages: nobody waits for a check that is over, and good news is never  *)
(* older than the checks it rests on.                                      *)
(***************************************************************************)
EXTENDS HealthChecks, TLAPS

-----------------------------------------------------------------------------
(* Type correctness.                                                       *)

\* The parts of TypeOK, so that a step cites only what it disturbs.
Types ==
  /\ up \subseteq Parts
  /\ flips \in 0 .. MaxFlips
  /\ flight \in [open : BOOLEAN, pinging : SUBSET Connections, seen : SUBSET Connections]
  /\ request \in [Clients -> {"idle", "checking", "refreshed", "answered"}]
  /\ result \in [Clients -> [Dependencies -> {"none", "asked", "healthy", "failed"}]]
  /\ answer \in [Clients -> [healthy : BOOLEAN, seen : SUBSET Parts]]
  /\ gauge \in [healthy : BOOLEAN, seen : SUBSET Parts]

Joined == ~flight.open => flight = NoFlight /\ Waiting("room_lifecycle") = {}

LEMMA TypeParts == TypeOK <=> Types /\ Joined
BY DEF TypeOK, Types, Joined

LEMMA Names == /\ "room_lifecycle" \in Dependencies /\ "core_api" \in Dependencies
               /\ Connections \subseteq Parts /\ "core_api" \in Parts /\ "core_api" \notin Connections
BY DEF Dependencies, Connections, Parts

LEMMA InitTypeOK == Init => TypeOK
<1> SUFFICES ASSUME Init PROVE Types /\ Joined
  BY TypeParts
<1>1. Types
  BY HealthAssumption DEF Init, Types, NoFlight, HealthAssumption
<1>2. Joined
  BY Names DEF Init, Joined, Waiting, NoFlight
<1> QED
  BY <1>1, <1>2

LEMMA NextTypeOK == TypeOK /\ [Next]_vars => TypeOK'
<1> SUFFICES ASSUME Types, Joined, [Next]_vars PROVE Types' /\ Joined'
  BY TypeParts, PTL
<1> USE Names
<1>1. ASSUME NEW q \in Clients, Ask(q) PROVE Types' /\ Joined'
  <2> DEFINE UpNow == up \cap {"core_api"}
  <2>a. request' \in [Clients -> {"idle", "checking", "refreshed", "answered"}]
    BY <1>1 DEF Ask, Types
  <2>b. result' \in [Clients -> [Dependencies -> {"none", "asked", "healthy", "failed"}]]
    BY <1>1 DEF Ask, Types
  <2>c. [healthy |-> FALSE, seen |-> UpNow] \in [healthy : BOOLEAN, seen : SUBSET Parts]
    OBVIOUS
  <2>d. answer' \in [Clients -> [healthy : BOOLEAN, seen : SUBSET Parts]]
    BY <1>1, <2>c DEF Ask, Types
  <2>e. CheckHealth \in [open : BOOLEAN, pinging : SUBSET Connections, seen : SUBSET Connections]
    BY DEF CheckHealth
  <2>1. Types'
    BY <1>1, <2>a, <2>b, <2>d, <2>e DEF Ask, Types
  <2>2. flight'.open
    BY <1>1 DEF Ask, CheckHealth
  <2> QED
    BY <2>1, <2>2 DEF Joined
<1>2. ASSUME NEW q \in Clients, Refresh(q) \/ Respond(q) PROVE Types' /\ Joined'
  <2>a. answer[q] \in [healthy : BOOLEAN, seen : SUBSET Parts]
    BY DEF Types
  <2>b. \A b \in BOOLEAN : [answer[q] EXCEPT !.healthy = b] \in [healthy : BOOLEAN, seen : SUBSET Parts]
    BY <2>a
  <2>c. ASSUME Refresh(q) PROVE Types'
    <3> DEFINE b == \A d \in Dependencies : result[q][d] = "healthy"
    <3>1. b \in BOOLEAN
      OBVIOUS
    <3>2. answer' = [answer EXCEPT ![q] = [answer[q] EXCEPT !.healthy = b]]
      BY <2>c, <2>a DEF Refresh, Types
    <3> HIDE DEF b
    <3>3. answer' \in [Clients -> [healthy : BOOLEAN, seen : SUBSET Parts]]
      BY <3>1, <3>2, <2>b DEF Types
    <3>4. gauge' \in [healthy : BOOLEAN, seen : SUBSET Parts]
      BY <2>c, <3>3 DEF Refresh
    <3> QED
      BY <2>c, <3>3, <3>4 DEF Refresh, Types
  <2>d. ASSUME Respond(q) PROVE Types'
    <3>1. answer' \in [Clients -> [healthy : BOOLEAN, seen : SUBSET Parts]]
      BY <2>d DEF Respond, Types
    <3> QED
      BY <2>d, <3>1 DEF Respond, Types
  <2>1. Types'
    BY <1>2, <2>c, <2>d
  <2>2. UNCHANGED <<flight, result>>
    BY <1>2 DEF Refresh, Respond
  <2> QED
    BY <2>1, <2>2 DEF Joined, Waiting
<1>3. ASSUME NEW q \in Clients, NEW d \in Dependencies, NEW verdict \in {"healthy", "failed"},
             Decide({q}, d, verdict), UNCHANGED <<up, flips, flight, request, answer, gauge>>
      PROVE  Types' /\ Joined'
  <2>1. result' \in [Clients -> [Dependencies -> {"none", "asked", "healthy", "failed"}]]
    BY <1>3 DEF Decide, Types
  <2>2. Waiting("room_lifecycle")' \subseteq Waiting("room_lifecycle")
    BY <1>3 DEF Decide, Types, Waiting
  <2>3. Types'
    BY <1>3, <2>1 DEF Types
  <2> QED
    BY <1>3, <2>2, <2>3 DEF Joined
<1>4. ASSUME NEW c \in Connections, Pong(c) PROVE Types' /\ Joined'
  <2>1. Types'
    BY <1>4 DEF Pong, Types
  <2>2. flight.open
    BY <1>4 DEF Pong, Joined, NoFlight
  <2> QED
    BY <1>4, <2>1, <2>2 DEF Pong, Joined, Types
<1>5. CASE FlightSucceeds \/ FlightFails
  <2> DEFINE W == Waiting("room_lifecycle")
  <2>1. PICK verdict \in {"healthy", "failed"} : Decide(W, "room_lifecycle", verdict)
    BY <1>5 DEF FlightSucceeds, FlightFails
  <2>3. result' \in [Clients -> [Dependencies -> {"none", "asked", "healthy", "failed"}]]
    BY <2>1 DEF Decide, Types
  <2>4. answer' \in [Clients -> [healthy : BOOLEAN, seen : SUBSET Parts]]
    BY <1>5 DEF FlightSucceeds, FlightFails, Types
  <2>5. flight' \in [open : BOOLEAN, pinging : SUBSET Connections, seen : SUBSET Connections]
    <3>1. flight' = NoFlight
      BY <1>5 DEF FlightSucceeds, FlightFails
    <3> QED
      BY <3>1 DEF NoFlight
  <2>7. Types'
    BY <1>5, <2>3, <2>4, <2>5 DEF FlightSucceeds, FlightFails, Types
  <2>6. Waiting("room_lifecycle")' = {}
    BY <2>1 DEF Decide, Types, Waiting
  <2> QED
    BY <1>5, <2>6, <2>7 DEF FlightSucceeds, FlightFails, Joined
<1>6. ASSUME NEW p \in Parts, Fall(p) \/ Rise(p) PROVE Types' /\ Joined'
  <2>1. flips' \in 0 .. MaxFlips
    BY <1>6, HealthAssumption DEF Fall, Rise, Types, HealthAssumption
  <2>2. flight' \in [open : BOOLEAN, pinging : SUBSET Connections, seen : SUBSET Connections]
    BY <1>6 DEF Fall, Rise, Types
  <2>3. answer' \in [Clients -> [healthy : BOOLEAN, seen : SUBSET Parts]]
    BY <1>6 DEF Fall, Rise, Types
  <2>4. Types'
    BY <1>6, <2>1, <2>2, <2>3 DEF Fall, Rise, Types
  <2>5. ~flight.open => flight' = flight
    BY <1>6 DEF Fall, Rise, Types
  <2>6. flight'.open = flight.open
    BY <1>6 DEF Fall, Rise, Types
  <2> QED
    BY <1>6, <2>4, <2>5, <2>6 DEF Fall, Rise, Joined, Waiting
<1>7. CASE UNCHANGED vars
  BY <1>7 DEF vars, Types, Joined, Waiting
<1>8. ASSUME NEW q \in Clients, Check(q) PROVE Types' /\ Joined'
  <2>1. ASSUME NEW healthy \in BOOLEAN, CoreAPIAnswers(q, healthy) PROVE Types' /\ Joined'
    BY <2>1, <1>3 DEF CoreAPIAnswers
  <2>2. ASSUME NEW d \in Dependencies, GiveUp(q, d) PROVE Types' /\ Joined'
    BY <2>2, <1>3 DEF GiveUp
  <2> QED
    BY <1>8, <1>1, <1>2, <2>1, <2>2 DEF Check
<1> QED
  BY <1>4, <1>5, <1>6, <1>7, <1>8 DEF Next

\* Requests, results and the shared check are of their types, and nobody waits
\* for a shared check that is over (room-lifecycle.ts:42-49).
THEOREM TypeCorrect == Spec => []TypeOK
<1>1. Init => TypeOK
  BY InitTypeOK
<1>2. TypeOK /\ [Next]_vars => TypeOK'
  BY NextTypeOK
<1> QED
  BY <1>1, <1>2, PTL DEF Spec

-----------------------------------------------------------------------------
(* Good news is backed.                                                    *)

Pending(q) == request[q] \in {"checking", "refreshed"}

\* What the results of a request rest on, from its beginning to its answer.
EvidenceOf(q) ==
  /\ answer[q].healthy => answer[q].seen = Parts
  /\ \A d \in Dependencies : result[q][d] = "asked" => request[q] = "checking"
  /\ Pending(q) /\ result[q]["room_lifecycle"] = "healthy" => Connections \subseteq answer[q].seen
  /\ Pending(q) /\ result[q]["core_api"] = "healthy" => "core_api" \in answer[q].seen
  /\ result[q]["core_api"] = "asked" /\ "core_api" \in up => "core_api" \in answer[q].seen

\* A connection that has answered the shared check, or could, was up.
FlightBacked ==
  flight.open =>
    /\ up \cap Connections \subseteq flight.seen
    /\ Connections \subseteq flight.pinging \cup flight.seen

GaugeBacked == gauge.healthy => gauge.seen = Parts

Evidence == GaugeBacked /\ FlightBacked /\ \A q \in Clients : EvidenceOf(q)

LEMMA InitEvidence == Init => Evidence
<1> SUFFICES ASSUME Init PROVE Evidence
  OBVIOUS
<1>1. GaugeBacked /\ FlightBacked
  BY DEF Init, GaugeBacked, FlightBacked, NoFlight
<1>2. ASSUME NEW q \in Clients PROVE EvidenceOf(q)
  <2>1. request[q] = "idle" /\ answer[q].healthy = FALSE
    BY DEF Init
  <2>2. \A d \in Dependencies : result[q][d] = "none"
    BY DEF Init
  <2> QED
    BY <2>1, <2>2, Names DEF EvidenceOf, Pending
<1> QED
  BY <1>1, <1>2 DEF Evidence

\* A request nothing happened to keeps its evidence, if nothing came up.
LEMMA EvidenceKept ==
  ASSUME NEW q \in Clients, EvidenceOf(q), up' \subseteq up,
         request'[q] = request[q], result'[q] = result[q], answer'[q] = answer[q]
  PROVE  EvidenceOf(q)'
BY DEF EvidenceOf, Pending

LEMMA NextEvidence == TypeOK /\ Evidence /\ [Next]_vars => Evidence'
<1> SUFFICES ASSUME Types, Joined, Evidence, [Next]_vars PROVE Evidence'
  BY TypeParts
<1> USE Names
<1>1. ASSUME NEW q \in Clients, Ask(q) PROVE Evidence'
  <2>1. GaugeBacked' /\ FlightBacked'
    BY <1>1 DEF Ask, Evidence, GaugeBacked, FlightBacked, CheckHealth
  <2>2. EvidenceOf(q)'
    BY <1>1 DEF Ask, EvidenceOf, Types
  <2>3. ASSUME NEW p \in Clients \ {q} PROVE EvidenceOf(p)'
    BY <1>1, <2>3, EvidenceKept DEF Ask, Evidence, Types
  <2> QED
    BY <2>1, <2>2, <2>3 DEF Evidence
<1>2. ASSUME NEW q \in Clients, Refresh(q) PROVE Evidence'
  <2>1. answer[q].healthy' => answer[q].seen' = Parts
    <3>1. SUFFICES ASSUME \A d \in Dependencies : result[q][d] = "healthy"
                   PROVE  answer[q].seen = Parts
      BY <1>2 DEF Refresh, Types
    <3>2. Connections \subseteq answer[q].seen /\ "core_api" \in answer[q].seen
      BY <1>2, <3>1 DEF Refresh, Evidence, EvidenceOf, Pending
    <3> QED
      BY <3>2 DEF Types, Parts
  <2>2. EvidenceOf(q)'
    BY <1>2, <2>1 DEF Refresh, Evidence, EvidenceOf, Pending, Types
  <2>3. ASSUME NEW p \in Clients \ {q} PROVE EvidenceOf(p)'
    BY <1>2, <2>3, EvidenceKept DEF Refresh, Evidence, Types
  <2>4. GaugeBacked' /\ FlightBacked'
    BY <1>2, <2>1 DEF Refresh, Evidence, GaugeBacked, FlightBacked
  <2> QED
    BY <2>2, <2>3, <2>4 DEF Evidence
<1>3. ASSUME NEW q \in Clients, Respond(q) PROVE Evidence'
  <2>1. EvidenceOf(q)'
    BY <1>3 DEF Respond, Evidence, EvidenceOf, GaugeBacked, Pending, Types
  <2>2. ASSUME NEW p \in Clients \ {q} PROVE EvidenceOf(p)'
    BY <1>3, <2>2, EvidenceKept DEF Respond, Evidence, Types
  <2> QED
    BY <1>3, <2>1, <2>2 DEF Respond, Evidence, GaugeBacked, FlightBacked
<1>4. ASSUME NEW q \in Clients, NEW d \in Dependencies, NEW verdict \in {"healthy", "failed"},
             Decide({q}, d, verdict), UNCHANGED <<up, flips, flight, request, answer, gauge>>,
             result[q][d] = "asked",
             verdict = "healthy" => d = "core_api" /\ "core_api" \in up
      PROVE  Evidence'
  <2>1. EvidenceOf(q)'
    BY <1>4 DEF Decide, Evidence, EvidenceOf, Pending, Types
  <2>2. ASSUME NEW p \in Clients \ {q} PROVE EvidenceOf(p)'
    BY <1>4, <2>2, EvidenceKept DEF Decide, Evidence, Types
  <2> QED
    BY <1>4, <2>1, <2>2 DEF Evidence, GaugeBacked, FlightBacked
<1>5. ASSUME NEW c \in Connections, Pong(c) PROVE Evidence'
  <2>1. FlightBacked'
    BY <1>5 DEF Pong, Evidence, FlightBacked, Types
  <2>2. ASSUME NEW p \in Clients PROVE EvidenceOf(p)'
    BY <1>5, EvidenceKept DEF Pong, Evidence
  <2> QED
    BY <1>5, <2>1, <2>2 DEF Pong, Evidence, GaugeBacked
<1>6. CASE FlightSucceeds \/ FlightFails
  <2>1. GaugeBacked' /\ FlightBacked'
    BY <1>6 DEF FlightSucceeds, FlightFails, Evidence, GaugeBacked, FlightBacked, NoFlight
  <2>2. ASSUME NEW q \in Clients, q \notin Waiting("room_lifecycle") PROVE EvidenceOf(q)'
    BY <1>6, <2>2, EvidenceKept DEF FlightSucceeds, FlightFails, Decide, Evidence, Types
  <2>3. ASSUME NEW q \in Clients, q \in Waiting("room_lifecycle") PROVE EvidenceOf(q)'
    <3>1. CASE FlightSucceeds
      <4>1. Connections \subseteq flight.seen
        BY <3>1 DEF FlightSucceeds, Evidence, FlightBacked
      <4>2. answer'[q].healthy = answer[q].healthy /\ answer'[q].seen = answer[q].seen \cup flight.seen
        BY <2>3, <3>1 DEF FlightSucceeds, Types
      <4>3. answer[q].seen \subseteq Parts /\ flight.seen \subseteq Parts
        BY DEF Types
      <4>4. result'[q] = [result[q] EXCEPT !["room_lifecycle"] = "healthy"]
        BY <2>3, <3>1 DEF FlightSucceeds, Decide
      <4> QED
        BY <3>1, <4>1, <4>2, <4>3, <4>4 DEF FlightSucceeds, Evidence, EvidenceOf, Pending, Types
    <3>2. CASE FlightFails
      <4>1. result'[q] = [result[q] EXCEPT !["room_lifecycle"] = "failed"]
        BY <2>3, <3>2 DEF FlightFails, Decide
      <4> QED
        BY <3>2, <4>1 DEF FlightFails, Evidence, EvidenceOf, Pending, Types
    <3> QED
      BY <1>6, <3>1, <3>2
  <2> QED
    BY <2>1, <2>2, <2>3 DEF Evidence
<1>7. ASSUME NEW p \in Parts, Fall(p) PROVE Evidence'
  <2>1. ASSUME NEW q \in Clients PROVE EvidenceOf(q)'
    BY <1>7, EvidenceKept DEF Fall, Evidence
  <2> QED
    BY <1>7, <2>1 DEF Fall, Evidence, GaugeBacked, FlightBacked
<1>8. ASSUME NEW p \in Parts, Rise(p) PROVE Evidence'
  <2>1. FlightBacked'
    BY <1>8 DEF Rise, Evidence, FlightBacked, Types
  <2>2. ASSUME NEW q \in Clients PROVE EvidenceOf(q)'
    <3>1. /\ answer'[q].healthy = answer[q].healthy
          /\ answer'[q].seen = IF p = "core_api" /\ q \in Waiting(p)
                               THEN answer[q].seen \cup {p} ELSE answer[q].seen
      BY <1>8 DEF Rise, Types
    <3>2. answer[q].seen \subseteq Parts
      BY DEF Types
    <3> QED
      BY <1>8, <3>1, <3>2 DEF Rise, Evidence, EvidenceOf, Pending, Waiting
  <2> QED
    BY <1>8, <2>1, <2>2 DEF Rise, Evidence, GaugeBacked
<1>9. CASE UNCHANGED vars
  <2>1. ASSUME NEW q \in Clients PROVE EvidenceOf(q)'
    BY <1>9, EvidenceKept DEF vars, Evidence
  <2> QED
    BY <1>9, <2>1 DEF vars, Evidence, GaugeBacked, FlightBacked
<1>10. ASSUME NEW q \in Clients, Check(q) PROVE Evidence'
  <2>1. ASSUME NEW healthy \in BOOLEAN, CoreAPIAnswers(q, healthy) PROVE Evidence'
    BY <2>1, <1>4 DEF CoreAPIAnswers
  <2>2. ASSUME NEW d \in Dependencies, GiveUp(q, d) PROVE Evidence'
    BY <2>2, <1>4 DEF GiveUp
  <2> QED
    BY <1>10, <1>1, <1>2, <1>3, <2>1, <2>2 DEF Check
<1> QED
  BY <1>5, <1>6, <1>7, <1>8, <1>9, <1>10 DEF Next

\* Whoever is told healthy, and the gauge when it says so, has all three parts
\* up at some time since the checks behind that began (server.ts:203-230,
\* room-lifecycle.ts:42-66).
THEOREM GoodIsBackedHolds == Spec => []GoodIsBacked
<1>1. Init => TypeOK /\ Evidence
  BY InitTypeOK, InitEvidence
<1>2. TypeOK /\ Evidence /\ [Next]_vars => (TypeOK /\ Evidence)'
  BY NextTypeOK, NextEvidence
<1>3. Evidence => GoodIsBacked
  BY DEF Evidence, GaugeBacked, EvidenceOf, GoodIsBacked
<1> QED
  BY <1>1, <1>2, <1>3, PTL DEF Spec

=============================================================================
