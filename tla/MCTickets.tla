------------------------------ MODULE MCTickets ------------------------------
(* An instance of Tickets for TLC. *)
EXTENDS Tickets

CONSTANTS user, nobody, team1, team2, org1, org2, doc1, doc2, site, elsewhere

\* Two teams of two organizations.
MCOrg == [t \in Teams |-> IF t = team1 THEN org1 ELSE org2]
MCNumber == [t \in Teams |-> IF t = team1 THEN 1 ELSE 2]

MCSetting == [kind |-> "plain", secret |-> [text |-> "shared", length |-> 32]]

MCFormer == [text |-> "former", length |-> 32]

=============================================================================
