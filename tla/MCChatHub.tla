----------------------------- MODULE MCChatHub ------------------------------
(* Instances of ChatHubProps for TLC. *)
EXTENDS ChatHubProps, TLC

CONSTANTS c1, c2, c3

\* Two teams; c1 and c2 share the first.
MCTeams == {1, 2}
MCTeamOf == [c \in Clients |-> IF c = c3 THEN 2 ELSE 1]

\* Events as they come off Redis or the request body: of either team, or with
\* a field that makes the receiver drop them.
MCIncoming == [team : {0, 1, 2}, type : {"message", ""}]

\* Clients of one team are interchangeable.
Teammates == Permutations({c1, c2})

=============================================================================
