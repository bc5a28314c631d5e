------------------------------ MODULE TeamFeed ------------------------------
(***************************************************************************)
(* What the chat server promises an editor of a team, with no hub, no      *)
(* channels and no goroutines: the events of all teams form one log, and a *)
(* member's stream is the events of its own team, in the order of the log, *)
(* from the moment it joined.  While a member keeps up nothing is left     *)
(* out.  A member that was left behind is "lagging": its stream may have   *)
(* gaps from then on, and the only way out of lagging is to be put out.    *)
(* ChatHub implements this module.                                         *)
(***************************************************************************)
EXTENDS Integers, Sequences

CONSTANTS Clients, Teams, TeamOf

VARIABLES
  log,      \* the teams of the events published so far, oldest first
  status,   \* status[c] is "out", "in", "lagging" or "gone"
  from,     \* from[c] is the length of the log when c joined
  stream    \* stream[c] is the sequence of log positions c has been sent

feedVars == <<log, status, from, stream>>

\* The position in the log up to which c has been served.
Served(c) == IF stream[c] = <<>> THEN from[c] ELSE stream[c][Len(stream[c])]

\* The events of c's team that c has not been served.
Due(c) == {i \in Served(c) + 1 .. Len(log) : log[i] = TeamOf[c]}

FeedInit ==
  /\ log = <<>>
  /\ status = [c \in Clients |-> "out"]
  /\ from = [c \in Clients |-> 0]
  /\ stream = [c \in Clients |-> <<>>]

FeedPublish(t) ==
  /\ log' = Append(log, t)
  /\ UNCHANGED <<status, from, stream>>

FeedJoin(c) ==
  /\ status[c] = "out"
  /\ status' = [status EXCEPT ![c] = "in"]
  /\ from' = [from EXCEPT ![c] = Len(log)]
  /\ UNCHANGED <<log, stream>>

\* A member that keeps up is sent the oldest event it is due; one that was
\* left behind, or is being put out, is sent some later event or none.
FeedDeliver(c, i) ==
  /\ status[c] # "out"
  /\ i \in Due(c)
  /\ status[c] = "in" => \A j \in Due(c) : i <= j
  /\ stream' = [stream EXCEPT ![c] = Append(@, i)]
  /\ UNCHANGED <<log, status, from>>

FeedLag(c) ==
  /\ status[c] = "in"
  /\ status' = [status EXCEPT ![c] = "lagging"]
  /\ UNCHANGED <<log, from, stream>>

FeedLeave(c) ==
  /\ status[c] \in {"in", "lagging"}
  /\ status' = [status EXCEPT ![c] = "gone"]
  /\ UNCHANGED <<log, from, stream>>

FeedNext ==
  \/ \E t \in Teams : FeedPublish(t)
  \/ \E c \in Clients :
       \/ FeedJoin(c)
       \/ \E i \in Due(c) : FeedDeliver(c, i)
       \/ FeedLag(c)
       \/ FeedLeave(c)

FeedSpec == FeedInit /\ [][FeedNext]_feedVars

=============================================================================
