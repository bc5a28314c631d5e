---------------------------- MODULE ChatHubProps ----------------------------
(***************************************************************************)
(* What must hold of the chat hub.  A client is registered once Run has    *)
(* taken it off the register channel.  Its feed is every message ever put  *)
(* into its send channel and not lost in a failed write: what the peer was *)
(* written, what writePump holds and what is still buffered.               *)
(***************************************************************************)
EXTENDS ChatHub

Registered(c) == handler[c] \in {"registered", "writing", "done"}

Feed(c) ==
  received[c] \o (IF inHand[c] = None THEN <<>> ELSE <<inHand[c]>>) \o sendq[c]

\* The events c is owed: those of its team that Run took up after c joined.
Owed(c) == {i \in from[c] + 1 .. Len(log) : log[i] = TeamOf[c]}

-----------------------------------------------------------------------------
\* The values of Hub.rooms.
RoomMaps == UNION {[T -> SUBSET Clients] : T \in SUBSET Teams}

\* Every variable has its type, and no channel holds more than its
\* capacity: Run never blocks on a full Client.send (hub.go:62-68).
TypeOK ==
  /\ rooms \in RoomMaps
  /\ broadcast \in Seq(Teams)
  /\ Len(broadcast) <= BroadcastCap
  /\ todo \subseteq Clients
  /\ pending \in [Publishers -> Teams \cup {None}]
  /\ handler \in [Clients -> {"new", "registering", "registered", "writing", "done"}]
  /\ reader \in [Clients -> {"off", "reading", "unregistering", "closing", "done"}]
  /\ writer \in [Clients -> {"off", "select", "writing", "closing", "done"}]
  /\ inHand \in [Clients -> Nat]
  /\ sendq \in [Clients -> Seq(Nat)]
  /\ \A c \in Clients : Len(sendq[c]) <= SendCap
  /\ sendClosed \in [Clients -> BOOLEAN]
  /\ kickers \in [Clients -> Nat]
  /\ connClosed \in [Clients -> BOOLEAN]
  /\ log \in Seq(Teams)
  /\ from \in [Clients -> Nat]
  /\ received \in [Clients -> Seq(Nat)]

\* A registered client is in the room of its team until its channel is
\* closed and never after, whoever asks for that and how often: readPump and
\* any number of spawned goroutines.  The close at hub.go:51 happens once, and
\* no room is left behind empty.
Membership ==
  /\ \A c \in Clients : Member(c) <=> Registered(c) /\ ~sendClosed[c]
  /\ \A t \in DOMAIN rooms :
       rooms[t] # {} /\ \A c \in rooms[t] : TeamOf[c] = t

\* Run never sends on a closed channel, which would panic the process: the
\* clients it still has to offer a message to (hub.go:61-69) have theirs open,
\* though they may be on their way out by several goroutines at once.
SafeSend == \A c \in todo : ~sendClosed[c] /\ Registered(c)

\* Order, no duplicates, isolation of teams, nothing from before joining:
\* the feed of a client goes forward through the events it is owed.
OrderedFeed ==
  \A c \in Clients :
    /\ \A i \in DOMAIN Feed(c) : Feed(c)[i] \in Owed(c)
    /\ \A i, j \in DOMAIN Feed(c) : i < j => Feed(c)[i] < Feed(c)[j]

\* No silent loss: a member whose writes have not failed, and whom nobody is
\* putting out, has every event it is owed in its feed, except the one Run is
\* about to offer it.
GapFree ==
  \A c \in Clients :
    /\ Member(c)
    /\ kickers[c] = 0
    /\ writer[c] \in {"off", "select", "writing"}
    => Owed(c) = {Feed(c)[i] : i \in DOMAIN Feed(c)}
                   \cup (IF c \in todo THEN {Len(log)} ELSE {})

-----------------------------------------------------------------------------
(* A goroutine spawned to put out a slow client is not there for ever, and *)
(* nothing of the client outlives it: it leaves its room, its connection   *)
(* is closed and both of its pumps return.                                 *)
TornDown(c) ==
  ~Member(c) /\ connClosed[c] /\ reader[c] = "done" /\ writer[c] = "done"

KickedLeaves ==
  \A c \in Clients : kickers[c] > 0 ~> TornDown(c) /\ kickers[c] = 0

\* Whichever pump gives up first, the other one follows and the client leaves
\* its room: no goroutine and no room entry is leaked (client.go:72-116).
NoLeak ==
  \A c \in Clients : (reader[c] = "unregistering" \/ writer[c] = "closing") ~> TornDown(c)

\* A publisher is never blocked for good, whatever the clients do: a handler
\* of POST /internal/publish answers, and the subscriber reads on.
PublishersReturn ==
  \A p \in Publishers : pending[p] # None ~> pending[p] = None

-----------------------------------------------------------------------------
(* The hub implements the feed of TeamFeed: a client is in from the moment *)
(* Run registers it, lags once somebody is asked to put it out, and is     *)
(* gone when its channel is closed.                                        *)
Status(c) ==
  IF ~Registered(c) THEN "out"
  ELSE IF sendClosed[c] THEN "gone"
  ELSE IF kickers[c] > 0 THEN "lagging"
  ELSE "in"

Abstract == INSTANCE TeamFeed
  WITH status <- [c \in Clients |-> Status(c)], stream <- received

\* Every step of the hub is a step of TeamFeed or invisible to it: a peer that
\* is not being put out is written the oldest event it is due, and a client
\* that fell behind once never catches up silently.
ImplementsTeamFeed == Abstract!FeedSpec

=============================================================================
