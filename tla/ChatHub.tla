------------------------------ MODULE ChatHub -------------------------------
(***************************************************************************)
(* The chat hub (internal/hub) with everything that touches it: the        *)
(* goroutine of Hub.Run, one HTTP handler per connection (ServeWS), one    *)
(* readPump and one writePump per connection, the goroutines Run spawns to *)
(* put out a client whose buffer is full, and the publishers: the Redis    *)
(* subscriber and the handlers of POST /internal/publish.                  *)
(*                                                                         *)
(* A rendezvous on an unbuffered channel is one action of both sides.  A   *)
(* buffered channel is a sequence with a capacity.  A payload is its       *)
(* position in `log', the order in which Run took the events off the       *)
(* broadcast channel.  `log', `from' and `received' only record history.   *)
(***************************************************************************)
EXTENDS Integers, Sequences, FiniteSets

CONSTANTS
  Clients,        \* the *Client values, one per accepted connection
  Teams,          \* the team ids in use
  TeamOf,         \* the team id in the ticket a connection was opened with
  Publishers,     \* the subscriber and the /internal/publish handlers
  Incoming,       \* decoded events: records [team |-> int, type |-> string]
  SendCap,        \* capacity of Client.send, 32 in the code
  BroadcastCap,   \* capacity of Hub.broadcast, 64 in the code
  MaxEvents       \* bound on the number of events accepted, for TLC

\* auth.ValidateToken admits no ticket with a team id below 1.
ASSUME ChatAssumption ==
  /\ IsFiniteSet(Clients)
  /\ Teams \subseteq Nat \ {0}
  /\ TeamOf \in [Clients -> Teams]
  /\ Incoming \subseteq [team : Teams \cup {0}, type : STRING]
  /\ SendCap \in Nat \ {0}
  /\ BroadcastCap \in Nat \ {0}
  /\ MaxEvents \in Nat

VARIABLES
  rooms,       \* Hub.rooms: a function whose domain is the teams with a room
  broadcast,   \* Hub.broadcast
  todo,        \* Run is in its broadcast case: the clients still to be offered
  pending,     \* pending[p]: the event p is blocked on sending, 0 for none
  handler,     \* progress of the HTTP handler of a connection through ServeWS
  reader,      \* progress of readPump
  writer,      \* progress of writePump
  inHand,      \* the message writePump took off send, 0 for none
  sendq,       \* Client.send
  sendClosed,  \* Client.send was closed
  kickers,     \* number of spawned goroutines blocked on h.unregister <- c
  connClosed,  \* conn.Close was called on this side
  log, from, received

hubVars == <<rooms, broadcast, todo>>
connVars == <<handler, reader, writer, inHand, sendq, sendClosed, kickers, connClosed>>
vars == <<hubVars, pending, connVars, log, from, received>>

None == 0

\* h.rooms[t], which is empty for a team without a room.
Members(t) == IF t \in DOMAIN rooms THEN rooms[t] ELSE {}

Member(c) == c \in Members(TeamOf[c])

-----------------------------------------------------------------------------
(* Hub.New, and the process before the first connection.                   *)
Init ==
  /\ rooms = [t \in {} |-> {}]
  /\ broadcast = <<>>
  /\ todo = {}
  /\ pending = [p \in Publishers |-> None]
  /\ handler = [c \in Clients |-> "new"]
  /\ reader = [c \in Clients |-> "off"]
  /\ writer = [c \in Clients |-> "off"]
  /\ inHand = [c \in Clients |-> None]
  /\ sendq = [c \in Clients |-> <<>>]
  /\ sendClosed = [c \in Clients |-> FALSE]
  /\ kickers = [c \in Clients |-> 0]
  /\ connClosed = [c \in Clients |-> FALSE]
  /\ log = <<>>
  /\ from = [c \in Clients |-> 0]
  /\ received = [c \in Clients |-> <<>>]

-----------------------------------------------------------------------------
(* Publishers.  An event without a team or a type is dropped; any other is *)
(* sent on the broadcast channel, which blocks while the channel is full.  *)

Accepted == Len(log) + Len(broadcast) + Cardinality({p \in Publishers : pending[p] # None})

Receive(p, e) ==
  /\ pending[p] = None
  /\ e.team >= 1
  /\ e.type # ""
  /\ Accepted < MaxEvents
  /\ pending' = [pending EXCEPT ![p] = e.team]
  /\ UNCHANGED <<hubVars, connVars, log, from, received>>

Publish(p) ==
  /\ pending[p] # None
  /\ Len(broadcast) < BroadcastCap
  /\ broadcast' = Append(broadcast, pending[p])
  /\ pending' = [pending EXCEPT ![p] = None]
  /\ UNCHANGED <<rooms, todo, connVars, log, from, received>>

-----------------------------------------------------------------------------
(* ServeWS: upgrade, register (a rendezvous with Run), start both pumps.   *)

Connect(c) ==
  /\ handler[c] = "new"
  /\ handler' = [handler EXCEPT ![c] = "registering"]
  /\ UNCHANGED <<hubVars, pending, reader, writer, inHand, sendq, sendClosed,
                 kickers, connClosed, log, from, received>>

StartWriter(c) ==
  /\ handler[c] = "registered"
  /\ handler' = [handler EXCEPT ![c] = "writing"]
  /\ writer' = [writer EXCEPT ![c] = "select"]
  /\ UNCHANGED <<hubVars, pending, reader, inHand, sendq, sendClosed,
                 kickers, connClosed, log, from, received>>

StartReader(c) ==
  /\ handler[c] = "writing"
  /\ handler' = [handler EXCEPT ![c] = "done"]
  /\ reader' = [reader EXCEPT ![c] = "reading"]
  /\ UNCHANGED <<hubVars, pending, writer, inHand, sendq, sendClosed,
                 kickers, connClosed, log, from, received>>

-----------------------------------------------------------------------------
(* Hub.Run.  It is at its select exactly when todo is empty: the register  *)
(* and unregister cases do not block, and the broadcast case goes through  *)
(* the room one client at a time while the pumps keep running.             *)

AtSelect == todo = {}

HubRegister(c) ==
  /\ AtSelect
  /\ handler[c] = "registering"
  /\ handler' = [handler EXCEPT ![c] = "registered"]
  /\ rooms' = [t \in DOMAIN rooms \cup {TeamOf[c]} |->
                 IF t = TeamOf[c] THEN Members(t) \cup {c} ELSE rooms[t]]
  /\ from' = [from EXCEPT ![c] = Len(log)]
  /\ UNCHANGED <<broadcast, todo, pending, reader, writer, inHand, sendq,
                 sendClosed, kickers, connClosed, log, received>>

\* Fault: the room is kept when its last client leaves.
RoomsWithoutKeepsEmpty(c) == [rooms EXCEPT ![TeamOf[c]] = @ \ {c}]

\* rooms without client c; a room that becomes empty goes too.
RoomsWithout(c) ==
  LET left == Members(TeamOf[c]) \ {c}
  IN  [t \in {u \in DOMAIN rooms : u = TeamOf[c] => left # {}} |->
         IF t = TeamOf[c] THEN left ELSE rooms[t]]

\* Fault: whoever wants the client out does it itself, and not in Run.
UnregisterOutsideRun(c) ==
  IF Member(c)
  THEN /\ rooms' = RoomsWithout(c)
       /\ sendClosed' = [sendClosed EXCEPT ![c] = TRUE]
  ELSE UNCHANGED <<rooms, sendClosed>>

\* The unregister case: it closes the channel of a member, once.
Unregister(c) ==
  /\ AtSelect
  /\ IF Member(c)
     THEN /\ rooms' = RoomsWithout(c)
          /\ sendClosed' = [sendClosed EXCEPT ![c] = TRUE]
     ELSE UNCHANGED <<rooms, sendClosed>>

\* Unregister asked for by the deferred call of readPump.
HubUnregister(c) ==
  /\ reader[c] = "unregistering"
  /\ Unregister(c)
  /\ reader' = [reader EXCEPT ![c] = "closing"]
  /\ UNCHANGED <<broadcast, todo, pending, handler, writer, inHand, sendq,
                 kickers, connClosed, log, from, received>>

\* Unregister asked for by a goroutine spawned in the broadcast case.
HubKick(c) ==
  /\ kickers[c] > 0
  /\ Unregister(c)
  /\ kickers' = [kickers EXCEPT ![c] = @ - 1]
  /\ UNCHANGED <<broadcast, todo, pending, handler, reader, writer, inHand,
                 sendq, connClosed, log, from, received>>

\* Fault: the message goes to the clients of every team.
HubBroadcastToAll ==
  /\ AtSelect
  /\ broadcast # <<>>
  /\ broadcast' = Tail(broadcast)
  /\ log' = Append(log, Head(broadcast))
  /\ todo' = UNION {rooms[t] : t \in DOMAIN rooms}
  /\ UNCHANGED <<rooms, pending, connVars, from, received>>

HubBroadcast ==
  /\ AtSelect
  /\ broadcast # <<>>
  /\ broadcast' = Tail(broadcast)
  /\ log' = Append(log, Head(broadcast))
  /\ todo' = Members(Head(broadcast))
  /\ UNCHANGED <<rooms, pending, connVars, from, received>>

\* Fault: the send is tried again until the client's buffer has room.
HubOfferRetries(c) ==
  /\ c \in todo
  /\ IF Len(sendq[c]) < SendCap
     THEN /\ sendq' = [sendq EXCEPT ![c] = Append(@, Len(log))]
          /\ todo' = todo \ {c}
     ELSE UNCHANGED <<sendq, todo>>
  /\ UNCHANGED <<rooms, broadcast, pending, handler, reader, writer, inHand,
                 kickers, sendClosed, connClosed, log, from, received>>

\* Fault: a message that does not fit is dropped and the client stays.
HubOfferDrops(c) ==
  /\ c \in todo
  /\ todo' = todo \ {c}
  /\ sendq' = IF Len(sendq[c]) < SendCap
              THEN [sendq EXCEPT ![c] = Append(@, Len(log))]
              ELSE sendq
  /\ UNCHANGED <<rooms, broadcast, pending, handler, reader, writer, inHand,
                 kickers, sendClosed, connClosed, log, from, received>>

\* Fault: the buffer takes one message more than it has room for.
HubOfferOverfills(c) ==
  /\ c \in todo
  /\ todo' = todo \ {c}
  /\ IF Len(sendq[c]) <= SendCap
     THEN /\ sendq' = [sendq EXCEPT ![c] = Append(@, Len(log))]
          /\ UNCHANGED kickers
     ELSE /\ kickers' = [kickers EXCEPT ![c] = @ + 1]
          /\ UNCHANGED sendq
  /\ UNCHANGED <<rooms, broadcast, pending, handler, reader, writer, inHand,
                 sendClosed, connClosed, log, from, received>>

\* One iteration of the fan-out: a non-blocking send, or a spawned kicker.
HubOffer(c) ==
  /\ c \in todo
  /\ todo' = todo \ {c}
  /\ IF Len(sendq[c]) < SendCap
     THEN /\ sendq' = [sendq EXCEPT ![c] = Append(@, Len(log))]
          /\ UNCHANGED kickers
     ELSE /\ kickers' = [kickers EXCEPT ![c] = @ + 1]
          /\ UNCHANGED sendq
  /\ UNCHANGED <<rooms, broadcast, pending, handler, reader, writer, inHand,
                 sendClosed, connClosed, log, from, received>>

-----------------------------------------------------------------------------
(* readPump: the peer's messages are read and ignored until a read fails,  *)
(* because the peer closed, sent too much, missed its pongs, or because    *)
(* this side closed the connection.                                        *)

\* Fault: the deferred call closes the connection and does not unregister.
ReadFailsKeepsMember(c) ==
  /\ reader[c] = "reading"
  /\ reader' = [reader EXCEPT ![c] = "closing"]
  /\ UNCHANGED <<hubVars, pending, handler, writer, inHand, sendq, sendClosed,
                 kickers, connClosed, log, from, received>>

ReadFails(c) ==
  /\ reader[c] = "reading"
  /\ reader' = [reader EXCEPT ![c] = "unregistering"]
  /\ UNCHANGED <<hubVars, pending, handler, writer, inHand, sendq, sendClosed,
                 kickers, connClosed, log, from, received>>

ReaderCloses(c) ==
  /\ reader[c] = "closing"
  /\ reader' = [reader EXCEPT ![c] = "done"]
  /\ connClosed' = [connClosed EXCEPT ![c] = TRUE]
  /\ UNCHANGED <<hubVars, pending, handler, writer, inHand, sendq, sendClosed,
                 kickers, log, from, received>>

-----------------------------------------------------------------------------
(* writePump: one message of send, or one ping, at a time.                 *)

WriterTakes(c) ==
  /\ writer[c] = "select"
  /\ sendq[c] # <<>>
  /\ writer' = [writer EXCEPT ![c] = "writing"]
  /\ inHand' = [inHand EXCEPT ![c] = Head(sendq[c])]
  /\ sendq' = [sendq EXCEPT ![c] = Tail(@)]
  /\ UNCHANGED <<hubVars, pending, handler, reader, sendClosed, kickers,
                 connClosed, log, from, received>>

\* The write went through; it cannot on a connection this side has closed.
WriteSucceeds(c) ==
  /\ writer[c] = "writing"
  /\ ~connClosed[c]
  /\ writer' = [writer EXCEPT ![c] = "select"]
  /\ inHand' = [inHand EXCEPT ![c] = None]
  /\ received' = [received EXCEPT ![c] = Append(@, inHand[c])]
  /\ UNCHANGED <<hubVars, pending, handler, reader, sendq, sendClosed, kickers,
                 connClosed, log, from>>

\* Fault: a failed write is ignored and the pump goes on to the next message.
WriteFailsGoesOn(c) ==
  /\ writer[c] = "writing"
  /\ writer' = [writer EXCEPT ![c] = "select"]
  /\ inHand' = [inHand EXCEPT ![c] = None]
  /\ UNCHANGED <<hubVars, pending, handler, reader, sendq, sendClosed, kickers,
                 connClosed, log, from, received>>

\* A write or a ping failed: the pump returns without unregistering.
WriteFails(c) ==
  /\ writer[c] \in {"select", "writing"}
  /\ writer' = [writer EXCEPT ![c] = "closing"]
  /\ inHand' = [inHand EXCEPT ![c] = None]
  /\ UNCHANGED <<hubVars, pending, handler, reader, sendq, sendClosed, kickers,
                 connClosed, log, from, received>>

\* Fault: the pump returns after the close frame and leaves the connection.
WriterSeesClosedOnly(c) ==
  /\ writer[c] = "select"
  /\ sendq[c] = <<>>
  /\ sendClosed[c]
  /\ writer' = [writer EXCEPT ![c] = "done"]
  /\ UNCHANGED <<hubVars, pending, handler, reader, inHand, sendq, sendClosed,
                 kickers, connClosed, log, from, received>>

\* send is closed and drained: write a close frame, whatever becomes of it.
WriterSeesClosed(c) ==
  /\ writer[c] = "select"
  /\ sendq[c] = <<>>
  /\ sendClosed[c]
  /\ writer' = [writer EXCEPT ![c] = "closing"]
  /\ UNCHANGED <<hubVars, pending, handler, reader, inHand, sendq, sendClosed,
                 kickers, connClosed, log, from, received>>

WriterCloses(c) ==
  /\ writer[c] = "closing"
  /\ writer' = [writer EXCEPT ![c] = "done"]
  /\ connClosed' = [connClosed EXCEPT ![c] = TRUE]
  /\ UNCHANGED <<hubVars, pending, handler, reader, inHand, sendq, sendClosed,
                 kickers, log, from, received>>

-----------------------------------------------------------------------------
(* The process at rest: no goroutine is blocked on another one.  Stuttering *)
(* here lets TLC report every other state without a successor as deadlock. *)
AtRest ==
  /\ AtSelect
  /\ broadcast = <<>>
  /\ \A p \in Publishers : pending[p] = None
  /\ \A c \in Clients :
       /\ handler[c] \in {"new", "done"}
       /\ reader[c] \in {"off", "done"}
       /\ writer[c] \in {"off", "done"}
       /\ kickers[c] = 0
  /\ UNCHANGED vars

Hub(c) == HubRegister(c) \/ HubUnregister(c) \/ HubKick(c) \/ HubOffer(c)

Serve(c) == Connect(c) \/ StartWriter(c) \/ StartReader(c)

ReadPump(c) == ReadFails(c) \/ ReaderCloses(c)

WritePump(c) ==
  \/ WriterTakes(c) \/ WriteSucceeds(c) \/ WriteFails(c)
  \/ WriterSeesClosed(c) \/ WriterCloses(c)

Next ==
  \/ \E p \in Publishers : Publish(p) \/ \E e \in Incoming : Receive(p, e)
  \/ \E c \in Clients : Serve(c) \/ Hub(c) \/ ReadPump(c) \/ WritePump(c)
  \/ HubBroadcast
  \/ AtRest

Spec == Init /\ [][Next]_vars

-----------------------------------------------------------------------------
(* Fairness.  Go runs every runnable goroutine again and again.  A select  *)
(* with several ready cases picks one at random and a channel serves its   *)
(* waiters in turn, so a case of Run and a send on broadcast that are      *)
(* possible again and again happen: strong fairness.  A write ends within  *)
(* writeWait, one way or the other, and on a closed connection the next    *)
(* read and the next ping fail.  Nothing makes a peer connect or leave.    *)
Fairness ==
  /\ \A p \in Publishers : SF_vars(Publish(p))
  /\ WF_vars(HubBroadcast)
  /\ \A c \in Clients :
       /\ WF_vars(StartWriter(c) \/ StartReader(c))
       /\ SF_vars(HubRegister(c))
       /\ SF_vars(HubUnregister(c))
       /\ SF_vars(HubKick(c))
       /\ WF_vars(HubOffer(c))
       /\ WF_vars(ReaderCloses(c))
       /\ WF_vars(connClosed[c] /\ ReadFails(c))
       /\ WF_vars(WriterTakes(c) \/ WriterSeesClosed(c) \/ WriterCloses(c))
       /\ WF_vars(WriteSucceeds(c) \/ (writer[c] = "writing" /\ WriteFails(c)))
       /\ WF_vars(connClosed[c] /\ WriteFails(c))

FairSpec == Spec /\ Fairness

=============================================================================
