---------------------------- MODULE ChatHubProofs ---------------------------
(***************************************************************************)
(* Proofs about the chat hub, for any clients, teams, publishers, events   *)
(* and capacities: type correctness, that no client's channel is sent on   *)
(* or closed once it is closed, what a client is sent, and that the hub    *)
(* implements TeamFeed.                                                    *)
(***************************************************************************)
EXTENDS ChatHubProps, TLAPS

\* Until Run registers it, nothing has happened to a client.
Fresh ==
  \A c \in Clients :
    ~Registered(c) => ~sendClosed[c] /\ kickers[c] = 0 /\ inHand[c] = None
                      /\ sendq[c] = <<>> /\ received[c] = <<>>
                      /\ reader[c] = "off" /\ writer[c] = "off"

\* A pump is off until the handler starts it.
PumpsStart ==
  \A c \in Clients : handler[c] = "registered" => writer[c] = "off" /\ reader[c] = "off"

HubInv == TypeOK /\ Membership /\ SafeSend /\ Fresh /\ PumpsStart

-----------------------------------------------------------------------------
(* The type of rooms, as the provers like it.                              *)
LEMMA RoomsType ==
  ASSUME NEW R
  PROVE  R \in RoomMaps
         <=> /\ R = [t \in DOMAIN R |-> R[t]]
             /\ DOMAIN R \subseteq Teams
             /\ \A t \in DOMAIN R : R[t] \subseteq Clients
  BY DEF RoomMaps

\* The initial state has the types and satisfies the invariant.
LEMMA InitHubInv == Init => HubInv
<1> SUFFICES ASSUME Init PROVE HubInv
  OBVIOUS
<1>1. rooms \in RoomMaps
  BY RoomsType DEF Init
<1>2. TypeOK
  <2>1. /\ <<>> \in Seq(Nat) /\ <<>> \in Seq(Teams)
        /\ Len(<<>>) <= BroadcastCap /\ Len(<<>>) <= SendCap
    BY ChatAssumption
  <2> QED
    BY <1>1, <2>1 DEF Init, TypeOK, None
<1>3. Membership /\ SafeSend /\ Fresh /\ PumpsStart
  BY DEF Init, Membership, SafeSend, Fresh, PumpsStart, Registered, Member, Members
<1> QED
  BY <1>2, <1>3 DEF HubInv

\* Every step keeps the types.
LEMMA NextTypeOK == TypeOK /\ [Next]_vars => TypeOK'
<1> SUFFICES ASSUME TypeOK, [Next]_vars PROVE TypeOK'
  OBVIOUS
<1> USE ChatAssumption
<1>1. ASSUME NEW p \in Publishers, NEW e \in Incoming, Receive(p, e) PROVE TypeOK'
  BY <1>1 DEF TypeOK, Receive, hubVars, connVars, None
<1>2. ASSUME NEW p \in Publishers, Publish(p) PROVE TypeOK'
  BY <1>2 DEF TypeOK, Publish, connVars, None
<1>3. ASSUME NEW c \in Clients, Serve(c) PROVE TypeOK'
  <2>1. CASE Connect(c)
    BY <2>1 DEF TypeOK, Connect, hubVars
  <2>2. CASE StartWriter(c)
    BY <2>2 DEF TypeOK, StartWriter, hubVars
  <2>3. CASE StartReader(c)
    BY <2>3 DEF TypeOK, StartReader, hubVars
  <2> QED
    BY <1>3, <2>1, <2>2, <2>3 DEF Serve
<1>4. ASSUME NEW c \in Clients, HubRegister(c) PROVE TypeOK'
  <2>1. rooms' \in RoomMaps
    <3>1. /\ DOMAIN rooms \subseteq Teams
          /\ \A t \in DOMAIN rooms : rooms[t] \subseteq Clients
      BY RoomsType DEF TypeOK
    <3>2. TeamOf[c] \in Teams
      OBVIOUS
    <3>3. Members(TeamOf[c]) \cup {c} \subseteq Clients
      BY <3>1 DEF Members
    <3>4. /\ rooms' = [t \in DOMAIN rooms' |-> rooms'[t]]
          /\ DOMAIN rooms' \subseteq Teams
          /\ \A t \in DOMAIN rooms' : rooms'[t] \subseteq Clients
      BY <1>4, <3>1, <3>2, <3>3 DEF HubRegister
    <3> QED
      BY <3>4, RoomsType
  <2> QED
    BY <1>4, <2>1 DEF TypeOK, HubRegister
<1>5. ASSUME NEW c \in Clients, Unregister(c)
      PROVE  /\ rooms' \in RoomMaps
             /\ sendClosed' \in [Clients -> BOOLEAN]
  <2>1. RoomsWithout(c) \in RoomMaps
    <3> DEFINE R == RoomsWithout(c)
    <3>1. /\ DOMAIN rooms \subseteq Teams
          /\ \A t \in DOMAIN rooms : rooms[t] \subseteq Clients
      BY RoomsType DEF TypeOK
    <3>2. Members(TeamOf[c]) \ {c} \subseteq Clients
      BY <3>1 DEF Members
    <3>3. /\ R = [t \in DOMAIN R |-> R[t]]
          /\ DOMAIN R \subseteq Teams
          /\ \A t \in DOMAIN R : R[t] \subseteq Clients
      BY <3>1, <3>2 DEF RoomsWithout
    <3> HIDE DEF R
    <3>4. R \in RoomMaps
      BY <3>3, RoomsType
    <3> QED
      BY <3>4 DEF R
  <2> QED
    BY <1>5, <2>1 DEF TypeOK, Unregister
<1>6. ASSUME NEW c \in Clients, HubUnregister(c) PROVE TypeOK'
  BY <1>5, <1>6 DEF TypeOK, HubUnregister
<1>7. ASSUME NEW c \in Clients, HubKick(c) PROVE TypeOK'
  <2>1. /\ rooms' \in RoomMaps /\ sendClosed' \in [Clients -> BOOLEAN]
        /\ kickers' \in [Clients -> Nat]
    BY <1>5, <1>7 DEF TypeOK, HubKick
  <2>2. UNCHANGED <<broadcast, todo, pending, handler, reader, writer, inHand,
                    sendq, connClosed, log, from, received>>
    BY <1>7 DEF HubKick
  <2> QED
    BY <2>1, <2>2 DEF TypeOK
<1>8. ASSUME HubBroadcast PROVE TypeOK'
  <2>1. Members(Head(broadcast)) \subseteq Clients
    BY <1>8, RoomsType DEF TypeOK, Members
  <2> QED
    BY <1>8, <2>1 DEF TypeOK, HubBroadcast, connVars
<1>9. ASSUME NEW c \in Clients, HubOffer(c) PROVE TypeOK'
  <2>1. CASE Len(sendq[c]) < SendCap
    <3>1. /\ Append(sendq[c], Len(log)) \in Seq(Nat)
          /\ Len(Append(sendq[c], Len(log))) <= SendCap
      BY <2>1 DEF TypeOK
    <3> QED
      BY <1>9, <2>1, <3>1 DEF TypeOK, HubOffer
  <2>2. CASE ~(Len(sendq[c]) < SendCap)
    <3>1. kickers' = [kickers EXCEPT ![c] = @ + 1] /\ todo' = todo \ {c} /\ sendq' = sendq
      BY <1>9, <2>2 DEF HubOffer
    <3>2. kickers' \in [Clients -> Nat] /\ todo' \subseteq Clients
      BY <3>1 DEF TypeOK
    <3> QED
      BY <1>9, <3>1, <3>2 DEF TypeOK, HubOffer
  <2> QED
    BY <2>1, <2>2
<1>10. ASSUME NEW c \in Clients, ReadPump(c) PROVE TypeOK'
  <2>1. CASE ReadFails(c)
    BY <2>1 DEF TypeOK, ReadFails, hubVars
  <2>2. CASE ReaderCloses(c)
    BY <2>2 DEF TypeOK, ReaderCloses, hubVars
  <2> QED
    BY <1>10, <2>1, <2>2 DEF ReadPump
<1>11. ASSUME NEW c \in Clients, WritePump(c) PROVE TypeOK'
  <2>1. CASE WriterTakes(c)
    <3>1. Head(sendq[c]) \in Nat /\ Tail(sendq[c]) \in Seq(Nat) /\ Len(Tail(sendq[c])) <= SendCap
      BY <2>1 DEF TypeOK, WriterTakes
    <3>2. /\ inHand' \in [Clients -> Nat]
          /\ sendq' \in [Clients -> Seq(Nat)]
          /\ \A d \in Clients : Len(sendq'[d]) <= SendCap
      BY <2>1, <3>1 DEF TypeOK, WriterTakes
    <3> QED
      BY <2>1, <3>2 DEF TypeOK, WriterTakes, hubVars
  <2>2. CASE WriteSucceeds(c)
    BY <2>2 DEF TypeOK, WriteSucceeds, hubVars, None
  <2>3. CASE WriteFails(c)
    BY <2>3 DEF TypeOK, WriteFails, hubVars, None
  <2>4. CASE WriterSeesClosed(c)
    BY <2>4 DEF TypeOK, WriterSeesClosed, hubVars
  <2>5. CASE WriterCloses(c)
    BY <2>5 DEF TypeOK, WriterCloses, hubVars
  <2> QED
    BY <1>11, <2>1, <2>2, <2>3, <2>4, <2>5 DEF WritePump
<1>12. CASE UNCHANGED vars
  BY <1>12 DEF TypeOK, vars, hubVars, connVars
<1> QED
  BY <1>1, <1>2, <1>3, <1>4, <1>6, <1>7, <1>8, <1>9, <1>10, <1>11, <1>12
  DEF Next, Hub, AtRest

-----------------------------------------------------------------------------
(* The steps that touch a room, and what they leave of Members.            *)

LEMMA RegisterMembers ==
  ASSUME TypeOK, NEW c \in Clients, HubRegister(c), NEW d \in Clients
  PROVE  Member(d)' <=> Member(d) \/ d = c
  BY DEF HubRegister, Member, Members

LEMMA UnregisterMembers ==
  ASSUME TypeOK, NEW c \in Clients, Unregister(c), NEW d \in Clients
  PROVE  /\ Member(d)' <=> Member(d) /\ d # c
         /\ sendClosed'[d] <=> sendClosed[d] \/ (d = c /\ Member(c))
<1>1. CASE Member(c)
  <2>1. Member(d)' <=> Member(d) /\ d # c
    BY <1>1 DEF Unregister, RoomsWithout, Member, Members
  <2>2. sendClosed'[d] <=> sendClosed[d] \/ (d = c /\ Member(c))
    BY <1>1 DEF Unregister, TypeOK
  <2> QED
    BY <2>1, <2>2
<1>2. CASE ~Member(c)
  <2>1. rooms' = rooms /\ sendClosed' = sendClosed
    BY <1>2 DEF Unregister
  <2>2. Member(d)' <=> Member(d)
    BY <2>1 DEF Member, Members
  <2> QED
    BY <1>2, <2>1, <2>2
<1> QED
  BY <1>1, <1>2

LEMMA RoomsWellFormed ==
  ASSUME TypeOK, Membership, NEW c \in Clients, Unregister(c)
  PROVE  \A t \in DOMAIN rooms' :
           rooms'[t] # {} /\ \A d \in rooms'[t] : TeamOf[d] = t
  BY DEF Unregister, RoomsWithout, Membership, Member, Members

-----------------------------------------------------------------------------
(* Membership and SafeSend.  Run closes a channel only at its select, when *)
(* todo is empty, and only of a client that it takes out of the room in    *)
(* the same step; todo is filled from the room.                            *)
LEMMA NextHubInv == HubInv /\ [Next]_vars => HubInv'
<1> SUFFICES ASSUME HubInv, [Next]_vars PROVE HubInv'
  OBVIOUS
<1> USE DEF HubInv
<1>0. TypeOK'
  BY NextTypeOK
<1> DEFINE Rest == Membership /\ SafeSend /\ Fresh /\ PumpsStart
<1>1. ASSUME UNCHANGED <<rooms, todo, handler, sendClosed, kickers, inHand,
                         sendq, received, reader, writer>>
      PROVE  Rest'
  BY <1>1 DEF Membership, SafeSend, Fresh, PumpsStart, Registered, Member, Members
<1>2. ASSUME NEW p \in Publishers, Publish(p) \/ \E e \in Incoming : Receive(p, e)
      PROVE  Rest'
  BY <1>1, <1>2 DEF Publish, Receive, hubVars, connVars
<1>3. ASSUME NEW c \in Clients, Serve(c) PROVE Rest'
  <2>1. rooms' = rooms /\ todo' = todo /\ sendClosed' = sendClosed /\ kickers' = kickers
        /\ inHand' = inHand /\ sendq' = sendq /\ received' = received
    BY <1>3 DEF Serve, Connect, StartWriter, StartReader, hubVars
  <2>2. \A d \in Clients : Registered(d)' <=> Registered(d)
    BY <1>3 DEF Serve, Connect, StartWriter, StartReader, TypeOK, Registered
  <2>3. Membership' /\ SafeSend'
    BY <2>1, <2>2 DEF Membership, SafeSend, Member, Members, TypeOK
  <2>4. \A d \in Clients : ~Registered(d)' => reader'[d] = reader[d] /\ writer'[d] = writer[d]
    BY <1>3 DEF Serve, Connect, StartWriter, StartReader, TypeOK, Registered
  <2>5. Fresh'
    BY <2>1, <2>2, <2>4 DEF Fresh
  <2>6. PumpsStart'
    <3>1. CASE Connect(c)
      BY <3>1 DEF Connect, TypeOK, PumpsStart
    <3>2. CASE StartWriter(c)
      BY <3>2 DEF StartWriter, TypeOK, PumpsStart
    <3>3. CASE StartReader(c)
      BY <3>3 DEF StartReader, TypeOK, PumpsStart
    <3> QED
      BY <1>3, <3>1, <3>2, <3>3 DEF Serve
  <2> QED
    BY <2>3, <2>5, <2>6
<1>4. ASSUME NEW c \in Clients, HubRegister(c) PROVE Rest'
  <2>1. ~Registered(c)
    BY <1>4 DEF HubRegister, Registered
  <2>2. \A d \in Clients : Registered(d)' <=> Registered(d) \/ d = c
    BY <1>4 DEF HubRegister, TypeOK, Registered
  <2>3. \A d \in Clients : Member(d)' <=> Member(d) \/ d = c
    BY <1>4, RegisterMembers
  <2>4. \A t \in DOMAIN rooms' :
          rooms'[t] # {} /\ \A d \in rooms'[t] : TeamOf[d] = t
    BY <1>4 DEF HubRegister, Membership, Members
  <2>5. Membership'
    <3>1. sendClosed' = sendClosed
      BY <1>4 DEF HubRegister
    <3>2. \A d \in Clients : Member(d)' <=> Registered(d)' /\ ~sendClosed'[d]
      BY <2>1, <2>2, <2>3, <3>1 DEF Membership, Fresh
    <3> QED
      BY <2>4, <3>2 DEF Membership
  <2>6. SafeSend' /\ Fresh'
    BY <1>4, <2>1, <2>2 DEF SafeSend, Fresh, HubRegister, AtSelect
  <2>7. PumpsStart'
    BY <1>4, <2>1 DEF PumpsStart, Fresh, HubRegister, TypeOK
  <2> QED
    BY <2>5, <2>6, <2>7
<1>5. ASSUME NEW c \in Clients, Unregister(c), Registered(c) \/ kickers[c] > 0,
             UNCHANGED <<todo, handler>>
      PROVE  Membership' /\ SafeSend'
  <2>1. \A d \in Clients : Registered(d)' <=> Registered(d)
    BY <1>5 DEF Registered
  <2>2. \A d \in Clients :
          /\ Member(d)' <=> Member(d) /\ d # c
          /\ sendClosed'[d] <=> sendClosed[d] \/ (d = c /\ Member(c))
    BY <1>5, UnregisterMembers
  <2>3. \A t \in DOMAIN rooms' :
          rooms'[t] # {} /\ \A d \in rooms'[t] : TeamOf[d] = t
    BY <1>5, RoomsWellFormed
  <2>4. Membership'
    BY <2>1, <2>2, <2>3, <1>5 DEF Membership
  <2>5. SafeSend'
    BY <1>5 DEF SafeSend, Unregister, AtSelect
  <2> QED
    BY <2>4, <2>5
<1>6. ASSUME NEW c \in Clients, HubUnregister(c) \/ HubKick(c) PROVE Rest'
  <2>1. Unregister(c) /\ Registered(c) /\ UNCHANGED <<todo, handler, writer, inHand, sendq, received>>
    BY <1>6 DEF HubUnregister, HubKick, Fresh, TypeOK
  <2>2. Membership' /\ SafeSend'
    BY <1>5, <2>1
  <2>3. \A d \in Clients : d # c => kickers'[d] = kickers[d] /\ reader'[d] = reader[d]
    BY <1>6 DEF HubUnregister, HubKick, TypeOK
  <2>4. \A d \in Clients : d # c => (sendClosed'[d] <=> sendClosed[d])
    BY <2>1, UnregisterMembers
  <2>5. Fresh'
    BY <2>1, <2>3, <2>4 DEF Fresh, Registered
  <2>6. reader[c] # "off" \/ kickers[c] > 0
    BY <1>6 DEF HubUnregister, HubKick
  <2>7. PumpsStart'
    BY <1>6, <2>1, <2>3 DEF PumpsStart, HubUnregister, HubKick, TypeOK
  <2> QED
    BY <2>2, <2>5, <2>7
<1>7. ASSUME HubBroadcast PROVE Rest'
  <2>1. UNCHANGED <<rooms, handler, sendClosed, kickers, inHand, sendq, received, reader, writer>>
    BY <1>7 DEF HubBroadcast, connVars
  <2>2. Membership' /\ Fresh' /\ PumpsStart'
    BY <2>1 DEF Membership, Fresh, PumpsStart, Registered, Member, Members
  <2>3. \A c \in todo' : Member(c)
    BY <1>7 DEF HubBroadcast, Members, Member, Membership
  <2>4. SafeSend'
    BY <2>1, <2>3, <1>0 DEF SafeSend, Membership, TypeOK, Registered
  <2> QED
    BY <2>2, <2>4
<1>8. ASSUME NEW c \in Clients, HubOffer(c) PROVE Rest'
  <2>1. UNCHANGED <<rooms, handler, sendClosed, inHand, received, reader, writer>>
    BY <1>8 DEF HubOffer
  <2>2. Membership' /\ SafeSend' /\ PumpsStart'
    BY <1>8, <2>1 DEF HubOffer, Membership, SafeSend, PumpsStart, Registered, Member, Members
  <2>3. Registered(c)
    BY <1>8 DEF HubOffer, SafeSend
  <2>4. Fresh'
    BY <1>8, <2>1, <2>3 DEF HubOffer, Fresh, Registered, TypeOK
  <2> QED
    BY <2>2, <2>4
<1>9. ASSUME NEW c \in Clients, ReadPump(c) \/ WritePump(c) PROVE Rest'
  <2>1. UNCHANGED <<rooms, todo, handler, sendClosed, kickers>>
    BY <1>9 DEF ReadPump, ReadFails, ReaderCloses, WritePump, WriterTakes, WriteSucceeds,
                WriteFails, WriterSeesClosed, WriterCloses, hubVars
  <2>2. Membership' /\ SafeSend'
    BY <2>1 DEF Membership, SafeSend, Registered, Member, Members
  <2>3. handler[c] # "registered" /\ Registered(c)
    BY <1>9 DEF ReadPump, ReadFails, ReaderCloses, WritePump, WriterTakes, WriteSucceeds,
                WriteFails, WriterSeesClosed, WriterCloses, Fresh, PumpsStart
  <2>4. \A d \in Clients : d # c =>
          /\ inHand'[d] = inHand[d] /\ sendq'[d] = sendq[d] /\ received'[d] = received[d]
          /\ reader'[d] = reader[d] /\ writer'[d] = writer[d]
    BY <1>9 DEF ReadPump, ReadFails, ReaderCloses, WritePump, WriterTakes, WriteSucceeds,
                WriteFails, WriterSeesClosed, WriterCloses, TypeOK
  <2>5. Fresh' /\ PumpsStart'
    BY <2>1, <2>3, <2>4 DEF Fresh, PumpsStart, Registered
  <2> QED
    BY <2>2, <2>5
<1>10. ASSUME UNCHANGED vars PROVE Rest'
  <2>1. UNCHANGED <<rooms, todo, handler, sendClosed, kickers, inHand,
                    sendq, received, reader, writer>>
    BY <1>10 DEF vars, hubVars, connVars
  <2> QED
    BY <1>1, <2>1
<1>11. Rest'
  BY <1>2, <1>3, <1>4, <1>6, <1>7, <1>8, <1>9, <1>10 DEF Next, Hub, AtRest
<1> QED
  BY <1>0, <1>11

\* HubInv is an invariant of the hub.
THEOREM HubInvariant == Spec => []HubInv
BY InitHubInv, NextHubInv, PTL DEF Spec

\* The types are right in every reachable state, for any number of clients
\* and any capacities.
THEOREM TypeCorrect == Spec => []TypeOK
BY HubInvariant, PTL DEF HubInv

\* A client's channel is closed once, when it leaves its room, and no
\* interleaving of readPump and spawned goroutines closes it again.
THEOREM MembershipHolds == Spec => []Membership
BY HubInvariant, PTL DEF HubInv

\* Run never sends on a closed channel.
THEOREM SafeSendHolds == Spec => []SafeSend
BY HubInvariant, PTL DEF HubInv

-----------------------------------------------------------------------------
(* What a client is sent: OrderedFeed and GapFree.                         *)

Held(c) == IF inHand[c] = None THEN <<>> ELSE <<inHand[c]>>

\* The client Run is about to offer the newest event is owed it and does not
\* have it; nobody joined in the future; writePump holds a message while it
\* writes and at no other time.
Offerable ==
  \A c \in todo :
    Len(log) \in Owed(c) /\ \A i \in DOMAIN Feed(c) : Feed(c)[i] # Len(log)

FromBounded == \A c \in Clients : from[c] <= Len(log)

HandMatches == \A c \in Clients : writer[c] = "writing" <=> inHand[c] # None

FeedInv == HubInv /\ OrderedFeed /\ GapFree /\ Offerable /\ FromBounded /\ HandMatches

-----------------------------------------------------------------------------
(* Moving a message from one part of the feed to the next leaves the feed  *)
(* as it is; a message put in the channel is appended to it.               *)

LEMMA FeedType ==
  ASSUME TypeOK, NEW c \in Clients
  PROVE  Feed(c) \in Seq(Nat) /\ Feed(c) = received[c] \o Held(c) \o sendq[c]
                              /\ Held(c) \in Seq(Nat)
  BY DEF TypeOK, Feed, Held

LEMMA ConcatAppend ==
  ASSUME NEW r \in Seq(Nat), NEW m \in Seq(Nat), NEW q \in Seq(Nat), NEW n \in Nat
  PROVE  r \o m \o Append(q, n) = Append(r \o m \o q, n)
  OBVIOUS

LEMMA ConcatHead ==
  ASSUME NEW r \in Seq(Nat), NEW q \in Seq(Nat), q # <<>>
  PROVE  r \o <<Head(q)>> \o Tail(q) = r \o <<>> \o q
  OBVIOUS

LEMMA ConcatShift ==
  ASSUME NEW r \in Seq(Nat), NEW q \in Seq(Nat), NEW h \in Nat
  PROVE  Append(r, h) \o <<>> \o q = r \o <<h>> \o q
  OBVIOUS

\* Leaving the middle out: every position of what is left was one before.
LEMMA ConcatDrop ==
  ASSUME NEW r \in Seq(Nat), NEW m \in Seq(Nat), NEW q \in Seq(Nat)
  PROVE  LET s == r \o <<>> \o q
             o == r \o m \o q
             at(i) == IF i <= Len(r) THEN i ELSE i + Len(m)
         IN  \A i \in DOMAIN s : at(i) \in DOMAIN o /\ s[i] = o[at(i)]
  BY SMTT(30)

LEMMA AppendAt ==
  ASSUME NEW s \in Seq(Nat), NEW n \in Nat
  PROVE  /\ DOMAIN Append(s, n) = DOMAIN s \cup {Len(s) + 1}
         /\ \A i \in DOMAIN s : Append(s, n)[i] = s[i] /\ i < Len(s) + 1
         /\ Append(s, n)[Len(s) + 1] = n
         /\ DOMAIN s \subseteq Nat
         /\ \A i \in DOMAIN s : s[i] \in Nat
  OBVIOUS

-----------------------------------------------------------------------------
(* FeedInv is inductive.                                                   *)

\* The clients GapFree speaks of.
KeepsUp(c) ==
  Member(c) /\ kickers[c] = 0 /\ writer[c] \in {"off", "select", "writing"}

Feeds == OrderedFeed /\ GapFree /\ Offerable /\ FromBounded

\* A step that moves no message out of a feed and lets nobody keep up who did
\* not before keeps the invariant.
LEMMA SameFeeds ==
  ASSUME FeedInv,
         UNCHANGED <<log, from, todo>>,
         \A d \in Clients : Feed(d)' = Feed(d),
         \A d \in Clients : KeepsUp(d)' => KeepsUp(d)
  PROVE  Feeds'
<1>1. \A d \in Clients : Owed(d)' = Owed(d)
  BY DEF Owed
<1>2. todo \subseteq Clients
  BY DEF FeedInv, HubInv, TypeOK
<1>3. OrderedFeed'
  BY <1>1 DEF FeedInv, OrderedFeed
<1>4. GapFree'
  BY <1>1 DEF FeedInv, GapFree, KeepsUp
<1>5. Offerable' /\ FromBounded'
  BY <1>1, <1>2 DEF FeedInv, Offerable, FromBounded
<1> QED
  BY <1>3, <1>4, <1>5 DEF Feeds

\* A step that touches no message of any client.
LEMMA UntouchedFeeds ==
  ASSUME FeedInv,
         UNCHANGED <<log, from, todo, sendq, inHand, received>>,
         \A d \in Clients : KeepsUp(d)' => KeepsUp(d)
  PROVE  Feeds'
<1>1. \A d \in Clients : Feed(d)' = Feed(d)
  BY DEF Feed
<1> QED
  BY <1>1, SameFeeds

LEMMA InitFeedInv == Init => FeedInv
<1> SUFFICES ASSUME Init PROVE FeedInv
  OBVIOUS
<1>1. HubInv
  BY InitHubInv
<1>2. \A c \in Clients : Feed(c) = <<>>
  BY DEF Init, Feed
<1>3. \A c \in Clients : ~Member(c)
  BY DEF Init, Member, Members
<1>4. OrderedFeed /\ GapFree /\ Offerable
  BY <1>2, <1>3 DEF Init, OrderedFeed, GapFree, Offerable
<1>5. FromBounded /\ HandMatches
  BY DEF Init, FromBounded, HandMatches
<1> QED
  BY <1>1, <1>4, <1>5 DEF FeedInv

\* Registering starts an empty feed that nothing is owed to yet.
LEMMA RegisterFeeds ==
  ASSUME FeedInv, NEW c \in Clients, HubRegister(c)
  PROVE  Feeds'
<1> USE DEF FeedInv, HubInv
<1>1. ~Registered(c) /\ todo = {} /\ todo' = {}
  BY DEF HubRegister, AtSelect, Registered
<1>2. UNCHANGED <<log, sendq, inHand, received, kickers, writer>>
  BY DEF HubRegister
<1>3. \A d \in Clients : Feed(d)' = Feed(d)
  BY <1>2 DEF Feed
<1>4. Len(log) \in Nat /\ from \in [Clients -> Nat] /\ from' = [from EXCEPT ![c] = Len(log)]
  BY DEF HubRegister, TypeOK
<1>5. Owed(c)' = {} /\ Feed(c) = <<>>
  BY <1>1, <1>2, <1>4 DEF Owed, Feed, Fresh
<1>6. \A d \in Clients : d # c => Owed(d)' = Owed(d)
  BY <1>2, <1>4 DEF Owed
<1>7. \A d \in Clients : d # c /\ KeepsUp(d)' => KeepsUp(d)
  BY <1>2, RegisterMembers DEF KeepsUp
<1>8. OrderedFeed'
  BY <1>3, <1>5, <1>6 DEF OrderedFeed
<1>9. GapFree'
  BY <1>1, <1>3, <1>5, <1>6, <1>7 DEF GapFree, KeepsUp
<1>10. Offerable' /\ FromBounded'
  BY <1>1, <1>2, <1>4 DEF Offerable, FromBounded
<1> QED
  BY <1>8, <1>9, <1>10 DEF Feeds

\* Taking an event up makes it owed to the members of its team, which are
\* the clients it will be offered to.
LEMMA BroadcastFeeds ==
  ASSUME FeedInv, HubBroadcast
  PROVE  Feeds'
<1> USE DEF FeedInv, HubInv
<1> DEFINE t == Head(broadcast)
           n == Len(log) + 1
<1>1. /\ UNCHANGED <<rooms, from, sendq, inHand, received, kickers, writer, sendClosed, handler>>
      /\ todo = {} /\ todo' = Members(t) /\ log' = Append(log, t) /\ t \in Teams
  BY DEF HubBroadcast, connVars, AtSelect, TypeOK
<1>2. /\ log \in Seq(Teams) /\ Len(log) \in Nat /\ from \in [Clients -> Nat]
      /\ Len(log') = n /\ n \in Nat /\ log'[n] = t
      /\ \A i \in 1 .. Len(log) : log'[i] = log[i]
  BY <1>1 DEF TypeOK
<1>3. \A d \in Clients : Feed(d)' = Feed(d) /\ (KeepsUp(d)' <=> KeepsUp(d))
  BY <1>1 DEF Feed, KeepsUp, Member, Members
<1>4. \A d \in Clients : Owed(d)' = Owed(d) \cup (IF TeamOf[d] = t THEN {n} ELSE {})
  BY <1>1, <1>2 DEF Owed, FromBounded
<1>5. \A d \in Clients : d \in todo' <=> Member(d) /\ TeamOf[d] = t
  BY <1>1 DEF Membership, Member, Members
<1>6. \A d \in Clients : \A i \in DOMAIN Feed(d) : Feed(d)[i] \in Owed(d) /\ Feed(d)[i] # n
  BY <1>2 DEF OrderedFeed, Owed
<1>7. todo' \subseteq Clients
  BY NextTypeOK DEF Next, TypeOK
<1>8. OrderedFeed'
  BY <1>3, <1>4, <1>6 DEF OrderedFeed
<1>9. GapFree'
  <2> SUFFICES ASSUME NEW d \in Clients, KeepsUp(d)'
               PROVE  Owed(d)' = {Feed(d)'[i] : i \in DOMAIN Feed(d)'}
                                   \cup (IF d \in todo' THEN {n} ELSE {})
    BY <1>2 DEF GapFree, KeepsUp
  <2>1. Owed(d) = {Feed(d)[i] : i \in DOMAIN Feed(d)}
    BY <1>1, <1>3 DEF GapFree, KeepsUp
  <2>2. d \in todo' <=> TeamOf[d] = t
    BY <1>3, <1>5 DEF KeepsUp
  <2> QED
    BY <1>3, <1>4, <2>1, <2>2
<1>10. Offerable'
  BY <1>2, <1>3, <1>4, <1>5, <1>6, <1>7 DEF Offerable
<1>11. FromBounded'
  BY <1>1, <1>2 DEF FromBounded
<1> QED
  BY <1>8, <1>9, <1>10, <1>11 DEF Feeds

\* An offer either appends the newest event to the feed, or leaves the client
\* to a goroutine that puts it out.
LEMMA OfferFeeds ==
  ASSUME FeedInv, NEW c \in Clients, HubOffer(c)
  PROVE  Feeds'
<1> USE DEF FeedInv, HubInv
<1> DEFINE n == Len(log)
<1>1. /\ UNCHANGED <<rooms, log, from, inHand, received, writer>>
      /\ c \in todo /\ todo' = todo \ {c} /\ todo \subseteq Clients /\ n \in Nat
  BY DEF HubOffer, TypeOK
<1>2. \A d \in Clients : Owed(d)' = Owed(d) /\ (Member(d)' <=> Member(d))
  BY <1>1 DEF Owed, Member, Members
<1>3. \A d \in Clients : d # c => /\ sendq'[d] = sendq[d] /\ kickers'[d] = kickers[d]
                                  /\ (d \in todo' <=> d \in todo)
  BY <1>1 DEF HubOffer, TypeOK
<1>4. \A d \in Clients : d # c => Feed(d)' = Feed(d) /\ (KeepsUp(d)' <=> KeepsUp(d))
  BY <1>1, <1>2, <1>3 DEF Feed, KeepsUp
<1>5. Offerable' /\ FromBounded'
  BY <1>1, <1>2, <1>4 DEF Offerable, FromBounded
<1>6. CASE Len(sendq[c]) < SendCap
  <2>1. sendq'[c] = Append(sendq[c], n) /\ kickers' = kickers
    BY <1>6 DEF HubOffer, TypeOK
  <2>2. Feed(c)' = Append(Feed(c), n)
    <3>1. Held(c)' = Held(c) /\ Feed(c)' = received[c] \o Held(c) \o sendq'[c]
      BY <1>1 DEF Feed, Held
    <3>2. sendq[c] \in Seq(Nat) /\ received[c] \in Seq(Nat)
      BY DEF TypeOK
    <3>3. Held(c) \in Seq(Nat) /\ Feed(c) = received[c] \o Held(c) \o sendq[c]
      BY FeedType
    <3>4. received[c] \o Held(c) \o Append(sendq[c], n)
            = Append(received[c] \o Held(c) \o sendq[c], n)
      BY <1>1, <3>2, <3>3, ConcatAppend
    <3> QED
      BY <2>1, <3>1, <3>3, <3>4
  <2>3. \A i \in DOMAIN Feed(c) : Feed(c)[i] \in Owed(c) /\ Feed(c)[i] < n
    BY <1>1 DEF OrderedFeed, Offerable, Owed, TypeOK
  <2>4. n \in Owed(c)
    BY <1>1 DEF Offerable
  <2> DEFINE F == Feed(c)
             G == Append(F, n)
  <2>5. /\ DOMAIN G = DOMAIN F \cup {Len(F) + 1}
        /\ \A i \in DOMAIN F : G[i] = F[i] /\ i < Len(F) + 1
        /\ G[Len(F) + 1] = n
        /\ DOMAIN F \subseteq Nat
    BY <1>1, FeedType, AppendAt
  <2>6. Len(F) \in Nat
    BY FeedType
  <2>7. (\A i \in DOMAIN G : G[i] \in Owed(c)) /\ {G[i] : i \in DOMAIN G} = {F[i] : i \in DOMAIN F} \cup {n}
    <3> HIDE DEF F, G, n
    <3> QED
      BY <2>3, <2>4, <2>5 DEF F
  <2>8. \A i, j \in DOMAIN G : i < j => G[i] < G[j]
    <3>1. \A i, j \in DOMAIN F : i < j => F[i] < F[j]
      BY DEF OrderedFeed
    <3>2. \A i \in DOMAIN F : F[i] < n
      BY <2>3
    <3> HIDE DEF F, G, n
    <3> QED
      BY <2>5, <2>6, <3>1, <3>2
  <2>9. OrderedFeed'
    <3> SUFFICES ASSUME NEW d \in Clients
                 PROVE  /\ \A i \in DOMAIN Feed(d)' : Feed(d)'[i] \in Owed(d)'
                        /\ \A i, j \in DOMAIN Feed(d)' : i < j => Feed(d)'[i] < Feed(d)'[j]
      BY DEF OrderedFeed
    <3>1. CASE d = c
      BY <1>2, <2>2, <2>7, <2>8, <3>1
    <3>2. CASE d # c
      BY <1>2, <1>4, <3>2 DEF OrderedFeed
    <3> QED
      BY <3>1, <3>2
  <2>10. GapFree'
    <3> SUFFICES ASSUME NEW d \in Clients, KeepsUp(d)'
                 PROVE  Owed(d)' = {Feed(d)'[i] : i \in DOMAIN Feed(d)'}
                                     \cup (IF d \in todo' THEN {n} ELSE {})
      BY <1>1 DEF GapFree, KeepsUp
    <3>1. CASE d = c
      <4>1. KeepsUp(c)
        BY <1>1, <1>2, <2>1, <3>1 DEF KeepsUp
      <4>2. Owed(c) = {F[i] : i \in DOMAIN F} \cup {n}
        BY <1>1, <4>1 DEF GapFree, KeepsUp
      <4> QED
        BY <1>1, <1>2, <2>2, <2>7, <3>1, <4>2
    <3>2. CASE d # c
      BY <1>2, <1>3, <1>4, <3>2 DEF GapFree, KeepsUp
    <3> QED
      BY <3>1, <3>2
  <2> QED
    BY <1>5, <2>9, <2>10 DEF Feeds
<1>7. CASE ~(Len(sendq[c]) < SendCap)
  <2>1. sendq' = sendq /\ kickers'[c] > 0
    BY <1>7 DEF HubOffer, TypeOK
  <2>2. \A d \in Clients : Feed(d)' = Feed(d)
    BY <1>1, <2>1 DEF Feed
  <2>3. ~KeepsUp(c)'
    BY <2>1 DEF KeepsUp
  <2>4. OrderedFeed'
    BY <1>2, <2>2 DEF OrderedFeed
  <2>5. GapFree'
    BY <1>1, <1>2, <1>3, <1>4, <2>3 DEF GapFree, KeepsUp
  <2> QED
    BY <1>5, <2>4, <2>5 DEF Feeds
<1> QED
  BY <1>6, <1>7

\* After a write, whatever became of it, the hand is empty.
LEMMA HandEmptied ==
  ASSUME TypeOK, HandMatches, NEW c \in Clients, WriteSucceeds(c) \/ WriteFails(c)
  PROVE  HandMatches'
<1>1. /\ inHand' = [inHand EXCEPT ![c] = None]
      /\ \/ writer' = [writer EXCEPT ![c] = "select"]
         \/ writer' = [writer EXCEPT ![c] = "closing"]
  BY DEF WriteSucceeds, WriteFails
<1>2. writer = [d \in Clients |-> writer[d]] /\ inHand = [d \in Clients |-> inHand[d]]
  BY DEF TypeOK
<1> QED
  BY <1>1, <1>2 DEF HandMatches

\* What writePump takes off the channel is an event, not the empty hand.
LEMMA TakenIsOwed ==
  ASSUME FeedInv, NEW c \in Clients, WriterTakes(c)
  PROVE  Head(sendq[c]) \in Owed(c) /\ Head(sendq[c]) # None
<1> USE DEF FeedInv, HubInv
<1> DEFINE r == received[c]
           q == sendq[c]
           f == r \o <<>> \o q
<1>1. r \in Seq(Nat) /\ q \in Seq(Nat) /\ q # <<>> /\ Feed(c) = f
  BY DEF WriterTakes, HandMatches, TypeOK, Feed
<1> HIDE DEF r, q
<1>2. Len(r) + 1 \in DOMAIN f /\ f[Len(r) + 1] = Head(q)
  BY <1>1
<1>3. Head(q) \in Owed(c)
  BY <1>1, <1>2 DEF OrderedFeed
<1> QED
  BY <1>3 DEF Owed, None, TypeOK, q

\* writePump moves messages along the feed, and a failed write takes the one
\* in hand out of it; the client does not keep up from then on.
LEMMA WritePumpFeeds ==
  ASSUME FeedInv, NEW c \in Clients, WritePump(c)
  PROVE  Feeds'
<1> USE DEF FeedInv, HubInv
<1>1. /\ UNCHANGED <<rooms, log, from, todo, kickers>>
      /\ \A d \in Clients : d # c => /\ inHand'[d] = inHand[d] /\ sendq'[d] = sendq[d]
                                     /\ received'[d] = received[d] /\ writer'[d] = writer[d]
  BY DEF TypeOK, WritePump, WriterTakes, WriteSucceeds, WriteFails, WriterSeesClosed,
         WriterCloses, hubVars
<1>2. \A d \in Clients : d # c => Feed(d)' = Feed(d)
  BY <1>1 DEF Feed
<1>3. \A d \in Clients : Member(d)' <=> Member(d)
  BY <1>1 DEF Member, Members
<1>4. sendq[c] \in Seq(Nat) /\ received[c] \in Seq(Nat) /\ inHand[c] \in Nat
  BY DEF TypeOK
<1>5. CASE WriterTakes(c)
  <2>1. /\ sendq[c] # <<>> /\ inHand[c] = None /\ received' = received
        /\ inHand'[c] = Head(sendq[c]) /\ sendq'[c] = Tail(sendq[c])
        /\ writer[c] = "select"
    BY <1>5 DEF WriterTakes, HandMatches, TypeOK
  <2>2. Head(sendq[c]) # None
    BY <1>5, TakenIsOwed
  <2>3. Feed(c)' = Feed(c)
    BY <1>4, <2>1, <2>2, ConcatHead DEF Feed
  <2>4. \A d \in Clients : KeepsUp(d)' => KeepsUp(d)
    BY <1>1, <1>3, <2>1 DEF KeepsUp
  <2> QED
    BY <1>1, <1>2, <2>3, <2>4, SameFeeds
<1>6. CASE WriteSucceeds(c)
  <2>1. /\ inHand[c] # None /\ inHand'[c] = None /\ sendq' = sendq
        /\ received'[c] = Append(received[c], inHand[c]) /\ writer[c] = "writing"
    BY <1>6 DEF WriteSucceeds, HandMatches, TypeOK
  <2>2. Feed(c)' = Feed(c)
    BY <1>4, <2>1, ConcatShift DEF Feed
  <2>3. \A d \in Clients : KeepsUp(d)' => KeepsUp(d)
    BY <1>1, <1>3, <2>1 DEF KeepsUp
  <2> QED
    BY <1>1, <1>2, <2>2, <2>3, SameFeeds
<1>7. CASE WriteFails(c)
  <2>1. inHand'[c] = None /\ UNCHANGED <<sendq, received>> /\ writer'[c] = "closing"
    BY <1>7 DEF WriteFails, TypeOK
  <2>2. Feed(c)' = received[c] \o <<>> \o sendq[c]
    BY <2>1 DEF Feed
  <2> DEFINE at(i) == IF i <= Len(received[c]) THEN i ELSE i + Len(Held(c))
  <2>3. \A i \in DOMAIN Feed(c)' : at(i) \in DOMAIN Feed(c) /\ Feed(c)'[i] = Feed(c)[at(i)]
    <3>1. Held(c) \in Seq(Nat) /\ Feed(c) = received[c] \o Held(c) \o sendq[c]
      BY FeedType
    <3> DEFINE s == received[c] \o <<>> \o sendq[c]
               o == received[c] \o Held(c) \o sendq[c]
    <3>2. \A i \in DOMAIN s : at(i) \in DOMAIN o /\ s[i] = o[at(i)]
      BY <1>4, <3>1, ConcatDrop
    <3>3. Feed(c)' = s /\ Feed(c) = o
      BY <2>2, <3>1
    <3> HIDE DEF s, o, at
    <3> QED
      BY <3>2, <3>3
  <2>4. \A i, j \in DOMAIN Feed(c)' : i < j => at(i) < at(j)
    <3>1. Feed(c)' \in Seq(Nat) /\ Len(Held(c)) \in Nat /\ Len(received[c]) \in Nat
      BY <1>4, <2>2, FeedType
    <3>2. \A i \in DOMAIN Feed(c)' : i \in Nat
      BY <3>1
    <3> QED
      BY <3>1, <3>2
  <2>5. \A d \in Clients : Owed(d)' = Owed(d)
    BY <1>1 DEF Owed
  <2>6. /\ \A i \in DOMAIN Feed(c)' : Feed(c)'[i] \in Owed(c)
        /\ \A i, j \in DOMAIN Feed(c)' : i < j => Feed(c)'[i] < Feed(c)'[j]
    <3> HIDE DEF at
    <3> QED
      BY <2>3, <2>4 DEF OrderedFeed
  <2>7. OrderedFeed'
    BY <1>2, <2>5, <2>6 DEF OrderedFeed
  <2>8. ~KeepsUp(c)' /\ \A d \in Clients : d # c => (KeepsUp(d)' <=> KeepsUp(d))
    BY <1>1, <1>3, <2>1 DEF KeepsUp
  <2>9. GapFree'
    BY <1>1, <1>2, <2>5, <2>8 DEF GapFree, KeepsUp
  <2>10. FromBounded'
    BY <1>1 DEF FromBounded
  <2>11. Offerable'
    <3> SUFFICES ASSUME NEW d \in todo, d \in Clients
                 PROVE  Len(log) \in Owed(d) /\ \A i \in DOMAIN Feed(d)' : Feed(d)'[i] # Len(log)
      BY <1>1, <2>5 DEF Offerable, TypeOK
    <3>1. Len(log) \in Owed(d) /\ \A i \in DOMAIN Feed(d) : Feed(d)[i] # Len(log)
      BY DEF Offerable
    <3>2. CASE d = c
      BY <2>3, <3>1, <3>2
    <3>3. CASE d # c
      BY <1>2, <3>1, <3>3
    <3> QED
      BY <3>1, <3>2, <3>3
  <2> QED
    BY <2>7, <2>9, <2>10, <2>11 DEF Feeds
<1>8. CASE WriterSeesClosed(c) \/ WriterCloses(c)
  <2>1. UNCHANGED <<sendq, inHand, received>> /\ writer'[c] \in {"closing", "done"}
    BY <1>8 DEF WriterSeesClosed, WriterCloses, TypeOK
  <2>2. \A d \in Clients : KeepsUp(d)' => KeepsUp(d)
    BY <1>1, <1>3, <2>1 DEF KeepsUp
  <2> QED
    BY <1>1, <2>1, <2>2, UntouchedFeeds
<1> QED
  BY <1>5, <1>6, <1>7, <1>8 DEF WritePump

LEMMA NextFeedInv == FeedInv /\ [Next]_vars => FeedInv'
<1> SUFFICES ASSUME FeedInv, [Next]_vars PROVE FeedInv'
  OBVIOUS
<1>1. HubInv'
  BY NextHubInv DEF FeedInv
<1>2. HandMatches'
  <2> USE DEF FeedInv, HubInv
  <2>1. ASSUME UNCHANGED <<writer, inHand>> PROVE HandMatches'
    BY <2>1 DEF HandMatches
  <2>2. ASSUME NEW c \in Clients, Serve(c) PROVE HandMatches'
    BY <2>2 DEF Serve, Connect, StartWriter, StartReader, HandMatches, PumpsStart, TypeOK
  <2>3. ASSUME NEW c \in Clients, WritePump(c) PROVE HandMatches'
    <3>1. CASE WriterTakes(c)
      <4>1. Head(sendq[c]) # None
        BY <3>1, TakenIsOwed
      <4> QED
        BY <3>1, <4>1 DEF WriterTakes, HandMatches, TypeOK
    <3>2. CASE WriteSucceeds(c) \/ WriteFails(c)
      BY <3>2, HandEmptied
    <3>3. CASE WriterSeesClosed(c) \/ WriterCloses(c)
      BY <3>3 DEF WriterSeesClosed, WriterCloses, HandMatches, TypeOK
    <3> QED
      BY <2>3, <3>1, <3>2, <3>3 DEF WritePump
  <2>4. ASSUME NEW c \in Clients, Hub(c) \/ ReadPump(c) PROVE HandMatches'
    BY <2>1, <2>4 DEF Hub, HubRegister, HubUnregister, HubKick, HubOffer, ReadPump,
                      ReadFails, ReaderCloses
  <2>5. ASSUME NEW p \in Publishers, Publish(p) \/ \E e \in Incoming : Receive(p, e)
        PROVE  HandMatches'
    BY <2>1, <2>5 DEF Publish, Receive, connVars
  <2>6. CASE HubBroadcast \/ UNCHANGED vars
    BY <2>1, <2>6 DEF HubBroadcast, vars, connVars
  <2> QED
    BY <2>2, <2>3, <2>4, <2>5, <2>6 DEF Next, AtRest
<1>3. Feeds'
  <2> USE DEF FeedInv, HubInv
  <2>1. ASSUME UNCHANGED <<rooms, log, from, todo, sendq, inHand, received, writer, kickers>>
        PROVE  Feeds'
    BY <2>1, UntouchedFeeds DEF KeepsUp, Member, Members
  <2>2. ASSUME NEW p \in Publishers, Publish(p) \/ \E e \in Incoming : Receive(p, e)
        PROVE  Feeds'
    BY <2>1, <2>2 DEF Publish, Receive, connVars, hubVars
  <2>3. ASSUME NEW c \in Clients, Serve(c) PROVE Feeds'
    <3>1. UNCHANGED <<rooms, log, from, todo, sendq, inHand, received, kickers>>
      BY <2>3 DEF Serve, Connect, StartWriter, StartReader, hubVars
    <3>2. \A d \in Clients : writer'[d] = writer[d] \/ writer[d] = "off"
      BY <2>3 DEF Serve, Connect, StartWriter, StartReader, PumpsStart, TypeOK
    <3>3. \A d \in Clients : KeepsUp(d)' => KeepsUp(d)
      BY <3>1, <3>2 DEF KeepsUp, Member, Members
    <3> QED
      BY <3>1, <3>3, UntouchedFeeds
  <2>4. ASSUME NEW c \in Clients, HubUnregister(c) \/ HubKick(c) PROVE Feeds'
    <3>1. Unregister(c) /\ UNCHANGED <<log, from, todo, sendq, inHand, received, writer>>
      BY <2>4 DEF HubUnregister, HubKick
    <3>2. \A d \in Clients : d # c => kickers'[d] = kickers[d]
      BY <2>4 DEF HubUnregister, HubKick, TypeOK
    <3>3. \A d \in Clients : Member(d)' <=> Member(d) /\ d # c
      BY <3>1, UnregisterMembers
    <3>4. \A d \in Clients : KeepsUp(d)' => KeepsUp(d)
      BY <3>1, <3>2, <3>3 DEF KeepsUp
    <3> QED
      BY <3>1, <3>4, UntouchedFeeds
  <2>5. ASSUME NEW c \in Clients, ReadPump(c) PROVE Feeds'
    BY <2>1, <2>5 DEF ReadPump, ReadFails, ReaderCloses, hubVars
  <2>6. ASSUME UNCHANGED vars PROVE Feeds'
    BY <2>1, <2>6 DEF vars, hubVars, connVars
  <2> QED
    BY <2>2, <2>3, <2>4, <2>5, <2>6, RegisterFeeds, OfferFeeds, BroadcastFeeds, WritePumpFeeds
    DEF Next, Hub, AtRest
<1> QED
  BY <1>1, <1>2, <1>3 DEF FeedInv, Feeds

\* FeedInv is an invariant of the hub.
THEOREM FeedInvariant == Spec => []FeedInv
BY InitFeedInv, NextFeedInv, PTL DEF Spec

\* A client is sent events of its own team, from after it joined, in the
\* order Run took them up and none twice.
THEOREM OrderedFeedHolds == Spec => []OrderedFeed
BY FeedInvariant, PTL DEF FeedInv

\* A member that nobody is putting out and whose writes go through misses
\* nothing.
THEOREM GapFreeHolds == Spec => []GapFree
BY FeedInvariant, PTL DEF FeedInv

-----------------------------------------------------------------------------
(* The hub implements TeamFeed.  Only four kinds of step are visible: an   *)
(* event is taken up, a client is registered, a write succeeds, a client   *)
(* starts to lag or leaves.                                                *)

AbsStatus == [c \in Clients |-> Status(c)]

LEMMA InitRefines == Init => Abstract!FeedInit
<1> SUFFICES ASSUME Init PROVE Abstract!FeedInit
  OBVIOUS
<1>1. \A c \in Clients : Status(c) = "out"
  BY DEF Init, Status, Registered
<1> QED
  BY <1>1 DEF Init, Abstract!FeedInit

\* A step that shows nothing.
LEMMA Invisible ==
  ASSUME UNCHANGED <<log, from, received>>, \A d \in Clients : Status(d)' = Status(d)
  PROVE  UNCHANGED Abstract!feedVars
  BY DEF Abstract!feedVars

\* A step that changes the status of c alone.
LEMMA StatusStep ==
  ASSUME NEW c \in Clients, NEW s,
         \A d \in Clients : Status(d)' = IF d = c THEN s ELSE Status(d)
  PROVE  AbsStatus' = [AbsStatus EXCEPT ![c] = s]
  BY DEF AbsStatus

\* The message a successful write shows the peer: the oldest one it is due if
\* it keeps up, a later one than the last in any case.
LEMMA DeliverRefines ==
  ASSUME FeedInv, NEW c \in Clients, WriteSucceeds(c)
  PROVE  \E i \in Abstract!Due(c) : Abstract!FeedDeliver(c, i)
<1> USE DEF FeedInv, HubInv
<1> DEFINE r == received[c]
           h == inHand[c]
           q == sendq[c]
           f == r \o <<h>> \o q
<1>1. /\ r \in Seq(Nat) /\ q \in Seq(Nat) /\ h \in Nat /\ h # None /\ Feed(c) = f
      /\ writer[c] = "writing"
  BY DEF WriteSucceeds, HandMatches, TypeOK, Feed
<1>2. /\ UNCHANGED <<log, from>> /\ received' = [received EXCEPT ![c] = Append(r, h)]
      /\ \A d \in Clients : Status(d)' = Status(d)
  BY DEF WriteSucceeds, Status, Registered
<1>3. Registered(c)
  BY <1>1 DEF Fresh
<1>4. (\A i \in DOMAIN f : f[i] \in Owed(c)) /\ (\A i, j \in DOMAIN f : i < j => f[i] < f[j])
  BY <1>1 DEF OrderedFeed
<1>5. /\ Len(r) + 1 \in DOMAIN f /\ f[Len(r) + 1] = h
      /\ r # <<>> => Len(r) \in DOMAIN f /\ f[Len(r)] = r[Len(r)]
      /\ Len(r) \in Nat /\ \A i \in DOMAIN f : i \in Nat
  <2> HIDE DEF r, h, q
  <2> QED
    BY <1>1
<1> HIDE DEF f
<1>6. h \in Abstract!Due(c)
  <2>1. h \in Owed(c)
    BY <1>4, <1>5
  <2>2. r # <<>> => r[Len(r)] < h
    BY <1>4, <1>5
  <2> QED
    BY <1>1, <2>1, <2>2 DEF Abstract!Due, Abstract!Served, Owed, TypeOK
<1>7. ASSUME Status(c) = "in", NEW j \in Abstract!Due(c) PROVE h <= j
  <2>1. KeepsUp(c)
    BY <1>1, <1>7, <1>3 DEF Status, KeepsUp, Membership, TypeOK
  <2>2. j \in Owed(c) /\ (r # <<>> => r[Len(r)] < j) /\ j \in Nat
    <3>1. r # <<>> => r[Len(r)] \in Owed(c)
      BY <1>4, <1>5
    <3> QED
      BY <1>1, <3>1 DEF Abstract!Due, Abstract!Served, Owed, TypeOK
  <2>3. (\E i \in DOMAIN f : f[i] = j) \/ (c \in todo /\ j = Len(log))
    BY <1>1, <2>1, <2>2 DEF GapFree, KeepsUp
  <2>4. ASSUME NEW i \in DOMAIN f, f[i] = j PROVE h <= j
    <3>1. ~(i <= Len(r))
      <4>1. CASE i <= Len(r)
        <5>1. i >= 1
          <6>1. f \in Seq(Nat)
            BY <1>1 DEF f
          <6> QED
            BY <6>1
        <5>2. r # <<>> /\ f[i] <= f[Len(r)]
          <6>1. r # <<>>
            BY <1>1, <4>1, <5>1, <1>5
          <6>2. f[i] \in Nat /\ f[Len(r)] \in Nat
            BY <1>4, <1>5, <6>1 DEF Owed, TypeOK
          <6>3. i = Len(r) \/ i < Len(r)
            BY <1>5, <4>1
          <6> QED
            BY <1>4, <1>5, <6>1, <6>2, <6>3
        <5> QED
          BY <1>1, <1>5, <2>2, <2>4, <5>2
      <4> QED
        BY <4>1
    <3>2. i = Len(r) + 1 \/ Len(r) + 1 < i
      BY <1>5, <3>1
    <3> QED
      BY <1>1, <1>4, <1>5, <2>2, <2>4, <3>2
  <2>5. CASE c \in todo /\ j = Len(log)
    BY <1>1, <1>4, <1>5, <2>5 DEF Owed, TypeOK
  <2> QED
    BY <2>3, <2>4, <2>5
<1>8. Abstract!FeedDeliver(c, h)
  BY <1>2, <1>3, <1>6, <1>7 DEF Abstract!FeedDeliver, Status
<1> QED
  BY <1>6, <1>8

\* Leaving: whoever asked for it, the client is gone if it was a member, and
\* was gone already if it was not.
LEMMA LeaveRefines ==
  ASSUME FeedInv, NEW c \in Clients, HubUnregister(c) \/ HubKick(c)
  PROVE  Abstract!FeedLeave(c) \/ UNCHANGED Abstract!feedVars
<1> USE DEF FeedInv, HubInv
<1>1. Unregister(c) /\ Registered(c) /\ UNCHANGED <<log, from, received, handler>>
  BY DEF HubUnregister, HubKick, Fresh, TypeOK
<1>2. \A d \in Clients : d # c => kickers'[d] = kickers[d]
  BY DEF HubUnregister, HubKick, TypeOK
<1>3. \A d \in Clients : sendClosed'[d] <=> sendClosed[d] \/ (d = c /\ Member(c))
  BY <1>1, UnregisterMembers
<1>4. \A d \in Clients : Registered(d)' <=> Registered(d)
  BY <1>1 DEF Registered
<1>5. \A d \in Clients : d # c => Status(d)' = Status(d)
  BY <1>2, <1>3, <1>4 DEF Status
<1>6. CASE Member(c)
  <2>1. Status(c) \in {"in", "lagging"} /\ Status(c)' = "gone"
    BY <1>1, <1>3, <1>4, <1>6 DEF Status, Membership
  <2>2. AbsStatus' = [AbsStatus EXCEPT ![c] = "gone"]
    BY <1>5, <2>1, StatusStep
  <2> QED
    BY <1>1, <2>1, <2>2 DEF Abstract!FeedLeave, AbsStatus
<1>7. CASE ~Member(c)
  <2>1. sendClosed[c]
    BY <1>1, <1>7 DEF Membership
  <2>2. Status(c)' = Status(c)
    BY <1>1, <1>3, <1>4, <2>1 DEF Status
  <2> QED
    BY <1>1, <1>5, <2>2, Invisible
<1> QED
  BY <1>6, <1>7

\* Lagging: a full buffer, whether or not somebody is putting the client out.
LEMMA OfferRefines ==
  ASSUME FeedInv, NEW c \in Clients, HubOffer(c)
  PROVE  Abstract!FeedLag(c) \/ UNCHANGED Abstract!feedVars
<1> USE DEF FeedInv, HubInv
<1>1. UNCHANGED <<log, from, received, handler, sendClosed>> /\ c \in todo
  BY DEF HubOffer
<1>2. Registered(c) /\ ~sendClosed[c]
  BY <1>1 DEF SafeSend
<1>3. \A d \in Clients : Registered(d)' <=> Registered(d)
  BY <1>1 DEF Registered
<1>4. CASE Len(sendq[c]) < SendCap
  <2>1. kickers' = kickers
    BY <1>4 DEF HubOffer
  <2>2. \A d \in Clients : Status(d)' = Status(d)
    BY <1>1, <1>3, <2>1 DEF Status
  <2> QED
    BY <1>1, <2>2, Invisible
<1>5. CASE ~(Len(sendq[c]) < SendCap)
  <2>1. kickers'[c] > 0 /\ \A d \in Clients : d # c => kickers'[d] = kickers[d]
    BY <1>5 DEF HubOffer, TypeOK
  <2>2. \A d \in Clients : d # c => Status(d)' = Status(d)
    BY <1>1, <1>3, <2>1 DEF Status
  <2>3. Status(c) \in {"in", "lagging"} /\ Status(c)' = "lagging"
    BY <1>1, <1>2, <1>3, <2>1 DEF Status
  <2>4. CASE Status(c) = "in"
    <3>1. AbsStatus' = [AbsStatus EXCEPT ![c] = "lagging"]
      BY <2>2, <2>3, StatusStep
    <3> QED
      BY <1>1, <2>4, <3>1 DEF Abstract!FeedLag, AbsStatus
  <2>5. CASE Status(c) = "lagging"
    BY <1>1, <2>2, <2>3, <2>5, Invisible
  <2> QED
    BY <2>3, <2>4, <2>5
<1> QED
  BY <1>4, <1>5

LEMMA JoinRefines ==
  ASSUME FeedInv, NEW c \in Clients, HubRegister(c)
  PROVE  Abstract!FeedJoin(c)
<1> USE DEF FeedInv, HubInv
<1>1. /\ ~Registered(c) /\ UNCHANGED <<log, received, sendClosed, kickers>>
      /\ from' = [from EXCEPT ![c] = Len(log)]
  BY DEF HubRegister, Registered
<1>2. \A d \in Clients : Registered(d)' <=> Registered(d) \/ d = c
  BY DEF HubRegister, TypeOK, Registered
<1>3. Status(c) = "out" /\ \A d \in Clients : Status(d)' = IF d = c THEN "in" ELSE Status(d)
  BY <1>1, <1>2 DEF Status, Fresh
<1>4. AbsStatus' = [AbsStatus EXCEPT ![c] = "in"]
  BY <1>3, StatusStep
<1> QED
  BY <1>1, <1>3, <1>4 DEF Abstract!FeedJoin, AbsStatus

LEMMA NextRefines ==
  FeedInv /\ [Next]_vars => [Abstract!FeedNext]_(Abstract!feedVars)
<1> SUFFICES ASSUME FeedInv, [Next]_vars
             PROVE  Abstract!FeedNext \/ UNCHANGED Abstract!feedVars
  OBVIOUS
<1> USE DEF FeedInv, HubInv
<1>1. ASSUME UNCHANGED <<log, from, received, handler, sendClosed, kickers>>
      PROVE  UNCHANGED Abstract!feedVars
  <2>1. \A d \in Clients : Status(d)' = Status(d)
    BY <1>1 DEF Status, Registered
  <2> QED
    BY <1>1, <2>1, Invisible
<1>2. ASSUME NEW p \in Publishers, Publish(p) \/ \E e \in Incoming : Receive(p, e)
      PROVE  UNCHANGED Abstract!feedVars
  BY <1>1, <1>2 DEF Publish, Receive, connVars
<1>3. ASSUME NEW c \in Clients, Serve(c) PROVE UNCHANGED Abstract!feedVars
  <2>1. \A d \in Clients : Registered(d)' <=> Registered(d)
    BY <1>3 DEF Serve, Connect, StartWriter, StartReader, TypeOK, Registered
  <2>2. UNCHANGED <<log, from, received, sendClosed, kickers>>
    BY <1>3 DEF Serve, Connect, StartWriter, StartReader
  <2> QED
    BY <2>1, <2>2, Invisible DEF Status
<1>4. ASSUME HubBroadcast PROVE Abstract!FeedPublish(Head(broadcast)) /\ Head(broadcast) \in Teams
  <2>1. UNCHANGED <<from, received, handler, sendClosed, kickers>>
    BY <1>4 DEF HubBroadcast, connVars
  <2>2. AbsStatus' = AbsStatus
    BY <2>1 DEF AbsStatus, Status, Registered
  <2> QED
    BY <1>4, <2>1, <2>2 DEF HubBroadcast, Abstract!FeedPublish, AbsStatus, TypeOK
<1>5. ASSUME NEW c \in Clients, ReadPump(c) PROVE UNCHANGED Abstract!feedVars
  BY <1>1, <1>5 DEF ReadPump, ReadFails, ReaderCloses
<1>6. ASSUME NEW c \in Clients, WritePump(c), ~WriteSucceeds(c)
      PROVE  UNCHANGED Abstract!feedVars
  BY <1>1, <1>6 DEF WritePump, WriterTakes, WriteFails, WriterSeesClosed, WriterCloses
<1>7. ASSUME UNCHANGED vars PROVE UNCHANGED Abstract!feedVars
  BY <1>1, <1>7 DEF vars, connVars
<1> QED
  BY <1>2, <1>3, <1>4, <1>5, <1>6, <1>7, JoinRefines, LeaveRefines, OfferRefines, DeliverRefines
  DEF Next, Hub, AtRest, Abstract!FeedNext

\* The chat hub implements TeamFeed, for any number of clients and teams: what
\* a peer is written is a stream of its team's events in order, complete while
\* it keeps up, and a client that once fell behind can only be put out.
THEOREM HubImplementsTeamFeed == Spec => ImplementsTeamFeed
<1>1. Init => Abstract!FeedInit
  BY InitRefines
<1>2. FeedInv /\ [Next]_vars => [Abstract!FeedNext]_(Abstract!feedVars)
  BY NextRefines
<1> QED
  BY <1>1, <1>2, FeedInvariant, PTL DEF Spec, ImplementsTeamFeed, Abstract!FeedSpec

=============================================================================
