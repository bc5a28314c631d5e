---------------------------- MODULE Backpressure ----------------------------
(***************************************************************************)
(* protectSlowEditingSession on one WebSocket.  Hocuspocus carries several *)
(* Editing Sessions over a socket, one per Document, and `connected' runs  *)
(* for each: socket.send is wrapped once more every time, and wrappers of  *)
(* sessions that have ended stay.  A send is synchronous, so one action    *)
(* goes through all wrappers, the last one installed first.                *)
(*                                                                         *)
(* The socket is that of the ws library: what is sent adds to its buffer   *)
(* until the peer reads; once it is closing nothing is sent any more, but  *)
(* may be counted as buffered.  Pings and pongs do not pass the wrappers.  *)
(*                                                                         *)
(* `dropped' and `control' only record history.                            *)
(***************************************************************************)
EXTENDS Integers, Sequences, FiniteSets, Functions

CONSTANTS
  Sessions,               \* Editing Sessions that join over the socket
  Lengths,                \* lengths of messages to the peer
  MaxBackpressureBytes,
  MaxSends, MaxControl    \* bounds on messages and control frames, for TLC

ASSUME BackpressureAssumption ==
  /\ Lengths \subseteq Nat \ {0}
  /\ MaxBackpressureBytes \in Nat \ {0}
  /\ MaxSends \in Nat
  /\ MaxControl \in Nat

VARIABLES
  guards,     \* the sessions whose wrappers are installed, oldest first
  shut,       \* the sessions whose wrapper has closed (its own `closed')
  buffered,   \* bufferedAmount of the socket
  closing,    \* the socket is closing or closed
  slow,       \* slowEditingSessions
  sends,      \* messages somebody wanted to send
  dropped,    \* those a wrapper did not hand on
  control     \* control frames sent

outVars == <<guards, shut, buffered, closing, slow, sends, dropped, control>>

OutInit ==
  /\ guards = <<>>
  /\ shut = {}
  /\ buffered = 0
  /\ closing = FALSE
  /\ slow = 0
  /\ sends = 0
  /\ dropped = 0
  /\ control = 0

Behind(n) == n > MaxBackpressureBytes

\* Fault: the wrappers do not remember that they have closed.
CloseGuardsForgets(S) ==
  /\ shut' = shut
  /\ slow' = slow + Cardinality(S)
  /\ closing' = (closing \/ S # {})

\* close() in the wrappers of the sessions S.
CloseGuards(S) ==
  /\ shut' = shut \cup S
  /\ slow' = slow + Cardinality(S \ shut)
  /\ closing' = (closing \/ S \ shut # {})

\* Fault: the limit is not looked at before the first send.
InstallUnchecked(s) ==
  /\ s \notin Range(guards)
  /\ guards' = Append(guards, s)
  /\ UNCHANGED <<shut, buffered, closing, slow, sends, dropped, control>>

\* A session is connected: its wrapper goes around the ones that are there.
Install(s) ==
  /\ s \notin Range(guards)
  /\ guards' = Append(guards, s)
  /\ CloseGuards(IF Behind(buffered) THEN {s} ELSE {})
  /\ UNCHANGED <<buffered, sends, dropped, control>>

Outermost == guards[Len(guards)]

Send(n) ==
  /\ sends < MaxSends
  /\ sends' = sends + 1
  /\ UNCHANGED <<guards, control>>

\* No wrapper has closed and the socket keeps up: it takes the message, and
\* then every wrapper, the innermost first, looks at the buffer again.
SendPasses(n) ==
  /\ Send(n)
  /\ shut = {}
  /\ guards = <<>> \/ ~Behind(buffered)
  /\ buffered' \in {buffered + n} \cup (IF closing THEN {buffered} ELSE {})
  /\ CloseGuards(IF Behind(buffered') THEN Range(guards) ELSE {})
  /\ UNCHANGED dropped

\* Fault: the message is dropped and the socket is left as it is.
SendBehindDrops(n) ==
  /\ Send(n)
  /\ guards # <<>>
  /\ Outermost \notin shut
  /\ Behind(buffered)
  /\ dropped' = dropped + 1
  /\ UNCHANGED <<shut, buffered, closing, slow>>

\* The outermost wrapper finds the socket behind and goes no further.
SendBehind(n) ==
  /\ Send(n)
  /\ guards # <<>>
  /\ Outermost \notin shut
  /\ Behind(buffered)
  /\ CloseGuards({Outermost})
  /\ dropped' = dropped + 1
  /\ UNCHANGED buffered

\* Some wrapper has closed, and those around it see nothing wrong.
SendStopped(n) ==
  /\ Send(n)
  /\ shut # {}
  /\ Outermost \in shut \/ ~Behind(buffered)
  /\ dropped' = dropped + 1
  /\ UNCHANGED <<shut, buffered, closing, slow>>

ControlFrame ==
  /\ control < MaxControl
  /\ control' = control + 1
  /\ buffered' = buffered + 1
  /\ UNCHANGED <<guards, shut, closing, slow, sends, dropped>>

\* The peer reads some of it.
Drain ==
  /\ \E n \in 0 .. buffered - 1 : buffered' = n
  /\ UNCHANGED <<guards, shut, closing, slow, sends, dropped, control>>

\* The socket is closed for another reason.
CloseSocket ==
  /\ closing' = TRUE
  /\ UNCHANGED <<guards, shut, buffered, slow, sends, dropped, control>>

OutNext ==
  \/ \E s \in Sessions : Install(s)
  \/ \E n \in Lengths : SendPasses(n) \/ SendBehind(n) \/ SendStopped(n)
  \/ ControlFrame
  \/ Drain

-----------------------------------------------------------------------------
\* No message is lost on a socket that stays open: whichever wrapper holds one
\* back, that one or another has closed the socket.
NoSilentDrop == dropped > 0 => closing

\* While every wrapper lets messages through, the buffer is within the limit:
\* it does not matter in which order sessions joined and messages were sent,
\* nor what was buffered before the first session.
BoundedBuffer ==
  guards # <<>> /\ shut = {} => buffered <= MaxBackpressureBytes + control

\* No session is counted as slow twice, however many messages are still meant
\* for its socket.
SlowCountedOnce == slow <= Len(guards)

=============================================================================
