---------------------------- MODULE InboundQueue ----------------------------
(***************************************************************************)
(* protectInboundQueue: the bound on what one authenticated Editing        *)
(* Session may have queued.  Every message accepted is counted until the   *)
(* promise of waitForPendingMessages that was taken after it settles.      *)
(* Hocuspocus is not part of the repository: it handles the messages of a  *)
(* session in order, and a promise taken with message m queued settles at  *)
(* some time after m has been handled, in no order among promises.         *)
(***************************************************************************)
EXTENDS Integers, Sequences, Functions

CONSTANTS
  Sizes,         \* sizes of messages, in bytes
  MaxBytes,      \* maxAuthenticatedQueueBytes
  MaxMessages,   \* maxAuthenticatedQueueMessages
  MaxReceived    \* bound on the number of messages received, for TLC

ASSUME InboundAssumption ==
  /\ Sizes \subseteq Nat
  /\ MaxBytes \in Nat
  /\ MaxMessages \in Nat
  /\ MaxReceived \in Nat

VARIABLES
  queuedBytes,
  queuedMessages,
  closed,        \* the guard has closed the session
  size,          \* size[i]: the size of the i-th message received
  queue,         \* the messages Hocuspocus has not handled, oldest first
  waiting,       \* the messages whose promise has not settled
  closes         \* how often the socket was closed

vars == <<queuedBytes, queuedMessages, closed, size, queue, waiting, closes>>

Init ==
  /\ queuedBytes = 0
  /\ queuedMessages = 0
  /\ closed = FALSE
  /\ size = <<>>
  /\ queue = <<>>
  /\ waiting = {}
  /\ closes = 0

Received(n) ==
  /\ Len(size) < MaxReceived
  /\ size' = Append(size, n)

\* Nothing is taken from a session once it is over its limit.
Ignore(n) ==
  /\ closed
  /\ Received(n)
  /\ UNCHANGED <<queuedBytes, queuedMessages, closed, queue, waiting, closes>>

OverLimit(n) == queuedBytes + n > MaxBytes \/ queuedMessages + 1 > MaxMessages

\* Fault: the check does not close the guard, only the socket.
RefuseAgain(n) ==
  /\ ~closed
  /\ OverLimit(n)
  /\ Received(n)
  /\ closes' = closes + 1
  /\ UNCHANGED <<queuedBytes, queuedMessages, closed, queue, waiting>>

Refuse(n) ==
  /\ ~closed
  /\ OverLimit(n)
  /\ Received(n)
  /\ closed' = TRUE
  /\ closes' = closes + 1
  /\ UNCHANGED <<queuedBytes, queuedMessages, queue, waiting>>

Accept(n) ==
  /\ ~closed
  /\ ~OverLimit(n)
  /\ Received(n)
  /\ queuedBytes' = queuedBytes + n
  /\ queuedMessages' = queuedMessages + 1
  /\ queue' = Append(queue, Len(size'))
  /\ waiting' = waiting \cup {Len(size')}
  /\ UNCHANGED <<closed, closes>>

\* Hocuspocus has handled the oldest message.
Handle ==
  /\ queue # <<>>
  /\ queue' = Tail(queue)
  /\ UNCHANGED <<queuedBytes, queuedMessages, closed, size, waiting, closes>>

\* Fault: the count is given back at once, not when the promise settles.
SettleEarly(i) ==
  /\ i \in waiting
  /\ waiting' = waiting \ {i}
  /\ queuedBytes' = queuedBytes - size[i]
  /\ queuedMessages' = queuedMessages - 1
  /\ UNCHANGED <<closed, size, queue, closes>>

\* Fault: the bytes given back are those of the newest message.
SettleNewest(i) ==
  /\ i \in waiting
  /\ \A j \in DOMAIN queue : queue[j] # i
  /\ waiting' = waiting \ {i}
  /\ queuedBytes' = queuedBytes - size[Len(size)]
  /\ queuedMessages' = queuedMessages - 1
  /\ UNCHANGED <<closed, size, queue, closes>>

\* The promise taken with message i settles, one way or the other.
Settle(i) ==
  /\ i \in waiting
  /\ \A j \in DOMAIN queue : queue[j] # i
  /\ waiting' = waiting \ {i}
  /\ queuedBytes' = queuedBytes - size[i]
  /\ queuedMessages' = queuedMessages - 1
  /\ UNCHANGED <<closed, size, queue, closes>>

HandleMessage(n) == Ignore(n) \/ Refuse(n) \/ Accept(n)

Next ==
  \/ \E n \in Sizes : HandleMessage(n)
  \/ Handle
  \/ \E i \in waiting : Settle(i)

Spec == Init /\ [][Next]_vars

-----------------------------------------------------------------------------
\* What Hocuspocus has not handled stays within both limits, however late and
\* in whatever order the promises settle.
BoundedBacklog ==
  /\ SumFunctionOnSet(size, Range(queue)) <= MaxBytes
  /\ Len(queue) <= MaxMessages

\* What was counted is given back, no more and no less: a session that comes to
\* rest has its whole allowance again.
NothingLeaks == waiting = {} => queuedBytes = 0 /\ queuedMessages = 0

\* A session over its limit is closed once, whatever it sends after that.
ClosedOnce == closes <= 1

=============================================================================
