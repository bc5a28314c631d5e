---------------------------- MODULE EditingSocket ----------------------------
(***************************************************************************)
(* One WebSocket with both of its protections: what an Editing Session has *)
(* sent waits in InboundQueue, what is sent to the peer passes the guards  *)
(* of Backpressure, and a session that sends too much has the socket       *)
(* closed under all of them.                                               *)
(***************************************************************************)
EXTENDS InboundQueue, Backpressure

socketVars == <<vars, outVars>>

SocketInit == Init /\ OutInit

Inbound ==
  \/ \E n \in Sizes : (Ignore(n) \/ Accept(n)) /\ UNCHANGED outVars
  \/ \E n \in Sizes : Refuse(n) /\ CloseSocket
  \/ Handle /\ UNCHANGED outVars
  \/ \E i \in waiting : Settle(i) /\ UNCHANGED outVars

SocketNext == Inbound \/ (OutNext /\ UNCHANGED vars)

SocketSpec == SocketInit /\ [][SocketNext]_socketVars

=============================================================================
