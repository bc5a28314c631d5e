------------------------ MODULE RoomLifecyclesProofs ------------------------
(***************************************************************************)
(* Proofs about the two lifecycles, for any replicas, any time to live and *)
(* any number of deletions: the memory never remembers longer than Redis,  *)
(* and forgets earlier only after a deletion that came before the timer of *)
(* another had run out.                                                    *)
(***************************************************************************)
EXTENDS RoomLifecycles, TLAPS

Types ==
  /\ now \in Nat
  /\ keyUntil \in Nat
  /\ deletes \in Nat
  /\ marked \in BOOLEAN
  /\ overlapped \in BOOLEAN

\* Either nobody remembers the room, or both do: the one timer there is and the
\* key end at the same time, which has not passed.
SameEnd ==
  \/ timers = {} /\ ~marked /\ keyUntil <= now
  \/ /\ \E n \in Nat : timers = {[no |-> n, due |-> keyUntil]}
     /\ marked /\ keyUntil >= now

\* A deletion is remembered until the timer of the latest one at the latest, which
\* is due when the key ends.
Timed == marked => \E t \in timers : t.due = keyUntil

LifecycleInv ==
  /\ Types
  /\ destroyed = {} => listeners = subscribers
  /\ destroyed = {} => Timed
  /\ destroyed = {} /\ ~overlapped => SameEnd

LEMMA InitLifecycleInv == Init => LifecycleInv
<1> SUFFICES ASSUME Init PROVE LifecycleInv
  OBVIOUS
<1>1. now \in Nat /\ keyUntil \in Nat /\ deletes \in Nat /\ keyUntil <= now
  BY DEF Init
<1>2. timers = {} /\ ~marked /\ listeners = subscribers
  BY DEF Init
<1>3. marked \in BOOLEAN /\ overlapped \in BOOLEAN
  BY ZenonT(20) DEF Init
<1>4. SameEnd /\ Timed
  BY <1>1, <1>2 DEF SameEnd, Timed
<1> QED
  BY <1>1, <1>2, <1>3, <1>4 DEF LifecycleInv, Types

LEMMA NextLifecycleInv == LifecycleInv /\ [Next]_vars => LifecycleInv'
<1> SUFFICES ASSUME LifecycleInv, [Next]_vars PROVE LifecycleInv'
  OBVIOUS
<1> USE LifecycleAssumption DEF LifecycleAssumption, LifecycleInv
<1>1. ASSUME NEW r \in Replicas, Start(r) PROVE LifecycleInv'
  BY <1>1 DEF Start, Types, SameEnd, Timed
<1>2. ASSUME NEW r \in Replicas, Destroy(r) PROVE LifecycleInv'
  BY <1>2 DEF Destroy, Types
<1>3. CASE Delete
  <2>1. Types' /\ destroyed' = destroyed /\ listeners' = listeners /\ subscribers' = subscribers
    BY <1>3 DEF Delete, Types
  <2>2. /\ timers' = timers \cup {[no |-> deletes', due |-> keyUntil']} /\ deletes' \in Nat
        /\ marked' /\ keyUntil' >= now' /\ overlapped' = (timers # {})
    BY <1>3, <2>1 DEF Delete, Types
  <2>3. Timed'
    <3>1. [no |-> deletes', due |-> keyUntil'] \in timers'
      BY <2>2
    <3>2. [no |-> deletes', due |-> keyUntil'].due = keyUntil'
      OBVIOUS
    <3> QED
      BY <3>1, <3>2, Zenon DEF Timed
  <2>4. ~overlapped' => SameEnd'
    BY <2>2 DEF SameEnd
  <2> QED
    BY <2>1, <2>3, <2>4
<1>4. ASSUME NEW t \in timers, TimerFires(t) PROVE LifecycleInv'
  <2>1. UNCHANGED <<now, keyUntil, subscribers, listeners, deletes, destroyed, overlapped>> /\ ~marked' /\ Types'
    BY <1>4 DEF TimerFires, Types
  <2>2. ASSUME ~overlapped, destroyed = {} PROVE SameEnd'
    <3>1. PICK n \in Nat : timers = {[no |-> n, due |-> keyUntil]}
      BY <2>2 DEF SameEnd
    <3>2. t.due = keyUntil /\ timers' = {}
      BY <1>4, <3>1 DEF TimerFires
    <3>3. keyUntil <= now
      BY <1>4, <3>2 DEF TimerFires
    <3> QED
      BY <2>1, <3>2, <3>3 DEF SameEnd
  <2>3. Timed'
    BY <2>1 DEF Timed
  <2> QED
    BY <2>1, <2>2, <2>3
<1>5. CASE Tick
  <2>1. Types' /\ UNCHANGED <<keyUntil, subscribers, marked, timers, listeners, destroyed, overlapped>> /\ now' = now + 1
    BY <1>5 DEF Tick, Types
  <2>2. ASSUME ~overlapped, destroyed = {} PROVE SameEnd'
    <3>1. CASE timers = {} /\ ~marked /\ keyUntil <= now
      BY <2>1, <3>1 DEF SameEnd, Types
    <3>2. ASSUME NEW n \in Nat, timers = {[no |-> n, due |-> keyUntil]}, marked PROVE SameEnd'
      <4>1. keyUntil > now
        BY <1>5, <3>2 DEF Tick
      <4>2. keyUntil' >= now'
        BY <2>1, <4>1 DEF Types
      <4> QED
        BY <2>1, <3>2, <4>2 DEF SameEnd
    <3> QED
      BY <2>2, <3>1, <3>2 DEF SameEnd
  <2>3. Timed => Timed'
    BY <2>1 DEF Timed
  <2> QED
    BY <2>1, <2>2, <2>3
<1>6. CASE UNCHANGED vars
  BY <1>6 DEF vars, Types, SameEnd, Timed
<1> QED
  BY <1>1, <1>2, <1>3, <1>4, <1>5, <1>6 DEF Next

\* While no server is destroyed, both lifecycles tell the same replicas, the memory
\* never remembers a deletion longer than Redis does, and earlier it forgets only
\* one that came while the timer of another was running
\* (room-lifecycle.ts:32-40, 79-88).
THEOREM LifecyclesAgreeHolds == Spec => []LifecyclesAgree
<1>1. LifecycleInv => LifecyclesAgree
  <2> SUFFICES ASSUME LifecycleInv, destroyed = {}, Settled
               PROVE  /\ MemoryIsDeleted => RedisIsDeleted
                      /\ RedisIsDeleted => MemoryIsDeleted \/ overlapped
                      /\ listeners = subscribers
    BY DEF LifecyclesAgree
  <2>1. now \in Nat /\ keyUntil \in Nat /\ Timed /\ listeners = subscribers /\ (~overlapped => SameEnd)
    BY DEF LifecycleInv, Types
  <2>2. ASSUME marked PROVE now < keyUntil
    <3>1. PICK t \in timers : t.due = keyUntil
      BY <2>1, <2>2 DEF Timed
    <3> QED
      BY <3>1 DEF Settled
  <2>3. ASSUME now < keyUntil, ~overlapped PROVE marked
    BY <2>1, <2>3 DEF SameEnd
  <2> QED
    BY <2>1, <2>2, <2>3 DEF MemoryIsDeleted, RedisIsDeleted
<1>2. Spec => []LifecycleInv
  BY InitLifecycleInv, NextLifecycleInv, PTL DEF Spec
<1> QED
  BY <1>1, <1>2, PTL

=============================================================================
