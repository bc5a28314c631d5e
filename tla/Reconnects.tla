----------------------------- MODULE Reconnects -----------------------------
(***************************************************************************)
(* The reconnect counter of CollaborationObservability: which identities   *)
(* have Editing Sessions, and which left a short time ago.  The Map of     *)
(* recent disconnects keeps the order in which its keys were inserted and  *)
(* is swept from the front.  Nothing in the code pairs the calls of        *)
(* disconnected with those of authenticated: an attempt that is given up   *)
(* before it is connected is a disconnect too.  The clock only goes        *)
(* forward.  `gone', `since', `again' and `astray' only record history.    *)
(***************************************************************************)
EXTENDS Integers, FiniteSets, SequencesExt

CONSTANTS
  Identities,    \* organization, team, document and user of Editing Sessions
  Window,        \* 5 minutes, in ticks
  Cap,           \* 10 000 in the code
  MaxOpen,       \* bound on the sessions of an identity, for TLC
  MaxTime,       \* bound on the clock, for TLC
  MaxReturns     \* bound on the counter, for TLC

ASSUME ReconnectAssumption ==
  /\ IsFiniteSet(Identities)
  /\ Window \in Nat /\ Cap \in Nat \ {0} /\ MaxOpen \in Nat /\ MaxTime \in Nat
  /\ MaxReturns \in Nat

VARIABLES
  now,
  open,         \* the Editing Sessions there are, per identity
  active,       \* activeIdentities, 0 for an identity without an entry
  recent,       \* recentDisconnects in its order: <<[id |-> i, at |-> t], ...>>
  reconnects,   \* the counter
  gone,         \* when an identity left, if no session was connected since
  since,        \* who has left since an identity first did
  again,        \* the identities that left more than once since one was connected
  astray        \* those that gave up an attempt beside a session, until none is open

code == <<open, active, recent, reconnects>>
history == <<gone, since, again>>
vars == <<now, code, history, astray>>

Never == -1

Init ==
  /\ now = 0
  /\ open = [i \in Identities |-> 0]
  /\ active = [i \in Identities |-> 0]
  /\ recent = <<>>
  /\ reconnects = 0
  /\ gone = [i \in Identities |-> Never]
  /\ since = [i \in Identities |-> {}]
  /\ again = {}
  /\ astray = {}

\* Fault: the size of the Map is not looked at.
SweptByAge(q) ==
  LET stay == {k \in DOMAIN q : q[k].at >= now - Window}
  IN  IF stay = {} THEN <<>> ELSE SubSeq(q, Min(stay), Len(q))

\* Fault: an entry on the boundary of the window is too old.
SweptOnBoundary(q) ==
  LET stay == {k \in DOMAIN q : q[k].at > now - Window /\ Len(q) - k < Cap}
  IN  IF stay = {} THEN <<>> ELSE SubSeq(q, Min(stay), Len(q))

\* expireReconnects: entries are deleted from the front up to the first that is
\* young enough with no more than Cap left.
Swept(q) ==
  LET stay == {k \in DOMAIN q : q[k].at >= now - Window /\ Len(q) - k < Cap}
  IN  IF stay = {} THEN <<>> ELSE SubSeq(q, Min(stay), Len(q))

Has(q, i) == \E k \in DOMAIN q : q[k].id = i

\* Map.delete: a key is there once at most.
Place(q, i) == CHOOSE k \in DOMAIN q : q[k].id = i

Without(q, i) == RemoveAt(q, Place(q, i))

\* Map.set: a key that is there keeps its place.
MapSet(q, i, t) ==
  IF Has(q, i)
  THEN [k \in DOMAIN q |-> IF q[k].id = i THEN [id |-> i, at |-> t] ELSE q[k]]
  ELSE Append(q, [id |-> i, at |-> t])

\* The history of a session that is connected, and of an identity that leaves.
Opened(i) ==
  /\ open[i] < MaxOpen
  /\ open' = [open EXCEPT ![i] = @ + 1]
  /\ gone' = [gone EXCEPT ![i] = Never]
  /\ since' = [since EXCEPT ![i] = {}]
  /\ again' = again \ {i}
  /\ UNCHANGED astray

Departs(i) ==
  /\ gone' = [gone EXCEPT ![i] = now]
  /\ since' = [j \in Identities |->
       IF j # i /\ gone[j] # Never THEN since[j] \cup {i} ELSE since[j]]
  /\ again' = IF gone[i] = Never THEN again ELSE again \cup {i}

\* Fault: the identity keeps its entry in activeIdentities.
DisconnectedKeepsActive(i) ==
  IF active[i] <= 1
  THEN /\ recent' = Swept(MapSet(recent, i, now))
       /\ UNCHANGED active
  ELSE /\ active' = [active EXCEPT ![i] = @ - 1]
       /\ UNCHANGED recent

\* disconnected: the last session of an identity enters the Map, and so does one
\* that was never connected.
Disconnected(i) ==
  IF active[i] <= 1
  THEN /\ active' = [active EXCEPT ![i] = 0]
       /\ recent' = Swept(MapSet(recent, i, now))
  ELSE /\ active' = [active EXCEPT ![i] = @ - 1]
       /\ UNCHANGED recent

\* Fault: the sweep is left to disconnected.
ConnectUnswept(i) ==
  /\ reconnects < MaxReturns
  /\ Opened(i)
  /\ active' = [active EXCEPT ![i] = @ + 1]
  /\ IF active[i] = 0 /\ Has(recent, i)
     THEN recent' = Without(recent, i) /\ reconnects' = reconnects + 1
     ELSE UNCHANGED <<recent, reconnects>>
  /\ UNCHANGED now

\* A session is connected: authenticated.
Connect(i) ==
  /\ reconnects < MaxReturns
  /\ Opened(i)
  /\ active' = [active EXCEPT ![i] = @ + 1]
  /\ LET q == Swept(recent)
     IN  IF active[i] = 0 /\ Has(q, i)
         THEN recent' = Without(q, i) /\ reconnects' = reconnects + 1
         ELSE recent' = q /\ UNCHANGED reconnects
  /\ UNCHANGED now

\* A connected session ends.
Disconnect(i) ==
  /\ open[i] > 0
  /\ open' = [open EXCEPT ![i] = @ - 1]
  /\ Disconnected(i)
  /\ astray' = IF open[i] = 1 THEN astray \ {i} ELSE astray
  /\ IF open[i] = 1 \/ i \in astray THEN Departs(i) ELSE UNCHANGED history
  /\ UNCHANGED <<now, reconnects>>

\* The socket of an attempt goes away before the session is connected, while its
\* Document loads, and onDisconnect runs all the same.
GiveUp(i) ==
  /\ Disconnected(i)
  /\ astray' = IF open[i] > 0 THEN astray \cup {i} ELSE astray
  /\ Departs(i)
  /\ UNCHANGED <<now, open, reconnects>>

Tick ==
  /\ now < MaxTime
  /\ now' = now + 1
  /\ UNCHANGED <<code, history, astray>>

Next == Tick \/ \E i \in Identities : Connect(i) \/ Disconnect(i) \/ GiveUp(i)

Spec == Init /\ [][Next]_vars

-----------------------------------------------------------------------------
\* The Map holds no more than Cap identities and none twice; an entry is out of
\* order only if Map.set refreshed it in its place, and an identity with a
\* session has one only if an attempt beside that session was given up.  The
\* sweep from the front relies on it.
RecentInOrder ==
  /\ Len(recent) <= Cap
  /\ \A j, k \in DOMAIN recent : j < k =>
       /\ recent[j].id # recent[k].id
       /\ recent[j].id \notin again => recent[j].at <= recent[k].at
  /\ \A k \in DOMAIN recent : open[recent[k].id] = 0 \/ recent[k].id \in astray

\* activeIdentities counts the open sessions of an identity, and too few of them
\* only while attempts beside those were given up: it is right again as soon as
\* the last session has ended.
SessionsCounted ==
  \A i \in Identities : active[i] <= open[i] /\ (i \notin astray => active[i] = open[i])

\* An identity without a session opens one within the window of its leaving.
Returns(i) ==
  /\ open[i] = 0 /\ open'[i] = 1
  /\ gone[i] # Never
  /\ now - gone[i] <= Window

\* Every return within the window is counted, on its boundary too and whatever
\* attempts were given up, unless so many other identities have left since that
\* the cap may have made the Map forget.
CountsEveryReturn ==
  [][\A i \in Identities :
       Returns(i) /\ Cardinality(since[i]) < Cap => reconnects' = reconnects + 1]_vars

\* What is counted is a session of an identity that left, or gave up an attempt,
\* and has not been connected since, within the window unless its entry was
\* sheltered by one that was refreshed in its place; and none is counted twice.
CountsOnlyReturns ==
  [][reconnects' # reconnects =>
       /\ reconnects' = reconnects + 1
       /\ \E i \in Identities :
            /\ open'[i] = open[i] + 1
            /\ gone[i] # Never
            /\ open[i] = 0 \/ i \in astray
            /\ \/ now - gone[i] <= Window
               \/ \E j \in again \ {i} : now - gone[j] <= Window]_vars

=============================================================================
