---------------------------- MODULE TicketsProofs ----------------------------
(***************************************************************************)
(* Proofs about the tickets, for any users, teams, Documents, secrets and  *)
(* lifetimes: who is admitted by either service is exactly who core-api    *)
(* issued a ticket for that service, with the present secret, that has not *)
(* expired.                                                                *)
(***************************************************************************)
EXTENDS Tickets, TLAPS

-----------------------------------------------------------------------------
(* The verdicts on what core-api issues.                                   *)

\* A ticket for the chat is good for the secret it was signed with and until it
\* expires, and nothing else about it can be wrong.
LEMMA SocketTicketVerdict ==
  ASSUME NEW secret, NEW u, NEW t \in Teams, NEW exp \in Int
  PROVE  ValidateToken(SocketTicket(secret, u, t, exp)) <=> secret = JwtSecret /\ now < exp
<1> DEFINE ticket == SocketTicket(secret, u, t, exp)
<1>1. ticket.header = HS256JWT /\ ticket.claims.exp.is = exp
  BY DEF SocketTicket, Sign, Num
<1>2. SignedWith(JwtSecret, ticket) <=> secret = JwtSecret
  BY DEF SocketTicket, Sign, SignedWith
<1>3. Unmarshals(ticket.claims)
  BY DEF SocketTicket, Sign, Unmarshals, Str, Num
<1>4. \A f \in {"user_id", "org_id", "team_id", "team_public_id"} : ticket.claims[f] # Absent
  BY DEF SocketTicket, Sign, Str, Num, Absent
<1>5. ticket.claims.team_id.is >= 1
  BY TicketAssumption DEF TicketAssumption, SocketTicket, Sign, Num
<1> HIDE DEF ticket
<1> QED
  BY <1>1, <1>2, <1>3, <1>4, <1>5 DEF ValidateToken, ticket

\* The chat server never takes a ticket for a Document: its team is an id.
LEMMA DocumentTicketIsNoToken ==
  ASSUME NEW secret, NEW u, NEW t, NEW d, NEW name, NEW exp
  PROVE  ~ValidateToken(DocumentTicket(secret, u, t, d, name, exp))
BY DEF DocumentTicket, Sign, ValidateToken, Unmarshals, Str

\* The collaboration server never takes a ticket for the chat: it has no purpose.
LEMMA SocketTicketIsNoDocumentTicket ==
  ASSUME NEW secret, NEW u, NEW t, NEW exp, NEW room, NEW time
  PROVE  ~ValidateDocumentTicket(SocketTicket(secret, u, t, exp), room, time)
BY DEF SocketTicket, Sign, ValidateDocumentTicket, ReadClaims, Str, Absent

\* Both services sign and verify with the same text, whatever the setting is.
LEMMA OneSecret == TicketSecret = JwtSecret /\ TicketSecret.length >= 32
<1>1. CASE Setting.kind = "unset"
  <2>1. TicketSecret = DefaultSecret /\ JwtSecret = DefaultSecret
    BY <1>1 DEF TicketSecret, JwtSecret
  <2> QED
    BY <2>1 DEF DefaultSecret
<1>2. CASE Setting.kind = "plain"
  BY <1>2, TicketAssumption DEF TicketAssumption, TicketSecret, JwtSecret
<1> QED
  BY <1>1, <1>2, TicketAssumption DEF TicketAssumption

LEMMA DocumentTicketVerdict ==
  ASSUME NEW secret, NEW u, NEW t, NEW d, NEW name, NEW exp \in Int, NEW room, NEW time \in Int
  PROVE  ValidateDocumentTicket(DocumentTicket(secret, u, t, d, name, exp), room, time)
           <=> /\ secret = JwtSecret
               /\ name \in 1 .. 200
               /\ {u, t, d, Org[t]} \subseteq UUIDs
               /\ room[1] = Org[t] /\ room[2] = t /\ room[3] = d
               /\ time < exp
<1> DEFINE ticket == DocumentTicket(secret, u, t, d, name, exp)
<1>1. ticket.header = HS256JWT /\ ticket.claims.exp.is = exp
  BY DEF DocumentTicket, Sign, Num
<1>2. SignedWith(TicketSecret, ticket) <=> secret = JwtSecret
  BY OneSecret DEF DocumentTicket, Sign, SignedWith
<1>3. /\ ticket.claims.org_id = Str(room[1]) <=> room[1] = Org[t]
      /\ ticket.claims.team_id = Str(room[2]) <=> room[2] = t
      /\ ticket.claims.document_id = Str(room[3]) <=> room[3] = d
  BY DEF DocumentTicket, Sign, Str
<1>4. ReadClaims(ticket.claims) <=> name \in 1 .. 200 /\ {u, t, d, Org[t]} \subseteq UUIDs
  <2>1. /\ ticket.claims.purpose = Str("document")
        /\ ticket.claims.display_name.json = "string" /\ ticket.claims.display_name.is = name
        /\ ticket.claims.exp.json = "number"
    BY DEF DocumentTicket, Sign, Str, Num
  <2>2. /\ ticket.claims["document_id"] = Str(d) /\ ticket.claims["org_id"] = Str(Org[t])
        /\ ticket.claims["team_id"] = Str(t) /\ ticket.claims["user_id"] = Str(u)
    BY DEF DocumentTicket, Sign
  <2>3. \A x : ValidUUID(Str(x)) <=> x \in UUIDs
    BY DEF ValidUUID, Str
  <2> HIDE DEF ticket
  <2> QED
    BY <2>1, <2>2, <2>3 DEF ReadClaims
<1> HIDE DEF ticket
<1> QED
  BY <1>1, <1>2, <1>3, <1>4, OneSecret DEF ValidateDocumentTicket, ticket

\* A ticket tells for which service it is, who issued it with which secret, and
\* what it says.
LEMMA SocketTicketInjective ==
  \A s1, u1, t1, e1, s2, u2, t2, e2 :
    SocketTicket(s1, u1, t1, e1) = SocketTicket(s2, u2, t2, e2)
      => s1 = s2 /\ u1 = u2 /\ t1 = t2 /\ e1 = e2
<1> SUFFICES ASSUME NEW s1, NEW u1, NEW t1, NEW e1, NEW s2, NEW u2, NEW t2, NEW e2,
                    SocketTicket(s1, u1, t1, e1) = SocketTicket(s2, u2, t2, e2)
             PROVE  s1 = s2 /\ u1 = u2 /\ t1 = t2 /\ e1 = e2
  OBVIOUS
<1> DEFINE a == SocketTicket(s1, u1, t1, e1)
           b == SocketTicket(s2, u2, t2, e2)
<1>1. a.signature.key = s1 /\ b.signature.key = s2
  BY DEF SocketTicket, Sign
<1>2. a.claims.user_id.is = u1 /\ b.claims.user_id.is = u2
  BY DEF SocketTicket, Sign, Str
<1>3. a.claims.team_public_id.is = t1 /\ b.claims.team_public_id.is = t2
  BY DEF SocketTicket, Sign, Str
<1>4. a.claims.exp.is = e1 /\ b.claims.exp.is = e2
  BY DEF SocketTicket, Sign, Num
<1> HIDE DEF a, b
<1>5. a = b
  BY DEF a, b
<1> QED
  BY <1>1, <1>2, <1>3, <1>4, <1>5

LEMMA DocumentTicketInjective ==
  \A s1, u1, t1, d1, n1, e1, s2, u2, t2, d2, n2, e2 :
    DocumentTicket(s1, u1, t1, d1, n1, e1) = DocumentTicket(s2, u2, t2, d2, n2, e2)
      => s1 = s2 /\ u1 = u2 /\ t1 = t2 /\ d1 = d2 /\ n1 = n2 /\ e1 = e2
<1> SUFFICES ASSUME NEW s1, NEW u1, NEW t1, NEW d1, NEW n1, NEW e1,
                    NEW s2, NEW u2, NEW t2, NEW d2, NEW n2, NEW e2,
                    DocumentTicket(s1, u1, t1, d1, n1, e1) = DocumentTicket(s2, u2, t2, d2, n2, e2)
             PROVE  s1 = s2 /\ u1 = u2 /\ t1 = t2 /\ d1 = d2 /\ n1 = n2 /\ e1 = e2
  OBVIOUS
<1> DEFINE a == DocumentTicket(s1, u1, t1, d1, n1, e1)
           b == DocumentTicket(s2, u2, t2, d2, n2, e2)
<1>1. a.signature.key = s1 /\ b.signature.key = s2
  BY DEF DocumentTicket, Sign
<1>2. a.claims.user_id.is = u1 /\ b.claims.user_id.is = u2
  BY DEF DocumentTicket, Sign, Str
<1>3. a.claims.team_id.is = t1 /\ b.claims.team_id.is = t2
  BY DEF DocumentTicket, Sign, Str
<1>4. a.claims.document_id.is = d1 /\ b.claims.document_id.is = d2
  BY DEF DocumentTicket, Sign, Str
<1>5. a.claims.display_name.is = n1 /\ b.claims.display_name.is = n2
  BY DEF DocumentTicket, Sign, Str
<1>6. a.claims.exp.is = e1 /\ b.claims.exp.is = e2
  BY DEF DocumentTicket, Sign, Num
<1> HIDE DEF a, b
<1>7. a = b
  BY DEF a, b
<1> QED
  BY <1>1, <1>2, <1>3, <1>4, <1>5, <1>6, <1>7

-----------------------------------------------------------------------------
(* The invariant.                                                          *)

Expiries == 0 .. MaxTime + Lifetime

Secrets == {JwtSecret, Former}

\* What core-api issues for the chat of a team, and for a Document.
SocketTickets ==
  {SocketTicket(x[1], x[2], x[3], x[4]) : x \in Secrets \X Users \X Teams \X Expiries}

DocumentTickets ==
  {DocumentTicket(x[1], x[2], x[3], x[4], x[5], x[6]) :
     x \in Secrets \X Users \X Teams \X Documents \X NameLengths \X Expiries}

\* A session that waits for Redis has been asked for with a ticket and a name
\* there are; its verdict is still open.
Asking ==
  session.phase = "asking" =>
    \E ticket \in SocketTickets \cup DocumentTickets, name \in Names, org \in Organizations, t \in Teams,
       origin \in Origins, at \in Int :
      session = [service |-> "editing", phase |-> "asking", ticket |-> ticket, name |-> name,
                 org |-> org, team |-> t, origin |-> origin, at |-> at]

TicketInv ==
  /\ now \in 0 .. MaxTime
  /\ issued \subseteq SocketTickets \cup DocumentTickets
  /\ Asking
  /\ ChatAsIssued
  /\ EditingAsIssued

\* The verdict of the chat server on what core-api may have issued.
LEMMA ChatVerdict ==
  ASSUME NEW ticket \in SocketTickets \cup DocumentTickets, NEW team \in Teams, now \in 0 .. MaxTime
  PROVE  ValidateToken(ticket) /\ ticket.claims.team_public_id = Str(team)
           <=> \E u \in Users, exp \in now + 1 .. MaxTime + Lifetime :
                 ticket = SocketTicket(JwtSecret, u, team, exp)
<1>0. MaxTime \in Nat /\ Lifetime \in Nat
  BY TicketAssumption DEF TicketAssumption
<1>1. CASE ticket \in SocketTickets
  <2>1. PICK s \in Secrets, u \in Users, t \in Teams, exp \in Expiries : ticket = SocketTicket(s, u, t, exp)
    BY <1>1 DEF SocketTickets
  <2>2. ticket.claims.team_public_id = Str(team) <=> t = team
    BY <2>1 DEF SocketTicket, Sign, Str
  <2>3. ValidateToken(ticket) <=> s = JwtSecret /\ now < exp
    BY <2>1, <1>0, SocketTicketVerdict DEF Expiries
  <2>4. ASSUME NEW u2 \in Users, NEW exp2 \in now + 1 .. MaxTime + Lifetime,
               ticket = SocketTicket(JwtSecret, u2, team, exp2)
        PROVE  s = JwtSecret /\ t = team /\ now < exp
    <3>1. SocketTicket(s, u, t, exp) = SocketTicket(JwtSecret, u2, team, exp2)
      BY <2>1, <2>4
    <3>2. s = JwtSecret /\ t = team /\ exp = exp2
      BY <3>1, SocketTicketInjective
    <3> QED
      BY <1>0, <3>2
  <2>5. ASSUME s = JwtSecret, t = team, now < exp
        PROVE  \E u2 \in Users, exp2 \in now + 1 .. MaxTime + Lifetime :
                 ticket = SocketTicket(JwtSecret, u2, team, exp2)
    <3>1. exp \in now + 1 .. MaxTime + Lifetime
      BY <1>0, <2>5 DEF Expiries
    <3> QED
      BY <2>1, <2>5, <3>1
  <2> QED
    BY <2>2, <2>3, <2>4, <2>5
<1>2. CASE ticket \in DocumentTickets
  <2>1. PICK s, u, t, d, n, exp : ticket = DocumentTicket(s, u, t, d, n, exp)
    BY <1>2 DEF DocumentTickets
  <2>2. ~ValidateToken(ticket)
    BY <2>1, DocumentTicketIsNoToken
  <2>3. ASSUME NEW u2, NEW exp2 PROVE ticket # SocketTicket(JwtSecret, u2, team, exp2)
    BY <2>1 DEF DocumentTicket, SocketTicket, Sign, Str, Absent
  <2> QED
    BY <2>2, <2>3
<1> QED
  BY <1>1, <1>2

\* Document names are those of three parts.
LEMMA NameParts ==
  ASSUME NEW name \in Names, RoomName(name)
  PROVE  \E o \in Organizations, t \in Teams, d \in Documents : name = <<o, t, d>>
<1>1. \A o, t : ~RoomName(<<o, t>>)
  BY DEF RoomName
<1>2. name \in Organizations \X Teams \X Documents
  BY <1>1 DEF Names
<1> QED
  BY <1>2

\* The verdict of the collaboration server, at the time at which it decides.
EditingVerdict(ticket, name, t, time) ==
  \E u \in Users \cap UUIDs, d \in Documents \cap UUIDs, n \in NameLengths \cap 1 .. 200,
     exp \in time + 1 .. MaxTime + Lifetime :
    /\ name = <<Org[t], t, d>>
    /\ ticket = DocumentTicket(JwtSecret, u, t, d, n, exp)

LEMMA DocumentVerdict ==
  ASSUME NEW ticket \in SocketTickets \cup DocumentTickets, NEW name \in Names, NEW team \in Teams,
         NEW org, now \in 0 .. MaxTime
  PROVE  /\ RoomName(name)
         /\ name[1] = org /\ name[2] = team
         /\ ValidateDocumentTicket(ticket, name, now)
         <=> /\ EditingVerdict(ticket, name, team, now) /\ org = Org[team]
             /\ {team, Org[team]} \subseteq UUIDs
<1>0. MaxTime \in Nat /\ Lifetime \in Nat /\ now \in Int
  BY TicketAssumption DEF TicketAssumption
<1>1. CASE ticket \in SocketTickets
  <2>1. PICK s, u, t, exp : ticket = SocketTicket(s, u, t, exp)
    BY <1>1 DEF SocketTickets
  <2>2. ~ValidateDocumentTicket(ticket, name, now)
    BY <2>1, SocketTicketIsNoDocumentTicket
  <2>3. ASSUME NEW u2, NEW d2, NEW n2, NEW exp2 PROVE ticket # DocumentTicket(JwtSecret, u2, team, d2, n2, exp2)
    BY <2>1 DEF DocumentTicket, SocketTicket, Sign, Str, Absent
  <2> QED
    BY <2>2, <2>3 DEF EditingVerdict
<1>2. CASE ticket \in DocumentTickets
  <2>1. PICK s \in Secrets, u \in Users, t \in Teams, d \in Documents, n \in NameLengths, exp \in Expiries :
          ticket = DocumentTicket(s, u, t, d, n, exp)
    BY <1>2 DEF DocumentTickets
  <2>2. ValidateDocumentTicket(ticket, name, now)
           <=> /\ s = JwtSecret /\ n \in 1 .. 200 /\ {u, t, d, Org[t]} \subseteq UUIDs
               /\ name[1] = Org[t] /\ name[2] = t /\ name[3] = d
               /\ now < exp
    BY <2>1, <1>0, DocumentTicketVerdict DEF Expiries
  <2>3. ASSUME RoomName(name), name[1] = org, name[2] = team,
               ValidateDocumentTicket(ticket, name, now)
        PROVE  /\ EditingVerdict(ticket, name, team, now) /\ org = Org[team]
               /\ {team, Org[team]} \subseteq UUIDs
    <3>1. PICK o2 \in Organizations, t2 \in Teams, d2 \in Documents : name = <<o2, t2, d2>>
      BY <2>3, NameParts
    <3>2. t = team /\ t2 = team /\ d2 = d /\ o2 = Org[team] /\ org = Org[team]
      BY <2>2, <2>3, <3>1
    <3>3. exp \in now + 1 .. MaxTime + Lifetime
      BY <1>0, <2>2, <2>3 DEF Expiries
    <3>4. u \in UUIDs /\ d \in UUIDs /\ n \in 1 .. 200 /\ s = JwtSecret
      BY <2>2, <2>3
    <3>5. {team, Org[team]} \subseteq UUIDs
      BY <2>2, <2>3, <3>2
    <3> QED
      BY <2>1, <3>1, <3>2, <3>3, <3>4, <3>5 DEF EditingVerdict
  <2>4. ASSUME EditingVerdict(ticket, name, team, now), org = Org[team], {team, Org[team]} \subseteq UUIDs
        PROVE  /\ RoomName(name) /\ name[1] = org /\ name[2] = team
               /\ ValidateDocumentTicket(ticket, name, now)
    <3>1. PICK u2 \in Users \cap UUIDs, d2 \in Documents \cap UUIDs, n2 \in NameLengths \cap 1 .. 200,
               exp2 \in now + 1 .. MaxTime + Lifetime :
            name = <<Org[team], team, d2>> /\ ticket = DocumentTicket(JwtSecret, u2, team, d2, n2, exp2)
      BY <2>4 DEF EditingVerdict
    <3>2. RoomName(name) /\ name[1] = Org[team] /\ name[2] = team /\ name[3] = d2
      BY <2>4, <3>1 DEF RoomName
    <3>3. s = JwtSecret /\ u = u2 /\ t = team /\ d = d2 /\ n = n2 /\ exp = exp2
      <4>1. DocumentTicket(s, u, t, d, n, exp) = DocumentTicket(JwtSecret, u2, team, d2, n2, exp2)
        BY <2>1, <3>1
      <4> QED
        BY <4>1, DocumentTicketInjective
    <3>4. now < exp
      BY <3>3, <1>0
    <3> QED
      BY <2>2, <2>4, <3>2, <3>3, <3>4
  <2> QED
    BY <2>3, <2>4
<1> QED
  BY <1>1, <1>2

-----------------------------------------------------------------------------
(* The theorems.                                                           *)

LEMMA InitTicketInv == Init => TicketInv
BY TicketAssumption DEF TicketAssumption, Init, TicketInv, Asking, ChatAsIssued, EditingAsIssued

LEMMA IssueKeeps == ASSUME TicketInv, Issue PROVE TicketInv'
<1>0. MaxTime \in Nat /\ Lifetime \in Nat
  BY TicketAssumption DEF TicketAssumption
<1>1. PICK s \in Secrets, u \in Users, t \in Teams, exp \in now .. now + Lifetime :
        \/ issued' = {SocketTicket(s, u, t, exp)}
        \/ \E d \in Documents, name \in NameLengths : issued' = {DocumentTicket(s, u, t, d, name, exp)}
  BY DEF Issue, Secrets
<1>2. exp \in Expiries
  BY <1>0 DEF TicketInv, Expiries
<1>3. issued' \subseteq SocketTickets \cup DocumentTickets
  <2>1. CASE issued' = {SocketTicket(s, u, t, exp)}
    <3>1. <<s, u, t, exp>> \in Secrets \X Users \X Teams \X Expiries
      BY <1>2
    <3>2. SocketTicket(s, u, t, exp) \in SocketTickets
      BY <3>1 DEF SocketTickets
    <3> QED
      BY <2>1, <3>2
  <2>2. ASSUME NEW d \in Documents, NEW name \in NameLengths,
               issued' = {DocumentTicket(s, u, t, d, name, exp)}
        PROVE  issued' \subseteq SocketTickets \cup DocumentTickets
    <3>1. <<s, u, t, d, name, exp>> \in Secrets \X Users \X Teams \X Documents \X NameLengths \X Expiries
      BY <1>2
    <3>2. DocumentTicket(s, u, t, d, name, exp) \in DocumentTickets
      BY <3>1 DEF DocumentTickets
    <3> QED
      BY <2>2, <3>2
  <2> QED
    BY <1>1, <2>1, <2>2
<1>4. now' = now /\ session' = session
  BY DEF Issue
<1> QED
  BY <1>3, <1>4 DEF TicketInv, Asking, ChatAsIssued, EditingAsIssued

LEMMA OpenChatKeeps ==
  ASSUME TicketInv, NEW ticket \in issued, NEW team \in Teams, NEW origin \in Origins,
         OpenChat(ticket, team, origin)
  PROVE  TicketInv'
<1>1. ticket \in SocketTickets \cup DocumentTickets /\ now \in 0 .. MaxTime
  BY DEF TicketInv
<1>2. now' = now /\ issued' = issued
  BY DEF OpenChat
<1>3. /\ session'.service = "chat" /\ session'.ticket = ticket /\ session'.team = team
      /\ session'.origin = origin /\ session'.at = now /\ session'.phase \in {"admitted", "refused"}
      /\ session'.phase = "admitted"
           <=> /\ ValidateToken(ticket)
               /\ ticket.claims.team_public_id = Str(team)
               /\ AllowsOrigin(origin)
  BY DEF OpenChat
<1>4. ChatAsIssued'
  BY <1>1, <1>3, ChatVerdict DEF ChatAsIssued, AllowsOrigin
<1> QED
  BY <1>1, <1>2, <1>3, <1>4 DEF TicketInv, Asking, EditingAsIssued

LEMMA OpenEditingKeeps ==
  ASSUME TicketInv, NEW ticket \in issued, NEW team \in Teams, NEW origin \in Origins, NEW name \in Names,
         NEW org \in Organizations, OpenEditing(ticket, name, org, team, origin)
  PROVE  TicketInv'
<1>1. ticket \in SocketTickets \cup DocumentTickets /\ now \in Int
  BY TicketAssumption DEF TicketInv, TicketAssumption
<1>2. now' = now /\ issued' = issued
  BY DEF OpenEditing
<1>3. session' = [service |-> "editing", phase |-> "asking", ticket |-> ticket, name |-> name,
                  org |-> org, team |-> team, origin |-> origin, at |-> now]
  BY DEF OpenEditing
<1>4. Asking'
  BY <1>1, <1>3 DEF Asking
<1>5. session'.service = "editing" /\ session'.phase = "asking"
  BY <1>3
<1> QED
  BY <1>2, <1>4, <1>5 DEF TicketInv, ChatAsIssued, EditingAsIssued

LEMMA AuthenticateKeeps == ASSUME TicketInv, Authenticate PROVE TicketInv'
<1>1. PICK ticket \in SocketTickets \cup DocumentTickets, name \in Names, org \in Organizations, t \in Teams,
           origin \in Origins, at \in Int :
        session = [service |-> "editing", phase |-> "asking", ticket |-> ticket, name |-> name,
                   org |-> org, team |-> t, origin |-> origin, at |-> at]
  BY DEF TicketInv, Asking, Authenticate
<1>2. now' = now /\ issued' = issued /\ now \in 0 .. MaxTime
  BY DEF Authenticate, TicketInv
<1> DEFINE admits == /\ RoomName(name)
                     /\ name[1] = org
                     /\ name[2] = t
                     /\ ValidateOrigin(origin)
                     /\ ValidateDocumentTicket(ticket, name, now)
<1>3. session' = [session EXCEPT !.phase = IF admits THEN "admitted" ELSE "refused", !.at = now]
  BY <1>1 DEF Authenticate
<1>4. /\ session'.service = "editing" /\ session'.ticket = ticket /\ session'.name = name
      /\ session'.team = t /\ session'.org = org /\ session'.origin = origin /\ session'.at = now
      /\ session'.phase \in {"admitted", "refused"}
      /\ session'.phase = "admitted" <=> admits
  BY <1>1, <1>3
<1>5. admits <=> /\ EditingVerdict(ticket, name, t, now) /\ org = Org[t] /\ {t, Org[t]} \subseteq UUIDs
                 /\ origin \in AllowedOrigins
  BY <1>2, DocumentVerdict DEF ValidateOrigin
<1> HIDE DEF admits
<1>6. EditingAsIssued'
  BY <1>4, <1>5 DEF EditingAsIssued, EditingVerdict
<1> QED
  BY <1>2, <1>4, <1>6 DEF TicketInv, Asking, ChatAsIssued

LEMMA NextTicketInv == TicketInv /\ [Next]_vars => TicketInv'
<1> SUFFICES ASSUME TicketInv, [Next]_vars PROVE TicketInv'
  OBVIOUS
<1>1. CASE Issue
  BY <1>1, IssueKeeps
<1>2. CASE Tick
  BY <1>2, TicketAssumption
  DEF Tick, TicketInv, Asking, ChatAsIssued, EditingAsIssued, TicketAssumption
<1>3. CASE Present
  BY <1>3, OpenChatKeeps, OpenEditingKeeps DEF Present
<1>4. CASE Authenticate
  BY <1>4, AuthenticateKeeps
<1>5. CASE UNCHANGED vars
  BY <1>5 DEF vars, TicketInv, Asking, ChatAsIssued, EditingAsIssued
<1> QED
  BY <1>1, <1>2, <1>3, <1>4, <1>5 DEF Next

\* A WebSocket of the chat is admitted exactly if its ticket was issued for the
\* chat of its team with the present secret and has not expired, and its origin
\* is allowed, whatever other tickets core-api issues (jwt.go:34-61).
THEOREM ChatAsIssuedHolds == Spec => []ChatAsIssued
<1>1. TicketInv => ChatAsIssued
  BY DEF TicketInv
<1> QED
  BY <1>1, InitTicketInv, NextTicketInv, PTL DEF Spec

\* The same for an Editing Session of a Document, at the time at which Redis has
\* answered and not at that of the request (server.ts:86-111, auth.ts:20-59).
THEOREM EditingAsIssuedHolds == Spec => []EditingAsIssued
<1>1. TicketInv => EditingAsIssued
  BY DEF TicketInv
<1> QED
  BY <1>1, InitTicketInv, NextTicketInv, PTL DEF Spec

=============================================================================
