------------------------------- MODULE Tickets -------------------------------
(***************************************************************************)
(* The tickets of both services.  core-api issues them (it is not part of  *)
(* this repository; README.md:46) and signs them with the secret it shares *)
(* with the chat server, which decides when the WebSocket is opened, and   *)
(* with the collaboration server, which asks Redis first and decides then. *)
(*                                                                         *)
(* A ticket is its header and claims and a signature over them; claims are *)
(* JSON values with their types, a display name is its length.  Encoding   *)
(* and parsing reject what is not such a ticket and are left out.          *)
(***************************************************************************)
EXTENDS Integers, Sequences

CONSTANTS
  Users, Teams, Documents,   \* ids; Users has some that are no UUIDs
  UUIDs,
  Org, Number,               \* the organization and the number of a team
  NameLengths,
  Origins, AllowedOrigins, NoOrigin,
  Setting,                   \* JWT_SECRET in the environment of all services
  Former,                    \* the secret core-api signed with before that
  Lifetime,                  \* of a ticket, in seconds
  MaxTime                    \* bound on the clock, for TLC

ASSUME TicketAssumption ==
  /\ \A t \in Teams : Number[t] \in Nat \ {0}
  /\ NameLengths \subseteq Nat
  /\ Setting.kind \in {"unset", "plain"}
  /\ Setting.kind = "plain" => Setting.secret.length >= 32
  /\ NoOrigin \notin AllowedOrigins
  /\ Lifetime \in Nat
  /\ MaxTime \in Nat

VARIABLES
  now,
  issued,    \* the ticket core-api has issued last, as a set of at most one
  session    \* the WebSocket or Editing Session opened last, and what became of it

vars == <<now, issued, session>>

-----------------------------------------------------------------------------
(* The secret.  A setting is "unset", "blank", or some text, "plain" or    *)
(* "padded" with white space.                                              *)

DefaultSecret == [text |-> "default", length |-> 42]

\* internal/auth/jwt.go
JwtSecret == IF Setting.kind \in {"plain", "padded"} THEN Setting.secret ELSE DefaultSecret

\* config.ticketSecret
TicketSecret ==
  CASE Setting.kind = "unset" -> DefaultSecret
    [] Setting.kind = "blank" -> [text |-> "", length |-> 0]
    [] Setting.kind = "plain" -> Setting.secret
    [] Setting.kind = "padded" -> [Setting.secret EXCEPT !.text = "padded", !.length = @ + 1]

-----------------------------------------------------------------------------
(* JSON values and the tickets core-api issues.                            *)

Str(x) == [json |-> "string", is |-> x]
Num(n) == [json |-> "number", is |-> n]
Absent == [json |-> "absent"]

HS256JWT == [alg |-> "HS256", typ |-> "JWT"]

Sign(secret, claims) ==
  [header |-> HS256JWT, claims |-> claims,
   signature |-> [key |-> secret, over |-> <<HS256JWT, claims>>]]

SocketTicket(secret, u, t, exp) == Sign(secret,
  [user_id |-> Str(u), org_id |-> Str(Org[t]), team_id |-> Num(Number[t]), team_public_id |-> Str(t),
   document_id |-> Absent, purpose |-> Absent, display_name |-> Absent, exp |-> Num(exp)])

DocumentTicket(secret, u, t, d, name, exp) == Sign(secret,
  [user_id |-> Str(u), org_id |-> Str(Org[t]), team_id |-> Str(t), team_public_id |-> Absent,
   document_id |-> Str(d), purpose |-> Str("document"), display_name |-> Str(name), exp |-> Num(exp)])

SignedWith(secret, ticket) ==
  ticket.signature = [key |-> secret, over |-> <<ticket.header, ticket.claims>>]

-----------------------------------------------------------------------------
(* The chat server.                                                        *)

\* json.Unmarshal takes the claims: a field may be missing, not of another type.
Unmarshals(claims) ==
  /\ \A f \in {"user_id", "org_id", "team_public_id"} : claims[f].json \in {"string", "absent"}
  /\ \A f \in {"team_id", "exp"} : claims[f].json \in {"number", "absent"}

\* Fault: a ticket is good in the second in which it expires.
ValidateTokenLate(ticket) ==
  /\ ticket.header = HS256JWT
  /\ SignedWith(JwtSecret, ticket)
  /\ Unmarshals(ticket.claims)
  /\ \A f \in {"user_id", "org_id", "team_id", "team_public_id"} : ticket.claims[f] # Absent
  /\ ticket.claims.team_id.is >= 1
  /\ now <= ticket.claims.exp.is

ValidateToken(ticket) ==
  /\ ticket.header = HS256JWT
  /\ SignedWith(JwtSecret, ticket)
  /\ Unmarshals(ticket.claims)
  /\ \A f \in {"user_id", "org_id", "team_id", "team_public_id"} : ticket.claims[f] # Absent
  /\ ticket.claims.team_id.is >= 1
  /\ now < ticket.claims.exp.is

\* The upgrader lets clients in that are no browsers.
AllowsOrigin(origin) == origin \in AllowedOrigins \cup {NoOrigin}

\* GET /ws
OpenChat(ticket, team, origin) ==
  /\ session.phase # "asking"
  /\ session' = [service |-> "chat", ticket |-> ticket, team |-> team, origin |-> origin, at |-> now,
                 phase |-> IF /\ ValidateToken(ticket)
                              /\ ticket.claims.team_public_id = Str(team)
                              /\ AllowsOrigin(origin)
                           THEN "admitted" ELSE "refused"]
  /\ UNCHANGED <<now, issued>>

-----------------------------------------------------------------------------
(* The collaboration server.                                               *)

ValidUUID(value) == value.json = "string" /\ value.is \in UUIDs

\* readClaims takes them.
ReadClaims(claims) ==
  /\ claims.purpose = Str("document")
  /\ claims.display_name.json = "string"
  /\ claims.display_name.is \in 1 .. 200
  /\ \A f \in {"document_id", "org_id", "team_id", "user_id"} : ValidUUID(claims[f])
  /\ claims.exp.json = "number"

ValidateDocumentTicket(ticket, room, time) ==
  /\ TicketSecret.length >= 32
  /\ SignedWith(TicketSecret, ticket)
  /\ ticket.header = HS256JWT
  /\ ReadClaims(ticket.claims)
  /\ ticket.claims.org_id = Str(room[1])
  /\ ticket.claims.team_id = Str(room[2])
  /\ ticket.claims.document_id = Str(room[3])
  /\ ticket.claims.exp.is > time

\* parseDocumentRoomName takes the name.
RoomName(name) == Len(name) = 3

ValidateOrigin(origin) == origin \in AllowedOrigins

\* An Editing Session with a ticket, a Document name and the parameters of the
\* URL; the server asks Redis whether the Document is deleted.
OpenEditing(ticket, name, org, team, origin) ==
  /\ session.phase # "asking"
  /\ session' = [service |-> "editing", phase |-> "asking", ticket |-> ticket, name |-> name,
                 org |-> org, team |-> team, origin |-> origin, at |-> now]
  /\ UNCHANGED <<now, issued>>

\* Fault: the clock is read before Redis is asked.
AuthenticateAsOpened ==
  /\ session.phase = "asking"
  /\ session' = [session EXCEPT
       !.phase = IF /\ RoomName(session.name)
                    /\ session.name[1] = session.org
                    /\ session.name[2] = session.team
                    /\ ValidateOrigin(session.origin)
                    /\ ValidateDocumentTicket(session.ticket, session.name, session.at)
                 THEN "admitted" ELSE "refused",
       !.at = now]
  /\ UNCHANGED <<now, issued>>

\* onAuthenticate goes on.  A room that is deleted, or a Redis that does not
\* answer, is in DocumentRoom.
Authenticate ==
  /\ session.phase = "asking"
  /\ session' = [session EXCEPT
       !.phase = IF /\ RoomName(session.name)
                    /\ session.name[1] = session.org
                    /\ session.name[2] = session.team
                    /\ ValidateOrigin(session.origin)
                    /\ ValidateDocumentTicket(session.ticket, session.name, now)
                 THEN "admitted" ELSE "refused",
       !.at = now]
  /\ UNCHANGED <<now, issued>>

-----------------------------------------------------------------------------
Init ==
  /\ now = 0
  /\ issued = {}
  /\ session = [service |-> "none", phase |-> "none"]

\* One ticket at a time is enough: no decision depends on two of them.
Issue ==
  /\ issued = {}
  /\ \E secret \in {JwtSecret, Former}, u \in Users, t \in Teams, exp \in now .. now + Lifetime :
       \/ issued' = {SocketTicket(secret, u, t, exp)}
       \/ \E d \in Documents, name \in NameLengths : issued' = {DocumentTicket(secret, u, t, d, name, exp)}
  /\ UNCHANGED <<now, session>>

Tick ==
  /\ now < MaxTime
  /\ now' = now + 1
  /\ UNCHANGED <<issued, session>>

Organizations == {Org[t] : t \in Teams}

\* What a client may ask for: any organization with any team and Document, whether
\* or not they belong together, and names that have a part too few.
Names == (Organizations \X Teams \X Documents) \cup (Organizations \X Teams)

Present ==
  \E ticket \in issued, t \in Teams, origin \in Origins :
    \/ OpenChat(ticket, t, origin)
    \/ \E name \in Names, org \in Organizations : OpenEditing(ticket, name, org, t, origin)

Next == Issue \/ Tick \/ Present \/ Authenticate

Spec == Init /\ [][Next]_vars

-----------------------------------------------------------------------------
\* Whoever has a WebSocket for the chat of a team, or has been refused one,
\* deserves it: it is admitted exactly if its ticket was issued for the chat of
\* that team, with the present secret, and has not expired (jwt.go:34-61,
\* main.go:61-81).  A ticket for a Document will not do, though the signature
\* and half of its claims are right, and no ticket that is good is refused.
ChatAsIssued ==
  session.service = "chat" =>
    (session.phase = "admitted"
       <=> /\ \E u \in Users, exp \in session.at + 1 .. MaxTime + Lifetime :
                session.ticket = SocketTicket(JwtSecret, u, session.team, exp)
           /\ session.origin \in AllowedOrigins \cup {NoOrigin})

\* The same for a Document (server.ts:86-111, auth.ts:20-59), whose server has
\* to ask Redis in between: by the time Redis has answered, the ticket has not
\* expired, it was issued for that Document of that team of that organization, all
\* ids in it are UUIDs, and whoever it names has a name that presence can show.
EditingAsIssued ==
  session.service = "editing" /\ session.phase # "asking" =>
    (session.phase = "admitted"
       <=> /\ \E u \in Users \cap UUIDs, d \in Documents \cap UUIDs, name \in NameLengths \cap 1 .. 200,
                 exp \in session.at + 1 .. MaxTime + Lifetime :
                /\ session.name = <<Org[session.team], session.team, d>>
                /\ session.ticket = DocumentTicket(JwtSecret, u, session.team, d, name, exp)
           /\ session.org = Org[session.team]
           /\ {session.team, Org[session.team]} \subseteq UUIDs
           /\ session.origin \in AllowedOrigins)

=============================================================================
