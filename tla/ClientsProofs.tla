----------------------------- MODULE ClientsProofs -----------------------------
(***************************************************************************)
(* Theorems about module Clients, for any number of requests, addresses,   *)
(* categories and rows of a form, and any bound.  Each part has an         *)
(* inductive invariant of its own, which says what an answer that is on    *)
(* its way is still worth.                                                 *)
(***************************************************************************)
EXTENDS Clients, Integers, FiniteSets, Functions, FiniteSetTheorems, WellFoundedInduction, TLAPS

(* Session: at most one refresh is under way, and the secret it was given  *)
(* is the one that is stored until it lands.                               *)
Flights == [at : Session!FlightAt, token : Session!Token \cup {Session!NoToken}, next : 0..MaxSecrets]
Flies(c) == flight[c].at # "none"

SessionInv ==
    /\ Session!TypeOK
    /\ \A c, d \in Calls : Flies(c) /\ Flies(d) => c = d
    /\ \A c \in Calls : Flies(c) =>
         /\ flight[c].token \in Session!Token /\ session[flight[c].token.session].secret # 0
         /\ flight[c].at = "rotated" =>
              flight[c].next # 0 /\ session[flight[c].token.session].secret = flight[c].next
    /\ stored # Session!NoToken => session[stored.session].secret # 0
    /\ Session!KeepsItsSession

\* The values that rows, tokens and flights are built from have their types.
LEMMA SessionTypes ==
    /\ Session!NoRow \in Session!Row /\ Session!NoRow.secret = 0
    /\ Session!NoToken \notin Session!Token /\ Session!NoToken.session = 0
    /\ \A t \in Session!Token : t.session \in Session!Sessions /\ t.secret \in 1..MaxSecrets
    /\ Session!NoFlight \in Flights /\ Session!NoFlight.at = "none"
<1>1. MaxSecrets \in Nat \ {0} /\ MaxSessions \in Nat \ {0}
  BY PartsAssumption DEF Session!SessionAssumption
<1> QED
  BY <1>1 DEF Session!NoRow, Session!Row, Session!NoToken, Session!Token, Session!NoFlight, Flights,
     Session!FlightAt, Session!Sessions

\* The first state of the sessions keeps their invariant.
LEMMA SessionInitInv == Session!Init => SessionInv
<1> SUFFICES ASSUME Session!Init PROVE SessionInv
  OBVIOUS
<1>0. 0 \in 0..MaxSecrets
  BY PartsAssumption DEF Session!SessionAssumption
<1>1. Session!TypeOK
  <2>1. isActive \in BOOLEAN
    BY DEF Session!Init
  <2>2. lost \in BOOLEAN
    BY DEF Session!Init
  <2>3. session \in [Session!Sessions -> Session!Row] /\ stored = Session!NoToken
        /\ made = 0 /\ call \in [Calls -> Session!CallAt]
        /\ flight \in [Calls -> Flights]
    BY SessionTypes DEF Session!Init, Session!CallAt
  <2> QED
    BY <1>0, <2>1, <2>2, <2>3 DEF Session!TypeOK, Flights
<1>2. \A c \in Calls : ~Flies(c)
  BY SessionTypes DEF Session!Init, Flies
<1> QED
  BY <1>1, <1>2 DEF SessionInv, Session!Init, Session!KeepsItsSession

\* So does every step of a request, of the refresh and of the server.
LEMMA SessionStepInv == ASSUME SessionInv, Session!Next PROVE SessionInv'
<1>t. /\ session \in [Session!Sessions -> Session!Row] /\ isActive \in BOOLEAN /\ lost \in BOOLEAN
      /\ made \in 0..MaxSecrets
      /\ stored \in Session!Token \cup {Session!NoToken}
      /\ call \in [Calls -> Session!CallAt]
      /\ flight \in [Calls -> Flights]
      /\ Session!NoFlight \in Flights /\ Session!NoFlight.at = "none"
      /\ MaxSecrets \in Nat /\ Session!NoToken \notin Session!Token
  BY SessionTypes, PartsAssumption DEF Session!SessionAssumption, SessionInv, Session!TypeOK, Flights
<1> DEFINE sv == <<session, isActive, made, stored, flight, lost>>
\* Steps of a request that leave the tokens alone.
<1>1. ASSUME UNCHANGED sv, call' \in [Calls -> Session!CallAt] PROVE SessionInv'
  <2>1. Session!TypeOK'
    BY <1>1, <1>t DEF Session!TypeOK, Flights
  <2>2. Session!KeepsItsSession'
    BY <1>1 DEF SessionInv, Session!KeepsItsSession
  <2> QED
    BY <1>1, <2>1, <2>2 DEF SessionInv, Flies
<1>2. ASSUME NEW c \in Calls,
             Session!Execute(c) \/ Session!Answered(c) \/ Session!Served(c) \/ Session!NothingToRefresh(c)
      PROVE  SessionInv'
  <2>1. call' \in [Calls -> Session!CallAt]
    BY <1>t, <1>2 DEF Session!Execute, Session!Answered, Session!Served, Session!NothingToRefresh, Session!CallAt
  <2>2. UNCHANGED sv
    BY <1>2 DEF Session!Execute, Session!Answered, Session!Served, Session!NothingToRefresh
  <2> QED
    BY <1>1, <2>1, <2>2
<1>3. ASSUME NEW c \in Calls, Session!refresh(c) PROVE SessionInv'
  <2>0. call' \in [Calls -> Session!CallAt] /\ stored \in Session!Token
        /\ UNCHANGED <<session, isActive, made, stored, lost>>
    BY <1>t, <1>3 DEF Session!refresh, Session!CallAt
  <2>1. CASE Session!refreshInFlight
    BY <1>1, <1>3, <2>0, <2>1 DEF Session!refresh
  <2>2. CASE ~Session!refreshInFlight
    <3> DEFINE new == [at |-> "sent", token |-> stored, next |-> 0]
    <3>1. new \in Flights /\ new.at = "sent" /\ new.token = stored
      BY <1>t, <2>0 DEF Flights, Session!FlightAt
    <3>2. flight' = [flight EXCEPT ![c] = new]
      BY <1>3, <2>2 DEF Session!refresh
    <3> HIDE DEF new
    <3>3. flight' \in [Calls -> Flights] /\ flight'[c] = new
          /\ \A d \in Calls : d # c => flight'[d] = flight[d]
      BY <1>t, <3>1, <3>2
    <3>4. \A d \in Calls : ~Flies(d)
      BY <2>2 DEF Session!refreshInFlight, Flies
    <3>5. \A d \in Calls : Flies(d)' => d = c
      BY <3>3, <3>4 DEF Flies
    <3>6. Session!TypeOK'
      BY <1>t, <2>0, <3>3 DEF Session!TypeOK, Flights
    <3>7. Session!KeepsItsSession'
      BY <2>0, <3>4 DEF SessionInv, Session!KeepsItsSession, Flies
    <3>8. session[stored.session].secret # 0
      BY <1>t, <2>0 DEF SessionInv
    <3> QED
      BY <2>0, <3>1, <3>3, <3>5, <3>6, <3>7, <3>8 DEF SessionInv
  <2> QED
    BY <2>1, <2>2
<1>4. ASSUME NEW c \in Calls, NEW at \in Session!CallAt, Flies(c), Session!Lands(c, at)
      PROVE  /\ call' \in [Calls -> Session!CallAt]
             /\ flight' \in [Calls -> Flights]
             /\ \A d \in Calls : ~Flies(d)'
  <2>1. call' \in [Calls -> Session!CallAt]
    BY <1>t, <1>4 DEF Session!Lands
  <2>2. flight' \in [Calls -> Flights] /\ flight'[c].at = "none"
        /\ \A d \in Calls : d # c => flight'[d] = flight[d]
    BY <1>t, <1>4 DEF Session!Lands
  <2>3. \A d \in Calls : d # c => ~Flies(d)
    BY <1>4 DEF SessionInv
  <2> QED
    BY <2>1, <2>2, <2>3 DEF Flies
<1>5. ASSUME NEW c \in Calls, Session!AcceptTokens(c) PROVE SessionInv'
  <2>1. Flies(c) /\ Session!Lands(c, "again") /\ "again" \in Session!CallAt
    BY <1>5 DEF Session!AcceptTokens, Flies, Session!CallAt
  <2>2. /\ call' \in [Calls -> Session!CallAt]
        /\ flight' \in [Calls -> Flights]
        /\ \A d \in Calls : ~Flies(d)'
    BY <1>4, <2>1
  <2>3. /\ flight[c].token \in Session!Token /\ flight[c].next # 0
        /\ session[flight[c].token.session].secret = flight[c].next
        /\ flight[c].next \in 0..MaxSecrets
    BY <1>t, <1>5, <2>1 DEF SessionInv, Session!AcceptTokens, Flights
  <2>4. stored' \in Session!Token /\ stored'.session = flight[c].token.session
        /\ stored'.secret = flight[c].next
    BY <1>t, <1>5, <2>3 DEF Session!AcceptTokens, Session!Token
  <2>5. UNCHANGED <<session, isActive, made, lost>>
    BY <1>5 DEF Session!AcceptTokens
  <2>6. Session!TypeOK'
    BY <1>t, <2>2, <2>4, <2>5 DEF Session!TypeOK, Flights
  <2>7. session'[stored'.session].secret = stored'.secret /\ session'[stored'.session].secret # 0
    BY <2>3, <2>4, <2>5
  <2> QED
    BY <2>2, <2>6, <2>7 DEF SessionInv, Session!KeepsItsSession
<1>6. ASSUME NEW c \in Calls, Session!Denied(c) \/ Session!Lost(c) PROVE SessionInv'
  <2>1. Flies(c) /\ Session!Lands(c, "idle") /\ "idle" \in Session!CallAt
    BY <1>6 DEF Session!Denied, Session!Lost, Flies, Session!CallAt
  <2>2. /\ call' \in [Calls -> Session!CallAt]
        /\ flight' \in [Calls -> Flights]
        /\ \A d \in Calls : ~Flies(d)'
    BY <1>4, <2>1
  <2>3. UNCHANGED <<session, isActive, made, stored>>
    BY <1>6 DEF Session!Denied, Session!Lost
  <2>4. lost' \in BOOLEAN
    BY <1>t, <1>6 DEF Session!Denied, Session!Lost
  <2>5. ~lost' => ~lost /\ flight[c].at # "rotated"
    BY <1>6 DEF Session!Denied, Session!Lost
  <2>6. \A d \in Calls : flight[d].at = "rotated" => d = c
    BY <2>1 DEF SessionInv, Flies
  <2>7. Session!TypeOK'
    BY <1>t, <2>2, <2>3, <2>4 DEF Session!TypeOK, Flights
  <2>8. Session!KeepsItsSession'
    BY <2>3, <2>5, <2>6 DEF SessionInv, Session!KeepsItsSession
  <2> QED
    BY <2>2, <2>3, <2>7, <2>8 DEF SessionInv
<1>7. ASSUME NEW c \in Calls, Session!RefreshRead(c) PROVE SessionInv'
  <2> DEFINE s == session[flight[c].token.session]
             new == [flight[c] EXCEPT !.at =
                       IF ~s.revoked /\ s.secret = flight[c].token.secret THEN "checked" ELSE "denied"]
  <2>1. flight[c].at = "sent" /\ flight' = [flight EXCEPT ![c] = new]
        /\ UNCHANGED <<session, isActive, made, stored, call, lost>>
    BY <1>7 DEF Session!RefreshRead
  <2>2. new \in Flights /\ new.at \in {"checked", "denied"} /\ new.token = flight[c].token
    BY <1>t DEF Flights, Session!FlightAt
  <2> HIDE DEF new
  <2>3. flight' \in [Calls -> Flights] /\ flight'[c] = new
        /\ \A d \in Calls : d # c => flight'[d] = flight[d]
    BY <1>t, <2>1, <2>2
  <2>4. \A d \in Calls : Flies(d)' => Flies(d) /\ flight'[d].token = flight[d].token
    BY <2>1, <2>2, <2>3 DEF Flies
  <2>5. \A d \in Calls : flight[d].at = "rotated" <=> flight'[d].at = "rotated"
    BY <2>1, <2>2, <2>3
  <2>6. \A d \in Calls : flight'[d].at = "rotated" => flight'[d] = flight[d]
    BY <2>1, <2>2, <2>3
  <2>7. Session!TypeOK'
    BY <1>t, <2>1, <2>3 DEF Session!TypeOK, Flights
  <2>8. Session!KeepsItsSession'
    BY <2>1, <2>5, <2>6 DEF SessionInv, Session!KeepsItsSession
  <2> QED
    BY <2>1, <2>4, <2>5, <2>6, <2>7, <2>8 DEF SessionInv
<1>8. ASSUME NEW c \in Calls, Session!RefreshWrite(c) PROVE SessionInv'
  <2> DEFINE s == flight[c].token.session
             new == [flight[c] EXCEPT !.at = "rotated", !.next = made']
             row2 == [session[s] EXCEPT !.secret = made']
  <2>0. Flies(c) /\ s \in Session!Sessions
    BY <1>8, SessionTypes DEF Session!RefreshWrite, Flies, SessionInv
  <2>1. made' = made + 1 /\ made' \in 0..MaxSecrets /\ made' # 0
    BY <1>t, <1>8 DEF Session!RefreshWrite
  <2>2. new \in Flights /\ new.at = "rotated" /\ new.token = flight[c].token /\ new.next = made'
    BY <1>t, <2>1 DEF Flights, Session!FlightAt
  <2>3. row2 \in Session!Row /\ row2.secret = made' /\ row2.revoked = session[s].revoked
    BY <1>t, <2>0, <2>1 DEF Session!Row
  <2>4. /\ flight' = [flight EXCEPT ![c] = new] /\ session' = [session EXCEPT ![s] = row2]
        /\ UNCHANGED <<isActive, stored, call, lost>>
    BY <1>8 DEF Session!RefreshWrite, Session!rotates
  <2> HIDE DEF new, row2
  <2>5. flight' \in [Calls -> Flights] /\ flight'[c] = new
        /\ \A d \in Calls : d # c => flight'[d] = flight[d] /\ ~Flies(d)'
    BY <1>t, <2>0, <2>2, <2>4 DEF SessionInv, Flies
  <2>6. session' \in [Session!Sessions -> Session!Row] /\ session'[s].secret = made'
        /\ \A q \in Session!Sessions : q # s => session'[q] = session[q]
    BY <1>t, <2>0, <2>3, <2>4
  <2>7. Session!TypeOK'
    BY <1>t, <2>1, <2>4, <2>5, <2>6 DEF Session!TypeOK, Flights
  <2>8. stored # Session!NoToken => stored.session \in Session!Sessions
    BY <1>t, SessionTypes
  <2>9. Session!KeepsItsSession'
    <3> SUFFICES ASSUME stored # Session!NoToken, ~session'[stored.session].revoked, ~lost
                 PROVE  \/ session'[stored.session].secret = stored.secret
                        \/ \E d \in Calls : /\ flight'[d].at = "rotated"
                                            /\ flight'[d].token.session = stored.session
                                            /\ flight'[d].next = session'[stored.session].secret
      BY <2>4 DEF Session!KeepsItsSession
    <3>1. CASE stored.session = s
      BY <2>2, <2>5, <2>6, <3>1
    <3>2. CASE stored.session # s
      <4>1. session'[stored.session] = session[stored.session]
        BY <2>6, <2>8, <3>2
      <4>2. \A d \in Calls : flight[d].at # "rotated"
        BY <1>8, <2>0 DEF SessionInv, Flies, Session!RefreshWrite
      <4> QED
        BY <4>1, <4>2 DEF SessionInv, Session!KeepsItsSession
    <3> QED
      BY <3>1, <3>2
  <2>10. stored # Session!NoToken => session'[stored.session].secret # 0
    BY <2>1, <2>6, <2>8 DEF SessionInv
  <2>11. flight[c].token \in Session!Token
    BY <2>0 DEF SessionInv
  <2> QED
    BY <2>1, <2>2, <2>4, <2>5, <2>6, <2>7, <2>9, <2>10, <2>11 DEF SessionInv
<1>9. ASSUME NEW s \in Session!Sessions, Session!login(s) PROVE SessionInv'
  <2> DEFINE row2 == [session[s] EXCEPT !.secret = made']
             token == [session |-> s, secret |-> made']
  <2>1. made' \in 1..MaxSecrets /\ made' \in 0..MaxSecrets /\ made' # 0
    BY <1>t, <1>9 DEF Session!login
  <2>2. row2 \in Session!Row /\ row2.secret = made'
    BY <1>t, <2>1 DEF Session!Row
  <2>3. token \in Session!Token /\ token.session = s /\ token.secret = made'
    BY <2>1 DEF Session!Token
  <2>4. /\ session' = [session EXCEPT ![s] = row2] /\ stored' = token /\ session[s].secret = 0
        /\ UNCHANGED <<isActive, call, flight, lost>>
    BY <1>9, SessionTypes DEF Session!login
  <2> HIDE DEF row2, token
  <2>5. session' \in [Session!Sessions -> Session!Row] /\ session'[s].secret = made'
        /\ \A q \in Session!Sessions : q # s => session'[q] = session[q]
    BY <1>t, <2>2, <2>4
  <2>6. Session!TypeOK'
    BY <1>t, <2>1, <2>3, <2>4, <2>5 DEF Session!TypeOK, Flights
  <2>7. \A c \in Calls : Flies(c) => session'[flight[c].token.session] = session[flight[c].token.session]
    <3> SUFFICES ASSUME NEW c \in Calls, Flies(c)
                 PROVE  session'[flight[c].token.session] = session[flight[c].token.session]
      OBVIOUS
    <3>1. flight[c].token \in Session!Token /\ session[flight[c].token.session].secret # 0
      BY DEF SessionInv
    <3>2. flight[c].token.session # s
      BY <2>4, <3>1
    <3>3. flight[c].token.session \in Session!Sessions
      BY <3>1, SessionTypes
    <3> QED
      BY <2>5, <3>2, <3>3
  <2>8. Session!KeepsItsSession'
    BY <2>3, <2>4, <2>5 DEF Session!KeepsItsSession
  <2> QED
    BY <2>1, <2>3, <2>4, <2>5, <2>6, <2>7, <2>8 DEF SessionInv, Flies
<1>10. CASE Session!signOut
  <2>1. stored' = Session!NoToken /\ UNCHANGED <<session, isActive, made, call, flight, lost>>
    BY <1>10 DEF Session!signOut
  <2>2. Session!TypeOK'
    BY <1>t, <2>1 DEF Session!TypeOK, Flights
  <2> QED
    BY <2>1, <2>2 DEF SessionInv, Session!KeepsItsSession, Flies
<1>11. ASSUME NEW S \in SUBSET Session!Sessions, session' = Session!Revoked(S), isActive' \in BOOLEAN,
              UNCHANGED <<made, stored, call, flight, lost>>
       PROVE  SessionInv'
  <2>1. \A s \in Session!Sessions : session[s] \in Session!Row
          /\ [session[s] EXCEPT !.revoked = TRUE] \in Session!Row
          /\ [session[s] EXCEPT !.revoked = TRUE].secret = session[s].secret
          /\ [session[s] EXCEPT !.revoked = TRUE].revoked
    BY <1>t DEF Session!Row
  <2>2. session' \in [Session!Sessions -> Session!Row]
    BY <1>11, <2>1 DEF Session!Revoked
  <2>3. \A s \in Session!Sessions : session'[s].secret = session[s].secret
          /\ (~session'[s].revoked => ~session[s].revoked)
    BY <1>11, <2>1 DEF Session!Revoked
  <2>4. Session!TypeOK'
    BY <1>t, <1>11, <2>2 DEF Session!TypeOK, Flights
  <2>5. stored # Session!NoToken => stored.session \in Session!Sessions
    BY <1>t, SessionTypes
  <2>6. \A c \in Calls : Flies(c) => flight[c].token.session \in Session!Sessions
    BY SessionTypes DEF SessionInv
  <2>7. Session!KeepsItsSession'
    BY <1>11, <2>3, <2>5 DEF SessionInv, Session!KeepsItsSession
  <2> QED
    BY <1>11, <2>3, <2>4, <2>5, <2>6, <2>7 DEF SessionInv, Flies
<1>12. ASSUME NEW s \in Session!Sessions, Session!logout(s) PROVE SessionInv'
  BY <1>t, <1>11, <1>12 DEF Session!logout
<1>13. CASE Session!RevokeAll
  <2>1. isActive' \in BOOLEAN
    BY <1>t, <1>13 DEF Session!RevokeAll
  <2> QED
    BY <1>11, <1>13, <2>1 DEF Session!RevokeAll
<1>14. CASE Session!activate
  <2>1. isActive' \in BOOLEAN
    BY <1>14 DEF Session!activate
  <2>2. UNCHANGED <<session, made, stored, call, flight, lost>>
    BY <1>14 DEF Session!activate
  <2>3. Session!TypeOK'
    BY <1>t, <2>1, <2>2 DEF Session!TypeOK, Flights
  <2> QED
    BY <2>2, <2>3 DEF SessionInv, Session!KeepsItsSession, Flies
<1> QED
  BY <1>2, <1>3, <1>5, <1>6, <1>7, <1>8, <1>9, <1>10, <1>12, <1>13, <1>14 DEF Session!Next
-----------------------------------------------------------------------------
\* Of bounded numbers, some is the greatest.
LEMMA SomeGreatest ==
    ASSUME NEW S, S # {}, NEW N \in Nat, NEW f, \A s \in S : f[s] \in 0..N
    PROVE  \E g \in S : \A s \in S : f[s] <= f[g]
<1> DEFINE T == {N - f[s] : s \in S}
<1>1. T \subseteq Nat /\ T # {}
  OBVIOUS
<1>2. PICK x \in T : \A y \in T : ~(<<y, x>> \in OpToRel(<, Nat))
  BY <1>1, NatLessThanWellFounded, WFMin
<1>3. PICK g \in S : x = N - f[g]
  BY <1>2
<1>4. ASSUME NEW s \in S PROVE f[s] <= f[g]
  <2>1. N - f[s] \in T
    OBVIOUS
  <2>2. ~(N - f[s] < N - f[g])
    BY <1>1, <1>2, <1>3, <2>1 DEF OpToRel
  <2> QED
    BY <2>2
<1> QED
  BY <1>4

-----------------------------------------------------------------------------
(* AddressBook: an id is new to all requests when it is created; as long   *)
(* as no removal overlapped, a removal is alone, and goes by what is       *)
(* stored; a row that is not to be the default has others beside it.       *)
Asks(r) == request[r] # AddressBook!Idle
OneIsDefault == AddressBook!Stored # {} => \E d \in Addresses : AddressBook!Default = {d}

RequestsApart ==
    /\ \A r, s \in Requests : request[r].op = "remove" /\ Asks(s) => r = s
    /\ \A r \in Requests : request[r].op = "remove" =>
         /\ request[r].id \in AddressBook!Stored
         /\ request[r].isDefault <=> address[request[r].id].isDefault
    /\ \A r \in Requests : request[r].op = "create" /\ ~request[r].isDefault => AddressBook!Stored # {}

AddressBookInv ==
    /\ AddressBook!TypeOK
    /\ \A r \in Requests : request[r].op = "create" => request[r].id \notin AddressBook!Stored
    /\ \A r, s \in Requests :
         request[r].op = "create" /\ request[s].op = "create" /\ request[r].id = request[s].id => r = s
    /\ ~overlapped => OneIsDefault /\ RequestsApart

\* What a row and a request are made of.
LEMMA AddressBookTypes ==
    /\ MaxUpdates \in Nat
    /\ AddressBook!None.isDefault = FALSE /\ AddressBook!None.updatedAt = 0
    /\ AddressBook!Idle \in AddressBook!Request /\ AddressBook!Idle.op = "idle"
    /\ \A q \in AddressBook!Request : q.op # "idle" => q.id \in Addresses /\ q.isDefault \in BOOLEAN
    /\ \A q \in AddressBook!Request : q.op = "idle" => q = AddressBook!Idle
    /\ \A q \in AddressBook!Row : q.updatedAt \in 1..MaxUpdates /\ q # AddressBook!None /\ q.isDefault \in BOOLEAN
<1>1. MaxUpdates \in Nat
  BY PartsAssumption DEF AddressBook!AddressBookAssumption
<1> QED
  BY <1>1 DEF AddressBook!None, AddressBook!Idle, AddressBook!Request, AddressBook!Row

\* An empty book keeps the invariant.
LEMMA AddressBookInitInv == AddressBook!Init => AddressBookInv
<1> SUFFICES ASSUME AddressBook!Init PROVE AddressBookInv
  OBVIOUS
<1>1. overlapped \in BOOLEAN
  BY DEF AddressBook!Init
<1>2. /\ address \in [Addresses -> AddressBook!Row \cup {AddressBook!None}] /\ now \in 0..MaxUpdates
      /\ request \in [Requests -> AddressBook!Request]
  BY AddressBookTypes DEF AddressBook!Init
<1>3. \A r \in Requests : request[r] = AddressBook!Idle /\ request[r].op = "idle"
  BY AddressBookTypes DEF AddressBook!Init
<1>4. AddressBook!Stored = {}
  BY DEF AddressBook!Init, AddressBook!Stored
<1> QED
  BY <1>1, <1>2, <1>3, <1>4 DEF AddressBookInv, AddressBook!TypeOK, OneIsDefault, RequestsApart

\* So does every step of a creation, an update and a removal.
LEMMA AddressBookStepInv == ASSUME AddressBookInv, AddressBook!Next PROVE AddressBookInv'
<1> DEFINE Rows == AddressBook!Row \cup {AddressBook!None}
<1>t. /\ address \in [Addresses -> Rows]
      /\ now \in 0..MaxUpdates /\ overlapped \in BOOLEAN
      /\ request \in [Requests -> AddressBook!Request]
  BY DEF AddressBookInv, AddressBook!TypeOK
<1>n. \A r \in Requests : request[r].op = "create" => request[r].id \notin AddressBook!Stored
  BY DEF AddressBookInv
<1>u. \A r, s \in Requests :
        request[r].op = "create" /\ request[s].op = "create" /\ request[r].id = request[s].id => r = s
  BY DEF AddressBookInv
<1>i. \A r \in Requests : Asks(r) <=> request[r].op # "idle"
  BY <1>t, AddressBookTypes DEF Asks
\* A request reads.
<1>1. ASSUME NEW r \in Requests, NEW op \in {"create", "update", "remove"}, NEW a \in Addresses,
             NEW isDefault \in BOOLEAN, AddressBook!Reads(r, op, a, isDefault),
             op = "create" => a \notin AddressBook!Stored /\ (AddressBook!Stored = {} => isDefault)
                               /\ \A s \in Requests : request[s].id # a,
             op = "remove" => a \in AddressBook!Stored /\ (isDefault <=> address[a].isDefault)
      PROVE  AddressBookInv'
  <2> DEFINE new == [op |-> op, id |-> a, isDefault |-> isDefault]
  <2>1. /\ request' = [request EXCEPT ![r] = new] /\ request[r] = AddressBook!Idle
        /\ overlapped' = (overlapped \/ \E s \in Requests :
              request[s] # AddressBook!Idle /\ "remove" \in {op, request[s].op})
        /\ UNCHANGED <<address, now>>
    BY <1>1 DEF AddressBook!Reads
  <2>2. new \in AddressBook!Request /\ new.op = op /\ new.id = a /\ (new.isDefault <=> isDefault)
    BY DEF AddressBook!Request
  <2> HIDE DEF new
  <2>3. request' \in [Requests -> AddressBook!Request] /\ request'[r] = new
        /\ \A s \in Requests : s # r => request'[s] = request[s]
    BY <1>t, <2>1, <2>2
  <2>4. overlapped' \in BOOLEAN
    BY <1>t, <2>1
  <2>5. AddressBook!Stored' = AddressBook!Stored /\ AddressBook!Default' = AddressBook!Default
    BY <2>1 DEF AddressBook!Stored, AddressBook!Default
  <2>6. \A s \in Requests : request'[s].op = "create" => request'[s].id \notin AddressBook!Stored'
    BY <1>1, <1>n, <2>2, <2>3, <2>5
  <2>8. \A q, s \in Requests :
          request'[q].op = "create" /\ request'[s].op = "create" /\ request'[q].id = request'[s].id => q = s
    BY <1>1, <1>u, <2>2, <2>3
  <2>7. ASSUME ~overlapped' PROVE OneIsDefault' /\ RequestsApart'
    <3>1. ~overlapped /\ \A s \in Requests : Asks(s) => op # "remove" /\ request[s].op # "remove"
      BY <2>1, <2>7 DEF Asks
    <3>2. OneIsDefault'
      BY <2>5, <3>1 DEF AddressBookInv, OneIsDefault
    <3>3. \A q, s \in Requests : request'[q].op = "remove" /\ Asks(s)' => q = s
      BY <1>i, <2>2, <2>3, <3>1 DEF Asks
    <3>4. \A q \in Requests : request'[q].op = "remove" =>
         /\ request'[q].id \in AddressBook!Stored'
         /\ request'[q].isDefault <=> address'[request'[q].id].isDefault
      BY <1>1, <2>1, <2>2, <2>3, <2>5, <3>1 DEF AddressBookInv, RequestsApart
    <3>5. \A q \in Requests : request'[q].op = "create" /\ ~request'[q].isDefault => AddressBook!Stored' # {}
      BY <1>1, <2>1, <2>2, <2>3, <2>5, <3>1 DEF AddressBookInv, RequestsApart
    <3> QED
      BY <3>2, <3>3, <3>4, <3>5 DEF RequestsApart
  <2> QED
    BY <1>t, <2>1, <2>3, <2>4, <2>6, <2>7, <2>8 DEF AddressBookInv, AddressBook!TypeOK
<1>2. ASSUME NEW r \in Requests, NEW a \in Addresses, AddressBook!CreateRead(r, a) PROVE AddressBookInv'
  <2>1. a \notin AddressBook!Stored /\ \A s \in Requests : request[s].id # a
    BY <1>2 DEF AddressBook!CreateRead, AddressBook!Stored
  <2>2. PICK asked \in BOOLEAN : AddressBook!Reads(r, "create", a, asked \/ AddressBook!Stored = {})
    BY <1>2 DEF AddressBook!CreateRead
  <2>3. (asked \/ AddressBook!Stored = {}) \in BOOLEAN
    OBVIOUS
  <2> QED
    BY <1>1, <2>1, <2>2, <2>3
<1>3. ASSUME NEW r \in Requests, NEW a \in Addresses, AddressBook!UpdateRead(r, a) PROVE AddressBookInv'
  BY <1>1, <1>3 DEF AddressBook!UpdateRead
<1>4. ASSUME NEW r \in Requests, NEW a \in Addresses, AddressBook!RemoveRead(r, a) PROVE AddressBookInv'
  <2>1. address[a].isDefault \in BOOLEAN
    BY <1>t, AddressBookTypes
  <2> QED
    BY <1>1, <1>4, <2>1 DEF AddressBook!RemoveRead
\* A request is done: the others are as they were.
<1>5. ASSUME NEW r \in Requests, AddressBook!Done(r)
      PROVE  /\ request' \in [Requests -> AddressBook!Request] /\ request'[r].op = "idle" /\ ~Asks(r)'
             /\ \A s \in Requests : s # r => request'[s] = request[s]
             /\ \A s \in Requests : Asks(s)' => s # r /\ Asks(s) /\ request'[s] = request[s]
             /\ \A s \in Requests : request'[s].op \in {"create", "remove"} => s # r /\ request'[s] = request[s]
             /\ overlapped' = overlapped
  <2>1. request' \in [Requests -> AddressBook!Request] /\ request'[r] = AddressBook!Idle
        /\ \A s \in Requests : s # r => request'[s] = request[s]
    BY <1>t, <1>5, AddressBookTypes DEF AddressBook!Done
  <2> QED
    BY <1>5, <2>1, AddressBookTypes DEF Asks, AddressBook!Done
\* Writes that leave every row in its place, but perhaps add one; they are no removals.
<1>6. ASSUME NEW r \in Requests, AddressBook!Done(r), request[r].op \in {"create", "update"},
             request[r].op = "create" \/ request[r].id \in AddressBook!Stored,
             address' \in [Addresses -> Rows], now' \in 0..MaxUpdates,
             AddressBook!Stored' = AddressBook!Stored \cup {request[r].id},
             ~overlapped => AddressBook!Default' = {request[r].id} \/
                (AddressBook!Stored # {} /\ AddressBook!Default' = AddressBook!Default)
      PROVE  AddressBookInv'
  <2>1. \A s \in Requests : request'[s].op = "create" => request'[s].id \notin AddressBook!Stored'
    BY <1>5, <1>6, <1>n, <1>u
  <2>2. \A q, s \in Requests :
          request'[q].op = "create" /\ request'[s].op = "create" /\ request'[q].id = request'[s].id => q = s
    BY <1>5, <1>6, <1>u
  <2>3. ASSUME ~overlapped' PROVE OneIsDefault' /\ RequestsApart'
    <3>1. ~overlapped /\ OneIsDefault /\ RequestsApart
      BY <1>5, <1>6, <2>3 DEF AddressBookInv
    <3>2. OneIsDefault'
      <4>1. request[r].id \in Addresses
        BY <1>t, <1>6, AddressBookTypes
      <4> QED
        BY <1>6, <3>1, <4>1 DEF OneIsDefault
    <3>3. \A s \in Requests : request'[s].op # "remove"
      BY <1>5, <1>6, <1>i, <3>1 DEF RequestsApart
    <3>4. AddressBook!Stored' # {}
      BY <1>6
    <3> QED
      BY <3>2, <3>3, <3>4 DEF RequestsApart
  <2> QED
    BY <1>t, <1>5, <1>6, <2>1, <2>2, <2>3 DEF AddressBookInv, AddressBook!TypeOK
\* What a write writes is a row.
<1>7. ASSUME NEW r \in Requests, NEW op \in {"create", "update", "remove"}, AddressBook!Writes(r, op)
      PROVE  /\ now' \in 0..MaxUpdates /\ now' >= 1 /\ AddressBook!Done(r) /\ request[r].op = op
             /\ request[r].id \in Addresses /\ request[r].isDefault \in BOOLEAN
             /\ \A b \in BOOLEAN : [isDefault |-> b, updatedAt |-> now'] \in AddressBook!Row
  <2>1. now' = now + 1 /\ now < MaxUpdates /\ AddressBook!Done(r) /\ request[r].op = op
    BY <1>7 DEF AddressBook!Writes
  <2>2. now' \in 1..MaxUpdates /\ now' \in 0..MaxUpdates /\ now' >= 1
    BY <1>t, <2>1, AddressBookTypes
  <2> QED
    BY <1>t, <2>1, <2>2, AddressBookTypes DEF AddressBook!Row
<1>8. ASSUME [isDefault |-> FALSE, updatedAt |-> now'] \in AddressBook!Row
      PROVE  /\ AddressBook!NoDefault \in [Addresses -> Rows]
             /\ \A a \in Addresses : AddressBook!NoDefault[a] # AddressBook!None <=> address[a] # AddressBook!None
             /\ \A a \in Addresses : AddressBook!NoDefault[a].isDefault = FALSE
  <2>1. AddressBook!NoDefault \in [Addresses -> Rows]
    BY <1>t, <1>8 DEF AddressBook!NoDefault
  <2>2. \A a \in Addresses : AddressBook!NoDefault[a] # AddressBook!None <=> address[a] # AddressBook!None
    BY <1>t, <1>8, AddressBookTypes DEF AddressBook!NoDefault, AddressBook!Default, AddressBook!Stored
  <2>3. \A a \in Addresses : AddressBook!NoDefault[a].isDefault = FALSE
    <3> SUFFICES ASSUME NEW a \in Addresses PROVE AddressBook!NoDefault[a].isDefault = FALSE
      OBVIOUS
    <3>1. CASE a \in AddressBook!Default
      BY <3>1 DEF AddressBook!NoDefault
    <3>2. CASE a \notin AddressBook!Default
      <4>1. AddressBook!NoDefault[a] = address[a]
        BY <3>2 DEF AddressBook!NoDefault
      <4>2. address[a].isDefault \in BOOLEAN /\ ~address[a].isDefault
        BY <1>t, <3>2, AddressBookTypes DEF AddressBook!Default, AddressBook!Stored
      <4> QED
        BY <4>1, <4>2
    <3> QED
      BY <3>1, <3>2
  <2> QED
    BY <2>1, <2>2, <2>3
<1>9. ASSUME NEW rows, rows \in [Addresses -> Rows], NEW a \in Addresses, NEW b, b \in BOOLEAN,
             address' = AddressBook!WithRow(rows, a, b),
             \A v \in BOOLEAN : [isDefault |-> v, updatedAt |-> now'] \in AddressBook!Row
      PROVE  /\ address' \in [Addresses -> Rows]
             /\ address'[a] # AddressBook!None /\ address'[a].isDefault = b
             /\ \A c \in Addresses : c # a => address'[c] = rows[c]
  <2> DEFINE row2 == [isDefault |-> b, updatedAt |-> now']
  <2>1. row2 \in AddressBook!Row
    BY <1>9
  <2>2. address' = [rows EXCEPT ![a] = row2] /\ row2.isDefault = b
    BY <1>9 DEF AddressBook!WithRow
  <2> HIDE DEF row2
  <2>3. row2 \in Rows /\ row2 # AddressBook!None
    BY <2>1, AddressBookTypes
  <2>4. address' \in [Addresses -> Rows] /\ address'[a] = row2 /\ \A c \in Addresses : c # a => address'[c] = rows[c]
    BY <1>9, <2>2, <2>3
  <2> QED
    BY <2>2, <2>3, <2>4
<1>10. ASSUME NEW r \in Requests, AddressBook!CreateWrite(r) PROVE AddressBookInv'
  <2> DEFINE a == request[r].id
             rows == IF request[r].isDefault THEN AddressBook!NoDefault ELSE address
  <2>1. AddressBook!Writes(r, "create") /\ address' = AddressBook!WithRow(rows, a, request[r].isDefault)
    BY <1>10 DEF AddressBook!CreateWrite
  <2>2. /\ now' \in 0..MaxUpdates /\ AddressBook!Done(r) /\ request[r].op = "create"
        /\ a \in Addresses /\ request[r].isDefault \in BOOLEAN
        /\ \A b \in BOOLEAN : [isDefault |-> b, updatedAt |-> now'] \in AddressBook!Row
    BY <1>7, <2>1
  <2>3. /\ rows \in [Addresses -> Rows]
        /\ \A c \in Addresses : rows[c] # AddressBook!None <=> address[c] # AddressBook!None
        /\ request[r].isDefault => \A c \in Addresses : rows[c].isDefault = FALSE
        /\ ~request[r].isDefault => rows = address
    BY <1>t, <1>8, <2>2
  <2> HIDE DEF rows
  <2>4. /\ address' \in [Addresses -> Rows]
        /\ address'[a] # AddressBook!None /\ address'[a].isDefault = request[r].isDefault
        /\ \A c \in Addresses : c # a => address'[c] = rows[c]
    BY <1>9, <2>1, <2>2, <2>3
  <2>5. AddressBook!Stored' = AddressBook!Stored \cup {a}
    BY <2>2, <2>3, <2>4 DEF AddressBook!Stored
  <2>6. request[r].isDefault => AddressBook!Default' = {a}
    BY <2>2, <2>3, <2>4, <2>5 DEF AddressBook!Default, AddressBook!Stored
  <2>7. a \notin AddressBook!Stored
    BY <1>n, <2>2
  <2>8. ~request[r].isDefault => AddressBook!Default' = AddressBook!Default
    BY <2>2, <2>3, <2>4, <2>5, <2>7 DEF AddressBook!Default, AddressBook!Stored
  <2>9. ~overlapped /\ ~request[r].isDefault => AddressBook!Stored # {}
    BY <2>2 DEF AddressBookInv, RequestsApart
  <2> QED
    BY <1>6, <2>2, <2>4, <2>5, <2>6, <2>8, <2>9
<1>11. ASSUME NEW r \in Requests, AddressBook!UpdateWrite(r) PROVE AddressBookInv'
  <2> DEFINE a == request[r].id
  <2>1. AddressBook!Writes(r, "update") /\ a \in AddressBook!Stored
    BY <1>11 DEF AddressBook!UpdateWrite
  <2>2. /\ now' \in 0..MaxUpdates /\ now' >= 1 /\ AddressBook!Done(r) /\ request[r].op = "update"
        /\ a \in Addresses /\ request[r].isDefault \in BOOLEAN
        /\ \A b \in BOOLEAN : [isDefault |-> b, updatedAt |-> now'] \in AddressBook!Row
    BY <1>7, <2>1
  <2>3. CASE request[r].isDefault
    <3>1. address' = AddressBook!WithRow(AddressBook!NoDefault, a, TRUE)
      BY <1>11, <2>3 DEF AddressBook!UpdateWrite
    <3>2. /\ AddressBook!NoDefault \in [Addresses -> Rows]
          /\ \A c \in Addresses : AddressBook!NoDefault[c] # AddressBook!None <=> address[c] # AddressBook!None
          /\ \A c \in Addresses : AddressBook!NoDefault[c].isDefault = FALSE
      BY <1>8, <2>2
    <3>3. /\ address' \in [Addresses -> Rows]
          /\ address'[a] # AddressBook!None /\ address'[a].isDefault = TRUE
          /\ \A c \in Addresses : c # a => address'[c] = AddressBook!NoDefault[c]
      BY <1>9, <2>2, <3>1, <3>2
    <3>4. AddressBook!Stored' = AddressBook!Stored \cup {a}
      BY <2>2, <3>2, <3>3 DEF AddressBook!Stored
    <3>5. AddressBook!Default' = {a}
      BY <2>2, <3>2, <3>3, <3>4 DEF AddressBook!Default, AddressBook!Stored
    <3> QED
      BY <1>6, <2>1, <2>2, <3>3, <3>4, <3>5
  <2>4. CASE ~request[r].isDefault
    <3> DEFINE row2 == [address[a] EXCEPT !.updatedAt = now']
    <3>1. address' = [address EXCEPT ![a] = row2]
      BY <1>11, <2>4 DEF AddressBook!UpdateWrite
    <3>2. address[a] \in AddressBook!Row /\ now' \in 1..MaxUpdates
      BY <1>t, <2>1, <2>2 DEF AddressBook!Stored
    <3>3. row2 \in AddressBook!Row /\ row2.isDefault = address[a].isDefault
      BY <3>2 DEF AddressBook!Row
    <3> HIDE DEF row2
    <3>4. address' \in [Addresses -> Rows] /\ address'[a] = row2
          /\ \A c \in Addresses : c # a => address'[c] = address[c]
      BY <1>t, <2>2, <3>1, <3>3
    <3>5. row2 # AddressBook!None
      BY <3>3, AddressBookTypes
    <3>6. AddressBook!Stored' = AddressBook!Stored \cup {a}
      BY <2>2, <3>4, <3>5 DEF AddressBook!Stored
    <3>7. AddressBook!Default' = AddressBook!Default
      BY <2>1, <2>2, <3>3, <3>4, <3>5 DEF AddressBook!Default, AddressBook!Stored
    <3> QED
      BY <1>6, <2>1, <2>2, <3>4, <3>6, <3>7
  <2> QED
    BY <2>3, <2>4
<1>12. ASSUME NEW r \in Requests, AddressBook!RemoveWrite(r) PROVE AddressBookInv'
  <2> DEFINE a == request[r].id
             left == [address EXCEPT ![a] = AddressBook!None]
  <2>1. AddressBook!Writes(r, "remove") /\ a \in AddressBook!Stored
    BY <1>12 DEF AddressBook!RemoveWrite
  <2>2. /\ now' \in 0..MaxUpdates /\ AddressBook!Done(r) /\ request[r].op = "remove"
        /\ a \in Addresses /\ request[r].isDefault \in BOOLEAN
        /\ \A b \in BOOLEAN : [isDefault |-> b, updatedAt |-> now'] \in AddressBook!Row
    BY <1>7, <2>1
  <2>3. left \in [Addresses -> Rows] /\ left[a] = AddressBook!None
        /\ \A c \in Addresses : c # a => left[c] = address[c]
    BY <1>t, <2>2
  <2>4. \/ /\ request[r].isDefault /\ AddressBook!replacements(left) # {}
           /\ \E b \in AddressBook!replacements(left) : address' = AddressBook!WithRow(left, b, TRUE)
        \/ /\ ~(request[r].isDefault /\ AddressBook!replacements(left) # {})
           /\ address' = left
    BY <1>12 DEF AddressBook!RemoveWrite
  <2> HIDE DEF left
  <2>5. \A b \in AddressBook!replacements(left) : b \in Addresses /\ left[b] # AddressBook!None /\ b # a
    BY <2>3 DEF AddressBook!replacements
  <2>6. address' \in [Addresses -> Rows] /\ AddressBook!Stored' = AddressBook!Stored \ {a}
    <3>1. ASSUME NEW b \in AddressBook!replacements(left), address' = AddressBook!WithRow(left, b, TRUE)
          PROVE  address' \in [Addresses -> Rows] /\ AddressBook!Stored' = AddressBook!Stored \ {a}
      <4>1. /\ address' \in [Addresses -> Rows] /\ address'[b] # AddressBook!None
            /\ \A c \in Addresses : c # b => address'[c] = left[c]
        BY <1>9, <2>2, <2>3, <2>5, <3>1
      <4> QED
        BY <2>3, <2>5, <4>1 DEF AddressBook!Stored
    <3>2. CASE address' = left
      BY <2>2, <2>3, <3>2 DEF AddressBook!Stored
    <3> QED
      BY <2>4, <3>1, <3>2
  <2>7. \A s \in Requests : request'[s].op = "create" => request'[s].id \notin AddressBook!Stored'
    BY <1>5, <1>n, <2>2, <2>6
  <2>8. \A q, s \in Requests :
          request'[q].op = "create" /\ request'[s].op = "create" /\ request'[q].id = request'[s].id => q = s
    BY <1>5, <1>u, <2>2
  <2>9. ASSUME ~overlapped' PROVE OneIsDefault' /\ RequestsApart'
    <3>1. ~overlapped /\ OneIsDefault /\ RequestsApart
      BY <1>5, <2>2, <2>9 DEF AddressBookInv
    <3>2. \A s \in Requests : ~Asks(s)' /\ request'[s].op = "idle"
      <4>1. \A s \in Requests : s # r => request'[s].op = "idle"
        BY <1>5, <1>i, <2>2, <3>1 DEF RequestsApart
      <4>2. \A s \in Requests : request'[s].op = "idle"
        BY <1>5, <2>2, <4>1
      <4> QED
        BY <1>5, <2>2, <4>2, AddressBookTypes DEF Asks
    <3>3. RequestsApart'
      BY <3>2 DEF RequestsApart
    <3>4. PICK d \in Addresses : AddressBook!Default = {d}
      BY <2>1, <3>1 DEF OneIsDefault
    <3>5. request[r].isDefault <=> a = d
      <4>1. request[r].isDefault <=> address[a].isDefault
        BY <2>2, <3>1 DEF RequestsApart
      <4>2. address[a].isDefault <=> a \in AddressBook!Default
        BY <2>1 DEF AddressBook!Default
      <4> QED
        BY <3>4, <4>1, <4>2
    <3>6. CASE ~request[r].isDefault
      <4>1. address' = left /\ d # a
        BY <2>4, <3>5, <3>6
      <4>2. AddressBook!Default' = {d}
        BY <2>3, <2>6, <3>4, <4>1 DEF AddressBook!Default, AddressBook!Stored
      <4> QED
        BY <3>3, <4>2 DEF OneIsDefault
    <3>7. CASE request[r].isDefault
      <4>1. \A c \in Addresses : left[c].isDefault = FALSE
        <5> SUFFICES ASSUME NEW c \in Addresses PROVE left[c].isDefault = FALSE
          OBVIOUS
        <5>1. c # a => address[c].isDefault \in BOOLEAN /\ ~address[c].isDefault
          BY <1>t, <3>4, <3>5, <3>7, AddressBookTypes DEF AddressBook!Default, AddressBook!Stored
        <5> QED
          BY <2>3, <5>1, AddressBookTypes
      <4>2. ASSUME NEW b \in AddressBook!replacements(left), address' = AddressBook!WithRow(left, b, TRUE)
            PROVE  AddressBook!Default' = {b} /\ b \in Addresses
        <5>1. /\ address'[b] # AddressBook!None /\ address'[b].isDefault = TRUE
              /\ \A c \in Addresses : c # b => address'[c] = left[c]
          BY <1>9, <2>2, <2>3, <2>5, <4>2
        <5> QED
          BY <2>5, <4>1, <5>1 DEF AddressBook!Default, AddressBook!Stored
      <4>3. ASSUME AddressBook!replacements(left) = {} PROVE AddressBook!Stored' = {}
        <5> DEFINE at == [c \in Addresses |-> left[c].updatedAt]
        <5>1. \A c \in Addresses : at[c] \in 0..MaxUpdates
          BY <2>3, AddressBookTypes
        <5>2. PICK g \in Addresses : \A c \in Addresses : at[c] <= at[g]
          BY <2>2, <5>1, SomeGreatest, AddressBookTypes
        <5>3. left[g] = AddressBook!None
          BY <4>3, <5>2 DEF AddressBook!replacements
        <5>4. \A c \in Addresses : left[c].updatedAt <= 0
          BY <5>2, <5>3, AddressBookTypes
        <5>5. \A c \in Addresses : left[c] = AddressBook!None
          BY <2>3, <5>4, AddressBookTypes
        <5>6. address' = left
          BY <2>4, <4>3
        <5> QED
          BY <5>5, <5>6 DEF AddressBook!Stored
      <4> QED
        BY <2>4, <3>3, <3>7, <4>2, <4>3 DEF OneIsDefault
    <3> QED
      BY <3>6, <3>7
  <2> QED
    BY <1>t, <1>5, <2>2, <2>6, <2>7, <2>8, <2>9 DEF AddressBookInv, AddressBook!TypeOK
<1>13. ASSUME NEW r \in Requests, AddressBook!Gone(r) PROVE AddressBookInv'
  <2>1. AddressBook!Done(r) /\ UNCHANGED <<address, now>>
    BY <1>13 DEF AddressBook!Gone
  <2>2. AddressBook!Stored' = AddressBook!Stored /\ AddressBook!Default' = AddressBook!Default
    BY <2>1 DEF AddressBook!Stored, AddressBook!Default
  <2>3. \A s \in Requests : request'[s].op = "create" => request'[s].id \notin AddressBook!Stored'
    BY <1>5, <1>n, <2>1, <2>2
  <2>4. \A q, s \in Requests :
          request'[q].op = "create" /\ request'[s].op = "create" /\ request'[q].id = request'[s].id => q = s
    BY <1>5, <1>u, <2>1
  <2>5. ASSUME ~overlapped' PROVE OneIsDefault' /\ RequestsApart'
    <3>1. ~overlapped /\ OneIsDefault /\ RequestsApart
      BY <1>5, <2>1, <2>5 DEF AddressBookInv
    <3>2. OneIsDefault'
      BY <2>2, <3>1 DEF OneIsDefault
    <3>3. RequestsApart'
      BY <1>5, <2>1, <2>2, <3>1 DEF RequestsApart
    <3> QED
      BY <3>2, <3>3
  <2> QED
    BY <1>t, <1>5, <2>1, <2>3, <2>4, <2>5 DEF AddressBookInv, AddressBook!TypeOK
<1> QED
  BY <1>2, <1>3, <1>4, <1>10, <1>11, <1>12, <1>13 DEF AddressBook!Next

\* The invariant of the book says that it has one default.
LEMMA AddressBookInvSuffices == AddressBookInv => OneDefault
<1> SUFFICES ASSUME AddressBookInv, ~overlapped, AddressBook!Stored # {}
             PROVE  Cardinality(AddressBook!Default) = 1
  BY DEF OneDefault, AddressBook!OneDefault, AddressBook!Cardinality, Cardinality
<1>1. PICK d \in Addresses : AddressBook!Default = {d}
  BY DEF AddressBookInv, OneIsDefault
<1> QED
  BY <1>1, FS_Singleton
-----------------------------------------------------------------------------
(* StockForm: a row that is shown is not newer than the row that is        *)
(* stored, and older once the correction that is entered was applied.      *)
Item == [version : Nat, threshold : Thresholds]
Saves == [step : {"idle", "adjust", "adjusted", "threshold", "written"},
          current : Item \cup {NoStock}, threshold : Thresholds \cup {NoStock}, mine : BOOLEAN]

StockFormInv ==
    /\ row \in Item /\ listed \in Item /\ listed.version <= row.version
    /\ selected \in Item \cup {NoStock}
    /\ selected # NoStock => selected.version <= row.version
    /\ delta \in BOOLEAN /\ wanted \in Thresholds
    /\ save \in Saves
    /\ save.step # "idle" =>
         /\ save.current \in Item /\ save.threshold \in Thresholds
         /\ save.current.version <= row.version
         /\ save.step = "adjust" /\ save.mine => save.current = selected
    /\ applied \in {0, 1}
    /\ applied = 1 => selected # NoStock /\ selected.version < row.version

\* A row that is just listed keeps the invariant of the form.
LEMMA StockFormInitInv == StockForm!Init => StockFormInv
<1> SUFFICES ASSUME StockForm!Init PROVE StockFormInv
  OBVIOUS
<1>1. row \in Item /\ row.threshold \in Thresholds /\ row.version = 0
  BY DEF StockForm!Init, Item
<1>2. save \in Saves /\ save.step = "idle"
  BY DEF StockForm!Init, StockForm!Idle, Saves
<1>3. /\ listed = row /\ selected = NoStock /\ wanted = row.threshold /\ applied = 0
      /\ delta = FALSE
  BY DEF StockForm!Init
<1>4. listed.version <= row.version
  BY <1>1, <1>3
<1>5. delta \in BOOLEAN
  BY <1>3
<1>6. applied \in {0, 1} /\ applied # 1
  BY <1>3
<1> QED
  BY <1>1, <1>2, <1>3, <1>4, <1>5, <1>6 DEF StockFormInv

\* So does every input, save and answer.
LEMMA StockFormStepInv == ASSUME StockFormInv, StockForm!Next PROVE StockFormInv'
<1> USE DEF StockFormInv
<1>0. NoStock \notin Item
  BY PartsAssumption DEF StockForm!StockFormAssumption, Item
<1>a. \A i \in Item : i.version \in Nat /\ i.threshold \in Thresholds
  BY DEF Item
<1>b. StockForm!Idle \in Saves /\ StockForm!Idle.step = "idle"
  BY DEF StockForm!Idle, Saves
<1>1. CASE StockForm!load
  BY <1>a, <1>1 DEF StockForm!load
<1>2. CASE StockForm!open
  <2>1. save' \in Saves /\ save'.step = save.step /\ save'.current = save.current
        /\ save'.threshold = save.threshold /\ ~save'.mine
    BY <1>2 DEF StockForm!open, Saves
  <2>2. /\ selected' = listed /\ delta' = FALSE /\ wanted' = listed.threshold /\ applied' = 0
        /\ row' = row /\ listed' = listed
    BY <1>2 DEF StockForm!open, StockForm!Shows
  <2>3. delta' \in BOOLEAN
    BY <2>2
  <2>4. applied' \in {0, 1} /\ applied' # 1 /\ wanted' \in Thresholds
    BY <1>a, <2>2
  <2> QED
    BY <2>1, <2>2, <2>3, <2>4
<1>3. ASSUME NEW entered \in BOOLEAN, NEW threshold \in Thresholds, StockForm!Edit(entered, threshold)
      PROVE  StockFormInv'
  BY <1>3 DEF StockForm!Edit
<1>4. CASE StockForm!submit
  <2>1. selected \in Item
    BY <1>4 DEF StockForm!submit
  <2>2. save' \in Saves /\ save'.current = selected /\ save'.threshold = wanted
    BY <1>4, <2>1 DEF StockForm!submit, Saves
  <2> QED
    BY <1>4, <2>1, <2>2 DEF StockForm!submit
<1>5. ASSUME NEW step \in {"adjust", "threshold"}, NEW threshold \in Thresholds,
             NEW next \in {"adjusted", "written"},
             StockForm!Written(step, threshold, next)
      PROVE  /\ row' \in Item /\ row'.version = row.version + 1
             /\ save' \in Saves /\ save'.step = next /\ save'.current = row'
             /\ save'.threshold = save.threshold /\ save'.mine = save.mine
             /\ save.current.version = row.version
             /\ UNCHANGED <<listed, selected, delta, wanted>>
  <2>1. row' \in Item /\ row'.version = row.version + 1
    BY <1>5, <1>a DEF StockForm!Written, Item
  <2>2. save' \in Saves /\ save'.step = next /\ save'.current = row'
        /\ save'.threshold = save.threshold /\ save'.mine = save.mine
    BY <1>5, <2>1 DEF StockForm!Written, Saves
  <2> QED
    BY <1>5, <2>1, <2>2 DEF StockForm!Written, StockForm!expectedVersion
<1>6. CASE StockForm!adjust
  <2>1. row.threshold \in Thresholds /\ StockForm!Written("adjust", row.threshold, "adjusted")
    BY <1>a, <1>6 DEF StockForm!adjust
  <2>2. /\ row' \in Item /\ row'.version = row.version + 1
        /\ save' \in Saves /\ save'.step = "adjusted" /\ save'.current = row'
        /\ save'.threshold = save.threshold /\ save'.mine = save.mine
        /\ save.current.version = row.version
        /\ UNCHANGED <<listed, selected, delta, wanted>>
    BY <1>5, <2>1
  <2>3. save.step = "adjust"
    BY <1>6 DEF StockForm!adjust, StockForm!Written
  <2>4. applied' \in {0, 1} /\ (applied' = 1 => selected' # NoStock /\ selected'.version < row'.version)
    BY <1>0, <1>a, <1>6, <2>2, <2>3 DEF StockForm!adjust
  <2> QED
    BY <1>a, <2>2, <2>3, <2>4
<1>7. CASE StockForm!setLowStockThreshold
  <2>1. save.step = "threshold" /\ save.threshold \in Thresholds
        /\ StockForm!Written("threshold", save.threshold, "written") /\ applied' = applied
    BY <1>7 DEF StockForm!setLowStockThreshold, StockForm!Written
  <2>2. /\ row' \in Item /\ row'.version = row.version + 1
        /\ save' \in Saves /\ save'.step = "written" /\ save'.current = row'
        /\ save'.threshold = save.threshold /\ save'.mine = save.mine
        /\ save.current.version = row.version
        /\ UNCHANGED <<listed, selected, delta, wanted>>
    BY <1>5, <2>1
  <2> QED
    BY <1>a, <2>1, <2>2
<1>8. CASE StockForm!Adjusted
  <2>1. save' \in Saves /\ save'.current = save.current /\ save'.threshold = save.threshold
        /\ save'.step \in {"threshold", "written"}
    BY <1>8 DEF StockForm!Adjusted, Saves
  <2> QED
    BY <1>8, <2>1 DEF StockForm!Adjusted
<1>9. CASE StockForm!Saved
  <2>1. save' = StockForm!Idle /\ selected' = save.current /\ save.current \in Item
        /\ wanted' = save.current.threshold /\ applied' = 0 /\ delta' = FALSE
        /\ listed' \in {listed, row} /\ row' = row
    BY <1>9 DEF StockForm!Saved, StockForm!Shows
  <2>2. delta' \in BOOLEAN
    BY <2>1
  <2>3. applied' \in {0, 1} /\ applied' # 1 /\ wanted' \in Thresholds
    BY <1>a, <2>1
  <2>4. listed' \in Item /\ listed'.version <= row'.version /\ selected'.version <= row'.version
    BY <1>a, <1>9, <2>1 DEF StockForm!Saved
  <2> QED
    BY <1>b, <2>1, <2>2, <2>3, <2>4
<1>10. CASE StockForm!Fails
  BY <1>b, <1>10 DEF StockForm!Fails, StockForm!busy
<1>11. CASE StockForm!Others
  <2>1. row' \in Item /\ row'.version = row.version + 1
    BY <1>a, <1>11 DEF StockForm!Others, Item
  <2> QED
    BY <1>a, <1>11, <2>1 DEF StockForm!Others
<1> QED
  BY <1>1, <1>2, <1>3, <1>4, <1>6, <1>7, <1>8, <1>9, <1>10, <1>11 DEF StockForm!Next

-----------------------------------------------------------------------------
(* CheckoutPage: as long as nothing raced, what is shown or asked for fits *)
(* the form, which takes no input then.                                    *)
Fits(q) == q = [address |-> form, coupon |-> IF skip THEN NoCoupon ELSE coupon]

CheckoutPageInv == ~raced =>
    /\ quote # CheckoutPage!NoQuote \/ waiting.at \in {"coupons", "quote"} => ~manual
    /\ waiting.at = "quote" => Fits(waiting.asked)
    /\ quote # CheckoutPage!NoQuote /\ waiting.at \in {"none", "order"} => Fits(quote)

\* The page that opens keeps its invariant.
LEMMA CheckoutPageInitInv == CheckoutPage!Init => CheckoutPageInv
BY DEF CheckoutPage!Init, CheckoutPageInv

\* So does every input and every answer.
LEMMA CheckoutPageStepInv == ASSUME CheckoutPageInv, CheckoutPage!Next PROVE CheckoutPageInv'
<1> USE DEF CheckoutPageInv, CheckoutPage!form, CheckoutPage!picked, CheckoutPage!Previewing, CheckoutPage!Changes,
            CheckoutPage!Shows, CheckoutPage!applyAddress, CheckoutPage!Waits, CheckoutPage!Rests
<1>1. ASSUME NEW text \in Texts, CheckoutPage!Types(text) \/ CheckoutPage!Chooses(text) PROVE CheckoutPageInv'
  BY <1>1 DEF CheckoutPage!Types, CheckoutPage!Chooses, Fits
<1>2. ASSUME CheckoutPage!useNewAddress \/ \E c \in Coupons \cup {NoCoupon} : CheckoutPage!Picks(c) PROVE CheckoutPageInv'
  BY <1>2 DEF CheckoutPage!useNewAddress, CheckoutPage!Picks, Fits
<1>3. CASE CheckoutPage!Loaded
  BY <1>3 DEF CheckoutPage!Loaded, Fits
<1>4. CASE CheckoutPage!preview
  BY <1>4 DEF CheckoutPage!preview, Fits
<1>5. CASE CheckoutPage!AddressCreated
  BY <1>5 DEF CheckoutPage!AddressCreated, Fits
<1>6. CASE CheckoutPage!CouponsAnswered
  BY <1>6 DEF CheckoutPage!CouponsAnswered, CheckoutPage!Selected, Fits
<1>7. CASE CheckoutPage!QuoteAnswered
  BY <1>7 DEF CheckoutPage!QuoteAnswered, Fits
<1>8. CASE CheckoutPage!PreviewFails
  BY <1>8 DEF CheckoutPage!PreviewFails, Fits
<1>9. CASE CheckoutPage!submit
  BY <1>9 DEF CheckoutPage!submit, Fits
<1>10. CASE CheckoutPage!SubmitFails
  BY <1>10 DEF CheckoutPage!SubmitFails, Fits
<1> QED
  BY <1>1, <1>2, <1>3, <1>4, <1>5, <1>6, <1>7, <1>8, <1>9, <1>10 DEF CheckoutPage!Next

\* The invariant of the page says that the quote fits the screen.
LEMMA CheckoutPageInvSuffices == CheckoutPageInv => QuoteFitsScreen
BY DEF CheckoutPageInv, QuoteFitsScreen, CheckoutPage!QuoteFitsScreen, Fits
-----------------------------------------------------------------------------
(* CartPage: unless answers were swapped, the page shows what it changed,  *)
(* or an error, or a request is still to bring a cart that has it.         *)
Brings(r) ==
    fetch[r] # CartPage!Free /\ (fetch[r].answer = CartPage!NoCart \/ fetch[r].answer >= mine)
Carts == Nat \cup {CartPage!NoCart}
Fetched == [op : {"free", "refresh", "change", "merge"}, made : BOOLEAN, answer : Carts]
KnowsTheCart(f, current) ==
    /\ f.op = "free" => f = CartPage!Free
    /\ f.answer <= current
    /\ f.op \in {"change", "merge"} /\ ~f.made => f.answer = CartPage!NoCart

CartPageInv ==
    /\ storedCart \in Nat /\ mine \in 0..storedCart
    /\ fetch \in [Calls -> Fetched]
    /\ \A r \in Calls : KnowsTheCart(fetch[r], storedCart)
    /\ cart \in Carts /\ cart <= storedCart
    /\ ~swapped =>
         \/ cart >= mine
         \/ lastError
         \/ cart = CartPage!NoCart /\ CartPage!UnderWay = {}
         \/ \E r \in Calls : Brings(r)

\* The page that opens keeps its invariant.
LEMMA CartPageInitInv == CartPage!Init => CartPageInv
<1> SUFFICES ASSUME CartPage!Init PROVE CartPageInv
  OBVIOUS
<1>1. /\ CartPage!NoCart \in Carts /\ CartPage!NoCart <= 0 /\ storedCart = 0 /\ mine = 0
      /\ cart = CartPage!NoCart
  BY DEF CartPage!Init, CartPage!NoCart, Carts
<1>2. CartPage!Free \in Fetched /\ KnowsTheCart(CartPage!Free, 0)
  BY <1>1 DEF CartPage!Free, Fetched, KnowsTheCart
<1>3. fetch = [r \in Calls |-> CartPage!Free]
  BY DEF CartPage!Init
<1>4. CartPage!UnderWay = {}
  BY <1>3 DEF CartPage!UnderWay
<1> QED
  BY <1>1, <1>2, <1>3, <1>4 DEF CartPageInv

\* So does every request and every answer.
LEMMA CartPageStepInv == ASSUME CartPageInv, CartPage!Next PROVE CartPageInv'
<1> DEFINE none == CartPage!NoCart
<1>n. none \in Carts /\ none \in Int /\ none <= 0 /\ none \notin Nat
  BY DEF CartPage!NoCart, Carts
<1>f. /\ CartPage!Free \in Fetched /\ CartPage!Free.op = "free" /\ CartPage!Free.answer = none
      /\ CartPage!Free.made = FALSE
  BY <1>n DEF CartPage!Free, Fetched
<1>c. \A c \in Carts : c \in Int
  BY <1>n DEF Carts
<1>t. storedCart \in Nat /\ mine \in 0..storedCart /\ fetch \in [Calls -> Fetched] /\ cart \in Carts /\ cart <= storedCart
  BY DEF CartPageInv
<1>k. \A r \in Calls : KnowsTheCart(fetch[r], storedCart)
  BY DEF CartPageInv
<1>p. ~swapped =>
         \/ cart >= mine
         \/ lastError
         \/ cart = none /\ CartPage!UnderWay = {}
         \/ \E r \in Calls : Brings(r)
  BY DEF CartPageInv
<1>w. \A r \in Calls : fetch[r] \in Fetched /\ fetch[r].answer \in Carts
  BY <1>t DEF Fetched
<1> HIDE DEF none
<1>1. ASSUME NEW r \in Calls, NEW op \in {"refresh", "change", "merge"}, CartPage!Sends(r, op) PROVE CartPageInv'
  <2> DEFINE new == [CartPage!Free EXCEPT !.op = op]
  <2>1. new \in Fetched /\ new.op = op /\ new.answer = none /\ new.made = FALSE
    BY <1>f DEF Fetched
  <2>3. fetch' = [fetch EXCEPT ![r] = new] /\ UNCHANGED <<storedCart, cart, mine, swapped>>
    BY <1>1 DEF CartPage!Sends
  <2> HIDE DEF new
  <2>7. none <= storedCart
    BY <1>n, <1>t
  <2>8. new # CartPage!Free
    BY <1>f, <2>1
  <2>2. new # CartPage!Free /\ KnowsTheCart(new, storedCart)
    BY <2>1, <2>7, <2>8 DEF KnowsTheCart, none
  <2>4. fetch' \in [Calls -> Fetched] /\ fetch'[r] = new
    BY <1>t, <2>1, <2>3
  <2>5. \A q \in Calls : KnowsTheCart(fetch'[q], storedCart')
    BY <1>t, <1>k, <2>2, <2>3
  <2>6. Brings(r)'
    BY <2>1, <2>2, <2>4 DEF Brings, none, CartPage!NoCart, CartPage!Free
  <2> QED
    BY <1>t, <2>3, <2>4, <2>5, <2>6 DEF CartPageInv
<1>2. ASSUME NEW r \in Calls, CartPage!Change(r) PROVE CartPageInv'
  <2> DEFINE new == [fetch[r] EXCEPT !.made = TRUE]
  <2>0. fetch[r].op \in {"change", "merge"} /\ ~fetch[r].made /\ fetch[r].answer = none
    BY <1>2, <1>k DEF CartPage!Change, KnowsTheCart, none
  <2>1. new \in Fetched /\ new.op = fetch[r].op /\ new.answer = none
    BY <1>w, <2>0 DEF Fetched
  <2>2. new # CartPage!Free /\ new.made
    BY <1>f, <1>w, <2>0 DEF Fetched
  <2>3. /\ fetch' = [fetch EXCEPT ![r] = new] /\ UNCHANGED <<cart, swapped>>
        /\ storedCart' = storedCart + 1 /\ mine' = storedCart'
    BY <1>2 DEF CartPage!Change
  <2>7. KnowsTheCart(new, storedCart')
    BY <1>n, <1>t, <2>0, <2>1, <2>2, <2>3 DEF KnowsTheCart
  <2> HIDE DEF new
  <2>4. fetch' \in [Calls -> Fetched] /\ fetch'[r] = new
    BY <1>t, <2>1, <2>3
  <2>5. \A q \in Calls : KnowsTheCart(fetch'[q], storedCart')
    <3> SUFFICES ASSUME NEW q \in Calls PROVE KnowsTheCart(fetch'[q], storedCart')
      OBVIOUS
    <3>1. CASE q = r
      BY <2>4, <2>7, <3>1
    <3>2. CASE q # r
      <4>1. fetch'[q] = fetch[q] /\ fetch[q].answer \in Int /\ fetch[q].answer <= storedCart
        BY <1>t, <1>c, <1>w, <1>k, <2>3, <3>2 DEF KnowsTheCart
      <4>2. fetch[q].answer <= storedCart'
        BY <1>t, <2>3, <4>1
      <4> QED
        BY <1>k, <4>1, <4>2 DEF KnowsTheCart
    <3> QED
      BY <3>1, <3>2
  <2>6. Brings(r)'
    BY <2>1, <2>2, <2>4 DEF Brings, none, CartPage!NoCart, CartPage!Free
  <2>8. storedCart' \in Nat /\ mine' \in 0..storedCart' /\ cart' <= storedCart' /\ cart' \in Carts
    BY <1>t, <1>c, <2>3
  <2> QED
    BY <2>3, <2>4, <2>5, <2>6, <2>8 DEF CartPageInv
<1>3. ASSUME NEW r \in Calls, CartPage!loadView(r) PROVE CartPageInv'
  <2> DEFINE new == [fetch[r] EXCEPT !.answer = storedCart]
  <2>0. (fetch[r].op = "refresh" \/ fetch[r].made) /\ fetch[r].op # "free"
    BY <1>3, <1>f, <1>k DEF CartPage!loadView, KnowsTheCart
  <2>1. new \in Fetched /\ new.op = fetch[r].op /\ new.answer = storedCart /\ new.made = fetch[r].made
    BY <1>w, <1>t, <2>0 DEF Fetched, Carts
  <2>3. fetch' = [fetch EXCEPT ![r] = new] /\ UNCHANGED <<storedCart, cart, lastError, mine, swapped>>
    BY <1>3 DEF CartPage!loadView
  <2> HIDE DEF new
  <2>7. storedCart <= storedCart /\ (fetch[r].op \in {"change", "merge"} => fetch[r].made)
    BY <1>t, <2>0
  <2>2. new # CartPage!Free /\ KnowsTheCart(new, storedCart)
    BY <1>f, <2>0, <2>1, <2>7 DEF KnowsTheCart
  <2>4. fetch' \in [Calls -> Fetched] /\ fetch'[r] = new
    BY <1>t, <2>1, <2>3
  <2>5. \A q \in Calls : KnowsTheCart(fetch'[q], storedCart')
    BY <1>t, <1>k, <2>2, <2>3
  <2>6. Brings(r)'
    BY <1>t, <2>1, <2>2, <2>3, <2>4 DEF Brings, CartPage!NoCart, CartPage!Free
  <2> QED
    BY <1>t, <2>3, <2>4, <2>5, <2>6 DEF CartPageInv
<1>4. ASSUME NEW r \in Calls, CartPage!Answer(r) PROVE CartPageInv'
  <2>1. /\ fetch[r].answer # none /\ fetch[r] # CartPage!Free
        /\ cart' = fetch[r].answer
        /\ swapped' = (swapped \/ fetch[r].answer < cart)
        /\ fetch' = [fetch EXCEPT ![r] = CartPage!Free]
        /\ UNCHANGED <<storedCart, lastError, mine>>
    BY <1>4 DEF CartPage!Answer, CartPage!UnderWay, none
  <2>2. cart' \in Nat /\ cart' <= storedCart'
    BY <1>k, <1>w, <2>1 DEF Carts, none, KnowsTheCart
  <2>3. fetch' \in [Calls -> Fetched]
    BY <1>t, <1>f, <2>1
  <2>4. \A q \in Calls : KnowsTheCart(fetch'[q], storedCart')
    <3>1. KnowsTheCart(CartPage!Free, storedCart)
      BY <1>f, <1>n, <1>t DEF KnowsTheCart
    <3> QED
      BY <1>t, <1>k, <2>1, <3>1
  <2>5. ASSUME ~swapped' PROVE (cart' >= mine' \/ lastError' \/ \E q \in Calls : Brings(q)')
    <3>1. ~swapped /\ ~(cart' < cart)
      BY <2>1, <2>5
    <3>2. CASE cart >= mine
      BY <1>t, <1>c, <2>1, <2>2, <3>1, <3>2
    <3>3. CASE lastError
      BY <2>1, <3>3
    <3>4. CASE cart = none /\ CartPage!UnderWay = {}
      BY <2>1, <3>4 DEF CartPage!UnderWay
    <3>5. ASSUME NEW q \in Calls, Brings(q) PROVE cart' >= mine' \/ \E s \in Calls : Brings(s)'
      <4>1. CASE q = r
        BY <2>1, <3>5, <4>1 DEF Brings, none
      <4>2. CASE q # r
        <5>1. fetch'[q] = fetch[q]
          BY <1>t, <2>1, <4>2
        <5>2. Brings(q)'
          BY <2>1, <3>5, <5>1 DEF Brings, CartPage!NoCart, CartPage!Free
        <5> QED
          BY <5>2
      <4> QED
        BY <4>1, <4>2
    <3> QED
      BY <1>p, <3>1, <3>2, <3>3, <3>4, <3>5
  <2> QED
    BY <1>t, <2>1, <2>2, <2>3, <2>4, <2>5 DEF CartPageInv, Carts
<1>5. ASSUME NEW r \in Calls, CartPage!Fail(r) PROVE CartPageInv'
  <2> DEFINE again == fetch[r].op = "merge"
             reload == [CartPage!Free EXCEPT !.op = "refresh"]
             new == IF again THEN reload ELSE CartPage!Free
  <2>1. reload \in Fetched /\ reload.op = "refresh" /\ reload.answer = none /\ reload.made = FALSE
    BY <1>f DEF Fetched
  <2>2. /\ fetch[r] # CartPage!Free
        /\ fetch' = [fetch EXCEPT ![r] = new]
        /\ lastError' = ~again
        /\ UNCHANGED <<storedCart, cart, mine, swapped>>
    BY <1>5 DEF CartPage!Fail, CartPage!UnderWay
  <2> HIDE DEF reload
  <2>3. new \in Fetched /\ new.answer = none /\ KnowsTheCart(new, storedCart)
    BY <1>f, <1>n, <1>t, <2>1 DEF KnowsTheCart
  <2>4. again => new.op = "refresh"
    BY <2>1
  <2> HIDE DEF new
  <2>5. fetch' \in [Calls -> Fetched] /\ fetch'[r] = new
    BY <1>t, <2>2, <2>3
  <2>6. \A q \in Calls : KnowsTheCart(fetch'[q], storedCart')
    BY <1>t, <1>k, <2>2, <2>3
  <2>7. lastError' \/ Brings(r)'
    <3>1. CASE again
      <4>1. fetch'[r] # CartPage!Free /\ fetch'[r].answer = none
        BY <1>f, <2>3, <2>4, <2>5, <3>1
      <4> QED
        BY <4>1 DEF Brings, none, CartPage!NoCart, CartPage!Free
    <3>2. CASE ~again
      BY <2>2, <3>2
    <3> QED
      BY <3>1, <3>2
  <2> QED
    BY <1>t, <2>2, <2>5, <2>6, <2>7 DEF CartPageInv
<1>6. ASSUME CartPage!ChangedElsewhere PROVE CartPageInv'
  <2>1. UNCHANGED <<cart, lastError, fetch, mine, swapped>> /\ storedCart' = storedCart + 1
    BY <1>6 DEF CartPage!ChangedElsewhere
  <2>2. storedCart' \in Nat /\ mine' \in 0..storedCart' /\ cart' <= storedCart'
    BY <1>t, <1>c, <2>1
  <2>3. \A q \in Calls : KnowsTheCart(fetch'[q], storedCart')
    <3> SUFFICES ASSUME NEW q \in Calls PROVE KnowsTheCart(fetch'[q], storedCart')
      OBVIOUS
    <3>1. fetch[q].answer \in Int /\ fetch[q].answer <= storedCart
      BY <1>c, <1>w, <1>k DEF KnowsTheCart
    <3>2. fetch[q].answer <= storedCart'
      BY <1>t, <2>1, <3>1
    <3> QED
      BY <1>k, <2>1, <3>2 DEF KnowsTheCart
  <2>4. CartPage!UnderWay' = CartPage!UnderWay /\ \A q \in Calls : Brings(q)' <=> Brings(q)
    BY <2>1 DEF CartPage!UnderWay, Brings
  <2> QED
    BY <1>t, <1>p, <2>1, <2>2, <2>3, <2>4 DEF CartPageInv, none
<1> QED
  BY <1>1, <1>2, <1>3, <1>4, <1>5, <1>6 DEF CartPage!Next

\* The invariant of the page says that it shows what it changed.
LEMMA CartPageInvSuffices == CartPageInv => CartPage!ShowsOwnChanges
<1> SUFFICES ASSUME CartPageInv, CartPage!UnderWay = {}, ~swapped, CartPage!Screen = "content"
             PROVE  cart >= mine
  BY DEF CartPage!ShowsOwnChanges
<1>1. ~lastError /\ cart # CartPage!NoCart
  BY DEF CartPage!Screen
<1>2. \A r \in Calls : ~Brings(r)
  BY DEF CartPage!UnderWay, Brings
<1> QED
  BY <1>1, <1>2 DEF CartPageInv

-----------------------------------------------------------------------------
(* PaymentPage: what is answered later has changed at least as often, and  *)
(* an end of the payment is followed by ends only; so the page that goes   *)
(* by answers in their order keeps an end.                                 *)
Payments == [status : PaymentPage!PaymentStatus \cup {"NONE"}, moves : Nat]
Polled == [op : {"free", "start", "get", "simulate"},
           at : {"none", "asked", "started", "answered", "syncing"}, answer : Payments]
Ended(p) == p.status \in {"SUCCEEDED", "CANCELLED", "REFUNDED"}
Follows(p, q) == p.moves <= q.moves /\ Ended(p) => Ended(q)
Told(r) == poll[r].at \in {"answered", "syncing", "started"}

PaymentPageInv ==
    /\ intent \in Payments /\ payment \in Payments
    /\ payment.moves <= intent.moves /\ Follows(payment, intent)
    /\ poll \in [Addresses -> Polled]
    /\ \A r \in Addresses : Told(r) =>
         /\ poll[r].answer.moves <= intent.moves
         /\ Follows(poll[r].answer, intent) /\ Follows(intent, poll[r].answer)
         /\ Follows(payment, poll[r].answer)
         /\ \A q \in Addresses : Told(q) => Follows(poll[r].answer, poll[q].answer)
    /\ timer = "cleared" /\ ~overtaken => Ended(payment)
    /\ payment.status = "SUCCEEDED" => cartSynced \/ \E r \in Addresses : poll[r].at = "syncing"

\* What a payment and a request of the page are made of.
LEMMA PaymentPageTypes ==
    /\ PaymentPage!NoPayment \in Payments /\ PaymentPage!NoPayment.moves = 0
    /\ PaymentPage!NoPayment.status = "NONE" /\ ~Ended(PaymentPage!NoPayment)
    /\ PaymentPage!Free \in Polled /\ PaymentPage!Free.at = "none"
    /\ \A p \in Payments : p.moves \in Nat
    /\ \A f \in Polled : f.answer \in Payments
BY DEF PaymentPage!NoPayment, PaymentPage!Free, Payments, Polled, Ended

\* The page that opens keeps its invariant.
LEMMA PaymentPageInitInv == PaymentPage!Init => PaymentPageInv
<1> SUFFICES ASSUME PaymentPage!Init PROVE PaymentPageInv
  OBVIOUS
<1>1. intent \in Payments /\ intent.moves = 0
  BY DEF PaymentPage!Init, Payments
<1>2. payment = PaymentPage!NoPayment /\ timer = "none"
  BY DEF PaymentPage!Init
<1>3. PICK r \in Addresses : poll = [q \in Addresses |->
         IF q = r THEN [PaymentPage!Free EXCEPT !.op = "start", !.at = "asked"] ELSE PaymentPage!Free]
  BY DEF PaymentPage!Init
<1>4. [PaymentPage!Free EXCEPT !.op = "start", !.at = "asked"] \in Polled
      /\ [PaymentPage!Free EXCEPT !.op = "start", !.at = "asked"].at = "asked"
  BY PaymentPageTypes DEF Polled
<1>5. poll \in [Addresses -> Polled] /\ \A q \in Addresses : poll[q].at \in {"none", "asked"}
  BY <1>3, <1>4, PaymentPageTypes
<1>6. \A q \in Addresses : ~Told(q)
  BY <1>5 DEF Told
<1>7. payment \in Payments /\ payment.moves <= intent.moves /\ Follows(payment, intent)
      /\ payment.status # "SUCCEEDED"
  BY <1>1, <1>2, PaymentPageTypes DEF Follows
<1> QED
  BY <1>1, <1>2, <1>5, <1>6, <1>7 DEF PaymentPageInv

\* The payment changes, or not, and an end is followed by an end.
Grows == /\ intent' \in Payments
         /\ intent' = intent \/ intent'.moves = intent.moves + 1
         /\ Ended(intent) => Ended(intent')

\* What was answered before the payment changed is still older than the payment.
LEMMA PaymentGrows ==
    ASSUME PaymentPageInv, Grows
    PROVE  /\ payment.moves <= intent'.moves /\ Follows(payment, intent')
           /\ \A r \in Addresses : Told(r) =>
                /\ poll[r].answer.moves <= intent'.moves
                /\ Follows(poll[r].answer, intent') /\ Follows(intent', poll[r].answer)
<1>1. intent \in Payments /\ intent' \in Payments /\ payment \in Payments
      /\ intent.moves \in Nat /\ intent'.moves \in Nat /\ payment.moves \in Nat
  BY PaymentPageTypes DEF PaymentPageInv, Grows
<1>2. intent.moves <= intent'.moves
  BY <1>1 DEF Grows
<1>3. payment.moves <= intent'.moves /\ Follows(payment, intent')
  BY <1>1, <1>2 DEF PaymentPageInv, Grows, Follows
<1>4. ASSUME NEW r \in Addresses, Told(r)
      PROVE  /\ poll[r].answer.moves <= intent'.moves
             /\ Follows(poll[r].answer, intent') /\ Follows(intent', poll[r].answer)
  <2>1. poll[r].answer.moves \in Nat /\ poll[r].answer.moves <= intent.moves
        /\ Follows(poll[r].answer, intent) /\ Follows(intent, poll[r].answer)
    BY <1>4, PaymentPageTypes DEF PaymentPageInv
  <2>2. poll[r].answer.moves <= intent'.moves /\ Follows(poll[r].answer, intent')
    BY <1>1, <1>2, <2>1 DEF Follows, Grows
  <2>3. Follows(intent', poll[r].answer)
    BY <1>1, <2>1 DEF Follows, Grows
  <2> QED
    BY <2>1, <2>2, <2>3
<1> QED
  BY <1>3, <1>4

\* A request is answered with the payment as it is by now.
LEMMA PaymentAnswered ==
    ASSUME PaymentPageInv, Grows, NEW r \in Addresses, NEW at \in {"started", "answered"},
           poll[r].at \in {"asked", "started"},
           PaymentPage!Answers(r, at), UNCHANGED PaymentPage!page
    PROVE  PaymentPageInv'
<1> DEFINE new == [poll[r] EXCEPT !.at = at, !.answer = intent']
<1>1. poll[r] \in Polled /\ intent' \in Payments /\ poll \in [Addresses -> Polled]
  BY DEF PaymentPageInv, Grows
<1>2. new \in Polled /\ new.at = at /\ new.answer = intent'
  BY <1>1 DEF Polled
<1>3. poll' = [poll EXCEPT ![r] = new]
  BY DEF PaymentPage!Answers
<1>4. UNCHANGED <<payment, timer, busy, cartSynced, overtaken>>
  BY DEF PaymentPage!page
<1> HIDE DEF new
<1>5. poll' \in [Addresses -> Polled] /\ poll'[r] = new
      /\ \A q \in Addresses : q # r => poll'[q] = poll[q]
  BY <1>1, <1>2, <1>3
<1>6. \A q \in Addresses : Told(q)' => q = r \/ Told(q)
  BY <1>5 DEF Told
<1>7. \A q \in Addresses : poll[q].at = "syncing" => poll'[q].at = "syncing"
  BY <1>5
<1>8. intent'.moves \in Nat /\ Follows(intent', intent')
  BY <1>1, PaymentPageTypes DEF Follows
<1>9. ASSUME NEW q \in Addresses, Told(q)'
      PROVE  /\ poll'[q].answer.moves <= intent'.moves
             /\ Follows(poll'[q].answer, intent') /\ Follows(intent', poll'[q].answer)
             /\ Follows(payment, poll'[q].answer)
             /\ \A s \in Addresses : Told(s)' => Follows(poll'[q].answer, poll'[s].answer)
  <2>1. CASE q = r
    <3>1. poll'[q].answer = intent'
      BY <1>2, <1>5, <2>1
    <3>2. \A s \in Addresses : Told(s)' => Follows(intent', poll'[s].answer)
      BY <1>2, <1>5, <1>6, <1>8, PaymentGrows
    <3> QED
      BY <1>8, <3>1, <3>2, PaymentGrows
  <2>2. CASE q # r
    <3>1. poll'[q] = poll[q] /\ Told(q)
      BY <1>5, <1>6, <1>9, <2>2
    <3>2. \A s \in Addresses : Told(s)' => Follows(poll[q].answer, poll'[s].answer)
      BY <1>2, <1>5, <1>6, <3>1, PaymentGrows DEF PaymentPageInv
    <3> QED
      BY <3>1, <3>2, PaymentGrows DEF PaymentPageInv
  <2> QED
    BY <2>1, <2>2
<1>10. \A q \in Addresses : Told(q)' =>
         /\ poll'[q].answer.moves <= intent'.moves
         /\ Follows(poll'[q].answer, intent') /\ Follows(intent', poll'[q].answer)
         /\ Follows(payment', poll'[q].answer)
         /\ \A s \in Addresses : Told(s)' => Follows(poll'[q].answer, poll'[s].answer)
  BY <1>4, <1>9
<1>11. payment' \in Payments /\ payment'.moves <= intent'.moves /\ Follows(payment', intent')
  BY <1>4, PaymentGrows DEF PaymentPageInv
<1>12. /\ timer' = "cleared" /\ ~overtaken' => Ended(payment')
       /\ payment'.status = "SUCCEEDED" => cartSynced' \/ \E q \in Addresses : poll'[q].at = "syncing"
  BY <1>4, <1>7 DEF PaymentPageInv
<1> QED
  BY <1>1, <1>5, <1>10, <1>11, <1>12 DEF PaymentPageInv, Told

\* A request is sent or ends: it tells nothing any more, and the others stay.
LEMMA PaymentUntold ==
    ASSUME PaymentPageInv, NEW r \in Addresses, NEW new \in Polled,
           new.at \in {"none", "asked"}, poll' = [poll EXCEPT ![r] = new], intent' = intent
    PROVE  /\ poll' \in [Addresses -> Polled]
           /\ \A q \in Addresses : Told(q)' => Told(q) /\ poll'[q] = poll[q]
           /\ \A q \in Addresses : q # r => poll'[q] = poll[q]
<1>1. poll' \in [Addresses -> Polled] /\ poll'[r] = new
      /\ \A q \in Addresses : q # r => poll'[q] = poll[q]
  BY DEF PaymentPageInv
<1> QED
  BY <1>1 DEF Told

\* Every change of the payment, request, answer and tick keeps the invariant.
LEMMA PaymentPageStepInv == ASSUME PaymentPageInv, PaymentPage!Next PROVE PaymentPageInv'
<1> USE DEF PaymentPage!page
<1>t. /\ intent \in Payments /\ payment \in Payments /\ poll \in [Addresses -> Polled]
      /\ PaymentPage!Free \in Polled /\ PaymentPage!Free.at = "none"
      /\ \A p \in Payments : p.moves \in Nat
  BY PaymentPageTypes DEF PaymentPageInv
<1>1. CASE PaymentPage!Others
  <2>1. PICK status \in {"SUCCEEDED", "FAILED", "CANCELLED", "REFUNDED"} :
          /\ status \in {"SUCCEEDED", "FAILED"} => PaymentPage!canApplyPaymentEvent(intent.status, status)
          /\ PaymentPage!Becomes(status)
    BY <1>1 DEF PaymentPage!Others
  <2>2. Ended(intent) => status # "FAILED"
    BY <2>1 DEF Ended, PaymentPage!canApplyPaymentEvent
  <2>3. Grows
    BY <1>t, <2>1, <2>2 DEF Grows, Payments, Ended, PaymentPage!Becomes, PaymentPage!PaymentStatus
  <2>4. UNCHANGED <<poll, payment, timer, busy, cartSynced, overtaken>>
    BY <1>1 DEF PaymentPage!Others
  <2> QED
    BY <2>3, <2>4, PaymentGrows DEF PaymentPageInv, Grows, Told
<1>2. CASE PaymentPage!Unmount
  BY <1>2 DEF PaymentPage!Unmount, PaymentPageInv, Told
<1>3. ASSUME NEW r \in Addresses, PaymentPage!get(r) PROVE PaymentPageInv'
  BY <1>t, <1>3, PaymentAnswered DEF PaymentPage!get, Grows
<1>4. ASSUME NEW r \in Addresses, PaymentPage!start(r) PROVE PaymentPageInv'
  <2>1. Grows
    BY <1>t, <1>4 DEF PaymentPage!start, Grows, Payments, Ended, PaymentPage!Becomes, PaymentPage!PaymentStatus
  <2>2. PaymentPage!Answers(r, IF poll[r].op = "start" THEN "answered" ELSE "started")
        /\ poll[r].at = "asked" /\ UNCHANGED PaymentPage!page
    BY <1>4 DEF PaymentPage!start
  <2> QED
    BY <2>1, <2>2, PaymentAnswered
<1>5. ASSUME NEW r \in Addresses, NEW result \in PaymentPage!Results, PaymentPage!simulate(r, result)
      PROVE  PaymentPageInv'
  <2>1. Grows
    BY <1>t, <1>5 DEF PaymentPage!simulate, PaymentPage!Results, Grows, Payments, Ended,
       PaymentPage!canApplyPaymentEvent, PaymentPage!Becomes, PaymentPage!PaymentStatus
  <2> QED
    BY <1>5, <2>1, PaymentAnswered DEF PaymentPage!simulate
<1>6. ASSUME NEW r \in Addresses, NEW stop \in BOOLEAN, PaymentPage!Ends(r, stop), intent' = intent
      PROVE  /\ poll' \in [Addresses -> Polled]
             /\ \A q \in Addresses : Told(q)' => Told(q) /\ poll'[q] = poll[q]
             /\ \A q \in Addresses : q # r => poll'[q] = poll[q]
             /\ timer' = "cleared" => timer = "cleared" \/ stop
  <2>1. poll' = [poll EXCEPT ![r] = PaymentPage!Free]
    BY <1>6 DEF PaymentPage!Ends
  <2>2. timer' = "cleared" => timer = "cleared" \/ stop
    BY <1>6 DEF PaymentPage!Ends
  <2> QED
    BY <1>t, <1>6, <2>1, <2>2, PaymentUntold
<1>7. ASSUME NEW r \in Addresses, PaymentPage!Shows(r) PROVE PaymentPageInv'
  <2>1. /\ poll[r].at = "answered" /\ payment' = poll[r].answer
        /\ overtaken' = (overtaken \/ poll[r].answer.moves < payment.moves)
        /\ intent' = intent /\ cartSynced' = cartSynced
    BY <1>7 DEF PaymentPage!Shows
  <2>2. Told(r) /\ payment' \in Payments
    BY <1>t, <2>1, PaymentPageTypes DEF Told
  <2>3. payment'.moves <= intent'.moves /\ Follows(payment', intent')
        /\ Follows(payment, payment')
        /\ \A q \in Addresses : Told(q) => Follows(payment', poll[q].answer)
    BY <2>1, <2>2 DEF PaymentPageInv
  <2>4. ~overtaken' /\ Ended(payment) => Ended(payment')
    <3>1. payment.moves \in Nat /\ payment'.moves \in Nat
      BY <1>t, <2>2
    <3>2. ~overtaken' => ~(payment'.moves < payment.moves)
      BY <2>1
    <3>3. ~overtaken' => payment.moves <= payment'.moves
      BY <3>1, <3>2
    <3> QED
      BY <2>3, <3>3 DEF Follows
  <2>5. CASE payment'.status = "SUCCEEDED" /\ ~cartSynced
    <3> DEFINE new == [poll[r] EXCEPT !.at = "syncing"]
    <3>1. poll' = [poll EXCEPT ![r] = new] /\ timer' = timer
      BY <1>7, <2>5 DEF PaymentPage!Shows
    <3>2. new \in Polled /\ new.at = "syncing" /\ new.answer = poll[r].answer
      BY <1>t DEF Polled
    <3> HIDE DEF new
    <3>3. poll' \in [Addresses -> Polled] /\ poll'[r] = new
          /\ \A q \in Addresses : q # r => poll'[q] = poll[q]
      BY <1>t, <3>1, <3>2
    <3>4. \A q \in Addresses : Told(q)' => Told(q) /\ poll'[q].answer = poll[q].answer
      BY <2>2, <3>2, <3>3 DEF Told
    <3>5. Ended(payment')
      BY <2>5 DEF Ended
    <3>6. poll'[r].at = "syncing"
      BY <3>2, <3>3
    <3>7. \A q \in Addresses : Told(q)' =>
             /\ poll'[q].answer.moves <= intent'.moves
             /\ Follows(poll'[q].answer, intent') /\ Follows(intent', poll'[q].answer)
             /\ Follows(payment', poll'[q].answer)
             /\ \A s \in Addresses : Told(s)' => Follows(poll'[q].answer, poll'[s].answer)
      BY <2>1, <2>3, <3>4 DEF PaymentPageInv
    <3> QED
      BY <1>t, <2>1, <2>2, <2>3, <3>3, <3>5, <3>6, <3>7 DEF PaymentPageInv, Told
  <2>6. CASE ~(payment'.status = "SUCCEEDED" /\ ~cartSynced)
    <3>1. PaymentPage!Ends(r, PaymentPage!terminal')
      BY <1>7, <2>6 DEF PaymentPage!Shows
    <3>2. PaymentPage!terminal' \in BOOLEAN /\ (PaymentPage!terminal' <=> Ended(payment'))
      BY DEF PaymentPage!terminal, Ended
    <3>3. /\ poll' \in [Addresses -> Polled]
          /\ \A q \in Addresses : Told(q)' => Told(q) /\ poll'[q] = poll[q]
          /\ timer' = "cleared" => timer = "cleared" \/ PaymentPage!terminal'
      BY <1>6, <2>1, <3>1, <3>2
    <3>4. \A q \in Addresses : Told(q)' =>
             /\ poll'[q].answer.moves <= intent'.moves
             /\ Follows(poll'[q].answer, intent') /\ Follows(intent', poll'[q].answer)
             /\ Follows(payment', poll'[q].answer)
             /\ \A s \in Addresses : Told(s)' => Follows(poll'[q].answer, poll'[s].answer)
      BY <2>1, <2>3, <3>3 DEF PaymentPageInv
    <3>5. timer' = "cleared" /\ ~overtaken' => Ended(payment')
      BY <2>1, <2>4, <3>2, <3>3 DEF PaymentPageInv
    <3>6. payment'.status = "SUCCEEDED" => cartSynced'
      BY <2>1, <2>6
    <3> QED
      BY <1>t, <2>1, <2>2, <2>3, <3>3, <3>4, <3>5, <3>6 DEF PaymentPageInv, Told
  <2> QED
    BY <2>5, <2>6
<1>8. ASSUME NEW r \in Addresses, PaymentPage!syncPaidCart(r) PROVE PaymentPageInv'
  <2>1. /\ cartSynced' = TRUE /\ PaymentPage!Ends(r, PaymentPage!terminal)
        /\ UNCHANGED <<intent, payment, overtaken>>
    BY <1>8 DEF PaymentPage!syncPaidCart
  <2>2. PaymentPage!terminal \in BOOLEAN /\ (PaymentPage!terminal <=> Ended(payment))
    BY DEF PaymentPage!terminal, Ended
  <2>3. /\ poll' \in [Addresses -> Polled]
        /\ \A q \in Addresses : Told(q)' => Told(q) /\ poll'[q] = poll[q]
        /\ timer' = "cleared" => timer = "cleared" \/ PaymentPage!terminal
    BY <1>6, <2>1, <2>2
  <2> QED
    BY <2>1, <2>2, <2>3 DEF PaymentPageInv, Told
<1>9. ASSUME NEW r \in Addresses, PaymentPage!Fails(r) PROVE PaymentPageInv'
  <2>1. /\ PaymentPage!Ends(r, FALSE) /\ poll[r].at # "syncing"
        /\ UNCHANGED <<intent, payment, cartSynced, overtaken>>
    BY <1>9 DEF PaymentPage!Fails
  <2>2. /\ poll' \in [Addresses -> Polled]
        /\ \A q \in Addresses : Told(q)' => Told(q) /\ poll'[q] = poll[q]
        /\ \A q \in Addresses : q # r => poll'[q] = poll[q]
        /\ timer' = "cleared" => timer = "cleared"
    BY <1>6, <2>1
  <2>3. \A q \in Addresses : poll[q].at = "syncing" => poll'[q].at = "syncing"
    BY <2>1, <2>2
  <2> QED
    BY <2>1, <2>2, <2>3 DEF PaymentPageInv, Told
<1>10. ASSUME NEW r \in Addresses, NEW op \in {"get", "simulate"}, PaymentPage!Sends(r, op), intent' = intent
       PROVE  /\ poll' \in [Addresses -> Polled]
              /\ \A q \in Addresses : Told(q)' => Told(q) /\ poll'[q] = poll[q]
              /\ \A q \in Addresses : poll[q].at = "syncing" => poll'[q].at = "syncing"
  <2> DEFINE new == [PaymentPage!Free EXCEPT !.op = op, !.at = "asked"]
  <2>1. new \in Polled /\ new.at = "asked"
    BY <1>t DEF Polled
  <2>2. poll[r].at = "none" /\ poll' = [poll EXCEPT ![r] = new]
    BY <1>t, <1>10 DEF PaymentPage!Sends
  <2> HIDE DEF new
  <2>3. /\ poll' \in [Addresses -> Polled]
        /\ \A q \in Addresses : Told(q)' => Told(q) /\ poll'[q] = poll[q]
        /\ \A q \in Addresses : q # r => poll'[q] = poll[q]
    BY <1>10, <2>1, <2>2, PaymentUntold
  <2> QED
    BY <2>2, <2>3
<1>11. ASSUME NEW r \in Addresses, PaymentPage!load(r) PROVE PaymentPageInv'
  <2>1. PaymentPage!Sends(r, "get") /\ UNCHANGED <<intent, payment, timer, cartSynced, overtaken>>
    BY <1>11 DEF PaymentPage!load
  <2>2. /\ poll' \in [Addresses -> Polled]
        /\ \A q \in Addresses : Told(q)' => Told(q) /\ poll'[q] = poll[q]
        /\ \A q \in Addresses : poll[q].at = "syncing" => poll'[q].at = "syncing"
    BY <1>10, <2>1
  <2> QED
    BY <2>1, <2>2 DEF PaymentPageInv, Told
<1>12. ASSUME NEW r \in Addresses, PaymentPage!Press(r) PROVE PaymentPageInv'
  <2>1. PaymentPage!Sends(r, "simulate") /\ UNCHANGED <<intent, payment, timer, cartSynced, overtaken>>
    BY <1>12 DEF PaymentPage!Press
  <2>2. /\ poll' \in [Addresses -> Polled]
        /\ \A q \in Addresses : Told(q)' => Told(q) /\ poll'[q] = poll[q]
        /\ \A q \in Addresses : poll[q].at = "syncing" => poll'[q].at = "syncing"
    BY <1>10, <2>1
  <2> QED
    BY <2>1, <2>2 DEF PaymentPageInv, Told
<1> QED
  BY <1>1, <1>2, <1>3, <1>4, <1>5, <1>7, <1>8, <1>9, <1>11, <1>12 DEF PaymentPage!Next

\* The invariant of the page says that it stops at an end of the payment.
LEMMA PaymentPageInvSuffices == PaymentPageInv => PaymentPage!StopsAtTheEnd
<1> SUFFICES ASSUME PaymentPageInv, timer = "cleared", PaymentPage!UnderWay = {}, ~overtaken
             PROVE  Ended(payment) /\ (payment.status = "SUCCEEDED" => cartSynced)
  BY DEF PaymentPage!StopsAtTheEnd, PaymentPage!terminal, Ended
<1>1. \A r \in Addresses : poll[r].at # "syncing"
  BY PaymentPageTypes DEF PaymentPage!UnderWay
<1> QED
  BY <1>1 DEF PaymentPageInv
-----------------------------------------------------------------------------
(* Catalog: the walk has passed what it has visited, to its cursor, and    *)
(* has not met the category it is for; nothing of that changes as long as  *)
(* one category is moved at a time.                                        *)
Moves(w) == catalogRequest[w].op \in {"walk", "save"}

Walked(r, up, found) ==
    /\ r.to \in r.visited \cup {r.cursor} /\ r.id \notin r.visited
    /\ \A v \in r.visited \cap found : up[v] \in r.visited \cup {r.cursor}

CatalogInv ==
    /\ Catalog!TypeOK
    /\ \A w \in Calls : catalogRequest[w].op = "walk" => catalogRequest[w].cursor \in Addresses
    /\ \A w \in Calls : catalogRequest[w].op = "save" => catalogRequest[w].cursor = Root
    /\ Catalog!ReferencesHold
    /\ ~moving =>
         /\ Catalog!NoCycle
         /\ \A w \in Calls : Moves(w) => Walked(catalogRequest[w], parent, Catalog!Stored)
         /\ \A v, w \in Calls : Moves(v) /\ Moves(w) => v = w

\* The root and the absent are no categories; what a request is made of.
LEMMA CatalogTypes ==
    /\ Root \notin Addresses /\ Absent \notin Addresses /\ Absent # Root
    /\ Catalog!Idle \in Catalog!Request /\ Catalog!Idle.op = "idle"
    /\ \A r \in Catalog!Request : /\ r.id \in Addresses \cup {Root} /\ r.to \in Addresses \cup {Root}
                                  /\ r.cursor \in Addresses \cup {Root} /\ r.visited \subseteq Addresses
<1>1. Root \notin Addresses /\ Absent \notin Addresses /\ Absent # Root
  BY PartsAssumption DEF Catalog!CatalogAssumption
<1> QED
  BY <1>1 DEF Catalog!Idle, Catalog!Request

\* A tree without categories keeps the invariant.
LEMMA CatalogInitInv == Catalog!Init => CatalogInv
<1> SUFFICES ASSUME Catalog!Init PROVE CatalogInv
  OBVIOUS
<1>1. moving \in BOOLEAN
  BY DEF Catalog!Init
<1>2. /\ parent \in [Addresses -> Addresses \cup {Root, Absent}] /\ holder = Root
      /\ catalogRequest \in [Calls -> Catalog!Request]
      /\ \A w \in Calls : catalogRequest[w].op = "idle"
  BY CatalogTypes DEF Catalog!Init
<1>3. Catalog!Stored = {}
  BY DEF Catalog!Init, Catalog!Stored
<1> QED
  BY <1>1, <1>2, <1>3
     DEF CatalogInv, Catalog!TypeOK, Catalog!ReferencesHold, Catalog!NoCycle, Moves

\* So does every creation, move and removal, each in its steps.
LEMMA CatalogStepInv == ASSUME CatalogInv, Catalog!Next PROVE CatalogInv'
<1>t. /\ parent \in [Addresses -> Addresses \cup {Root, Absent}]
      /\ holder \in Addresses \cup {Root}
      /\ catalogRequest \in [Calls -> Catalog!Request]
      /\ moving \in BOOLEAN
      /\ Root \notin Addresses /\ Absent \notin Addresses /\ Absent # Root
      /\ Catalog!Idle \in Catalog!Request /\ Catalog!Idle.op = "idle"
      /\ \A c \in Catalog!Stored : c \in Addresses
  BY CatalogTypes DEF CatalogInv, Catalog!TypeOK, Catalog!Stored
<1>c. \A w \in Calls : /\ catalogRequest[w].op = "walk" => catalogRequest[w].cursor \in Addresses
                       /\ catalogRequest[w].op = "save" => catalogRequest[w].cursor = Root
  BY DEF CatalogInv
<1>h. \A c \in Catalog!Stored : parent[c] \in Catalog!Stored \cup {Root}
  BY DEF CatalogInv, Catalog!ReferencesHold
<1>k. holder \in Catalog!Stored \cup {Root}
  BY DEF CatalogInv, Catalog!ReferencesHold
\* A request goes on, and the tables stay.
<1>1. ASSUME NEW w \in Calls, NEW new \in Catalog!Request,
             catalogRequest' = [catalogRequest EXCEPT ![w] = new], UNCHANGED <<parent, holder>>,
             moving' \in BOOLEAN, ~moving' => ~moving,
             new.op = "walk" => new.cursor \in Addresses,
             new.op = "save" => new.cursor = Root,
             ~moving' /\ new.op \in {"walk", "save"} =>
                /\ Walked(new, parent, Catalog!Stored)
                /\ \A v \in Calls : Moves(v) => v = w
      PROVE  CatalogInv'
  <2>1. catalogRequest' \in [Calls -> Catalog!Request] /\ catalogRequest'[w] = new
        /\ \A v \in Calls : v # w => catalogRequest'[v] = catalogRequest[v]
    BY <1>t, <1>1
  <2>2. Catalog!Stored' = Catalog!Stored
    BY <1>1 DEF Catalog!Stored
  <2>3. Catalog!TypeOK' /\ Catalog!ReferencesHold'
    BY <1>t, <1>1, <2>1, <2>2 DEF CatalogInv, Catalog!TypeOK, Catalog!ReferencesHold
  <2>4. \A v \in Calls : Moves(v)' => (v = w /\ new.op \in {"walk", "save"}) \/ (v # w /\ Moves(v))
    BY <2>1 DEF Moves
  <2>5. ASSUME ~moving'
        PROVE  /\ Catalog!NoCycle'
               /\ \A v \in Calls : Moves(v)' => Walked(catalogRequest'[v], parent', Catalog!Stored')
               /\ \A u, v \in Calls : Moves(u)' /\ Moves(v)' => u = v
    <3>1. Catalog!NoCycle'
      BY <1>1, <2>2, <2>5 DEF CatalogInv, Catalog!NoCycle
    <3>2. \A v \in Calls : Moves(v)' => Walked(catalogRequest'[v], parent', Catalog!Stored')
      BY <1>1, <2>1, <2>2, <2>4, <2>5 DEF CatalogInv
    <3>3. \A u, v \in Calls : Moves(u)' /\ Moves(v)' => u = v
      BY <1>1, <2>4, <2>5 DEF CatalogInv
    <3> QED
      BY <3>1, <3>2, <3>3
  <2>6. \A v \in Calls : /\ catalogRequest'[v].op = "walk" => catalogRequest'[v].cursor \in Addresses
                         /\ catalogRequest'[v].op = "save" => catalogRequest'[v].cursor = Root
    BY <1>1, <1>c, <2>1
  <2> QED
    BY <2>3, <2>5, <2>6 DEF CatalogInv
\* A request is done, and the tables stay.
<1>2. ASSUME NEW w \in Calls, Catalog!Done(w), UNCHANGED <<parent, holder>> PROVE CatalogInv'
  <2>1. catalogRequest' = [catalogRequest EXCEPT ![w] = Catalog!Idle] /\ moving' = moving
    BY <1>2 DEF Catalog!Done, Catalog!Goes
  <2> QED
    BY <1>t, <1>1, <1>2, <2>1
<1>3. ASSUME NEW c \in Addresses, NEW to \in Addresses \cup {Root}, Catalog!create(c, to) PROVE CatalogInv'
  <2>1. /\ parent[c] = Absent /\ to \in Catalog!Stored \cup {Root}
        /\ parent' = [parent EXCEPT ![c] = to]
        /\ UNCHANGED <<holder, catalogRequest, moving>>
        /\ \A w \in Calls : c \notin catalogRequest[w].visited
    BY <1>3 DEF Catalog!create
  <2>2. /\ parent' \in [Addresses -> Addresses \cup {Root, Absent}] /\ parent'[c] = to
        /\ \A d \in Addresses : d # c => parent'[d] = parent[d]
    BY <1>t, <2>1
  <2>3. Catalog!Stored' = Catalog!Stored \cup {c} /\ c \notin Catalog!Stored /\ to # c
    BY <1>t, <2>1, <2>2 DEF Catalog!Stored
  <2>4. Catalog!TypeOK'
    BY <1>t, <2>1, <2>2 DEF CatalogInv, Catalog!TypeOK
  <2>5. Catalog!ReferencesHold'
    BY <1>t, <1>h, <1>k, <2>1, <2>2, <2>3 DEF Catalog!ReferencesHold
  <2>6. ASSUME ~moving' PROVE Catalog!NoCycle'
    <3> SUFFICES ASSUME NEW T \in SUBSET Catalog!Stored', T # {}, \A d \in T : parent'[d] \in T PROVE FALSE
      BY DEF Catalog!NoCycle
    <3>1. \A d \in T \ {c} : parent[d] \in T \ {c}
      BY <1>t, <1>h, <2>2, <2>3
    <3>2. T \ {c} \subseteq Catalog!Stored /\ T \ {c} # {}
      BY <2>2, <2>3
    <3> QED
      BY <2>1, <2>6, <3>1, <3>2 DEF CatalogInv, Catalog!NoCycle
  <2>7. ASSUME ~moving', NEW w \in Calls, Moves(w)
        PROVE  Walked(catalogRequest'[w], parent', Catalog!Stored')
    <3>1. Walked(catalogRequest[w], parent, Catalog!Stored) /\ c \notin catalogRequest[w].visited
      BY <2>1, <2>7 DEF CatalogInv
    <3> QED
      BY <1>t, <2>1, <2>2, <2>3, <3>1 DEF Walked
  <2> QED
    BY <2>1, <2>4, <2>5, <2>6, <2>7 DEF CatalogInv, Moves
<1>4. ASSUME NEW c \in Addresses, NEW to \in Addresses \cup {Root}, NEW w \in Calls, Catalog!saveCategory(w, c, to)
      PROVE  CatalogInv'
  <2> DEFINE new == [op |-> IF to = Root THEN "save" ELSE "walk",
                     id |-> c, to |-> to, cursor |-> to, visited |-> {}]
  <2>1. /\ c # to /\ catalogRequest' = [catalogRequest EXCEPT ![w] = new]
        /\ moving' = (moving \/ \E v \in Calls : catalogRequest[v].op \in {"walk", "save"})
        /\ UNCHANGED <<parent, holder>>
    BY <1>4 DEF Catalog!saveCategory, Catalog!Starts, Catalog!tables
  <2>2. /\ new \in Catalog!Request /\ new.cursor = to /\ new.to = to /\ new.id = c /\ new.visited = {}
        /\ new.op = "walk" => to # Root
        /\ new.op = "save" => to = Root
    BY DEF Catalog!Request
  <2> HIDE DEF new
  <2>3. moving' \in BOOLEAN
    BY <1>t, <2>1
  <2>4. ~moving' => ~moving /\ \A v \in Calls : ~Moves(v)
    BY <2>1 DEF Moves
  <2>5. Walked(new, parent, Catalog!Stored)
    BY <2>2 DEF Walked
  <2> QED
    BY <1>1, <2>1, <2>2, <2>3, <2>4, <2>5
<1>5. ASSUME NEW w \in Calls, Catalog!assertCategoryParent(w) PROVE CatalogInv'
  <2> DEFINE r == catalogRequest[w]
             above == parent[r.cursor]
             new == [r EXCEPT !.op = IF above = Root THEN "save" ELSE "walk", !.cursor = above,
                              !.visited = @ \cup {r.cursor}]
  <2>1. r.op = "walk" /\ UNCHANGED <<parent, holder>>
    BY <1>5 DEF Catalog!assertCategoryParent, Catalog!tables
  <2>2. CASE Catalog!Refused(w)
    BY <1>2, <1>5, <2>1, <2>2 DEF Catalog!assertCategoryParent
  <2>3. CASE ~Catalog!Refused(w)
    <3>1. catalogRequest' = [catalogRequest EXCEPT ![w] = new] /\ moving' = moving
      BY <1>5, <2>3 DEF Catalog!assertCategoryParent, Catalog!Goes
    <3>2. r.cursor \in Addresses /\ r.cursor # r.id /\ r.cursor \notin r.visited /\ above # Absent
      BY <1>c, <2>1, <2>3 DEF Catalog!Refused
    <3>3. above \in Addresses \cup {Root} /\ r \in Catalog!Request
      BY <1>t, <3>2
    <3>4. /\ new \in Catalog!Request /\ new.cursor = above /\ new.to = r.to /\ new.id = r.id
          /\ new.visited = r.visited \cup {r.cursor}
          /\ new.op = "walk" => above # Root
          /\ new.op = "save" => above = Root
      BY <3>2, <3>3 DEF Catalog!Request
    <3> HIDE DEF new
    <3>5. Moves(w)
      BY <2>1 DEF Moves
    <3>6. ~moving => Walked(r, parent, Catalog!Stored) /\ \A v \in Calls : Moves(v) => v = w
      BY <3>5 DEF CatalogInv
    <3>7. Walked(r, parent, Catalog!Stored) => Walked(new, parent, Catalog!Stored)
      BY <3>2, <3>4 DEF Walked
    <3> QED
      BY <1>1, <1>t, <2>1, <3>1, <3>3, <3>4, <3>6, <3>7
  <2> QED
    BY <2>2, <2>3
<1>6. ASSUME NEW w \in Calls, Catalog!write(w) PROVE CatalogInv'
  <2> DEFINE r == catalogRequest[w]
  <2>1. /\ r.op = "save" /\ r.id \in Catalog!Stored /\ r.to \in Catalog!Stored \cup {Root}
        /\ parent' = [parent EXCEPT ![r.id] = r.to]
        /\ catalogRequest' = [catalogRequest EXCEPT ![w] = Catalog!Idle]
        /\ UNCHANGED <<holder, moving>>
    BY <1>6 DEF Catalog!write, Catalog!Done, Catalog!Goes
  <2>2. /\ parent' \in [Addresses -> Addresses \cup {Root, Absent}] /\ parent'[r.id] = r.to
        /\ \A d \in Addresses : d # r.id => parent'[d] = parent[d]
    BY <1>t, <2>1
  <2>3. Catalog!Stored' = Catalog!Stored
    BY <1>t, <2>1, <2>2 DEF Catalog!Stored
  <2>4. catalogRequest' \in [Calls -> Catalog!Request] /\ catalogRequest'[w].op = "idle"
        /\ \A v \in Calls : v # w => catalogRequest'[v] = catalogRequest[v]
    BY <1>t, <2>1
  <2>5. Catalog!TypeOK' /\ Catalog!ReferencesHold'
    BY <1>t, <1>h, <1>k, <2>1, <2>2, <2>3, <2>4 DEF Catalog!TypeOK, Catalog!ReferencesHold
  <2>6. \A v \in Calls : /\ catalogRequest'[v].op = "walk" => catalogRequest'[v].cursor \in Addresses
                         /\ catalogRequest'[v].op = "save" => catalogRequest'[v].cursor = Root
    BY <1>c, <2>4
  <2>7. Moves(w) /\ r.cursor = Root
    BY <1>c, <2>1 DEF Moves
  <2>8. ~moving => \A v \in Calls : ~Moves(v)'
    BY <2>4, <2>7 DEF CatalogInv, Moves
  <2>9. ASSUME ~moving PROVE Catalog!NoCycle'
    <3> SUFFICES ASSUME NEW T \in SUBSET Catalog!Stored, T # {}, \A d \in T : parent'[d] \in T PROVE FALSE
      BY <2>3 DEF Catalog!NoCycle
    <3>1. Walked(r, parent, Catalog!Stored) /\ Catalog!NoCycle
      BY <2>7, <2>9 DEF CatalogInv
    <3>2. CASE r.id \notin T
      BY <1>t, <2>2, <3>1, <3>2 DEF Catalog!NoCycle
    <3>3. CASE r.id \in T
      <4>1. r.to \in T /\ r.to \in r.visited
        BY <1>t, <2>2, <2>7, <3>1, <3>3 DEF Walked
      <4>2. \A d \in T \cap r.visited : parent[d] \in T \cap r.visited
        <5> SUFFICES ASSUME NEW d \in T \cap r.visited PROVE parent[d] \in T \cap r.visited
          OBVIOUS
        <5>1. d \in Addresses /\ d # r.id /\ d \in Catalog!Stored
          BY <1>t, <3>1 DEF Walked
        <5>2. parent[d] \in T
          BY <2>2, <5>1
        <5>3. parent[d] # Root
          BY <1>t, <5>2
        <5>4. parent[d] \in r.visited \cup {Root}
          BY <2>7, <3>1, <5>1 DEF Walked
        <5> QED
          BY <5>2, <5>3, <5>4
      <4> QED
        BY <3>1, <4>1, <4>2 DEF Catalog!NoCycle
    <3> QED
      BY <3>2, <3>3
  <2> QED
    BY <2>1, <2>5, <2>6, <2>8, <2>9 DEF CatalogInv
<1>7. ASSUME NEW w \in Calls, NEW c \in Addresses, Catalog!CountChildren(w, c) PROVE CatalogInv'
  <2> DEFINE new == [Catalog!Idle EXCEPT !.op = IF Catalog!Children(c) = {} THEN "count" ELSE "hide", !.id = c]
  <2>1. new \in Catalog!Request /\ new.op \notin {"walk", "save"}
    BY <1>t DEF Catalog!Idle, Catalog!Request
  <2>2. catalogRequest' = [catalogRequest EXCEPT ![w] = new] /\ UNCHANGED <<parent, holder, moving>>
    BY <1>7 DEF Catalog!CountChildren, Catalog!Starts, Catalog!tables
  <2> HIDE DEF new
  <2> QED
    BY <1>1, <1>t, <2>1, <2>2
<1>8. ASSUME NEW w \in Calls, Catalog!CountHolders(w) PROVE CatalogInv'
  <2> DEFINE new == [catalogRequest[w] EXCEPT
                       !.op = IF holder = catalogRequest[w].id THEN "hide" ELSE "delete"]
  <2>1. new \in Catalog!Request /\ new.op \notin {"walk", "save"}
    BY <1>t DEF Catalog!Request
  <2>2. catalogRequest' = [catalogRequest EXCEPT ![w] = new] /\ UNCHANGED <<parent, holder, moving>>
    BY <1>8 DEF Catalog!CountHolders, Catalog!Goes, Catalog!tables
  <2> HIDE DEF new
  <2> QED
    BY <1>1, <1>t, <2>1, <2>2
<1>9. ASSUME NEW w \in Calls, Catalog!remove(w) PROVE CatalogInv'
  <2> DEFINE c == catalogRequest[w].id
  <2>1. c \in Catalog!Stored /\ Catalog!Done(w) /\ UNCHANGED holder
    BY <1>9 DEF Catalog!remove
  <2>2. CASE UNCHANGED parent
    BY <1>2, <2>1, <2>2
  <2>3. CASE Catalog!Unreferenced(c) /\ parent' = [parent EXCEPT ![c] = Absent]
    <3>1. /\ parent' \in [Addresses -> Addresses \cup {Root, Absent}] /\ parent'[c] = Absent
          /\ \A d \in Addresses : d # c => parent'[d] = parent[d]
      BY <1>t, <2>1, <2>3
    <3>2. Catalog!Stored' = Catalog!Stored \ {c}
      BY <1>t, <2>1, <3>1 DEF Catalog!Stored
    <3>3. holder # c /\ \A d \in Catalog!Stored : parent[d] # c
      BY <2>3 DEF Catalog!Unreferenced, Catalog!Children
    <3>4. catalogRequest' = [catalogRequest EXCEPT ![w] = Catalog!Idle] /\ moving' = moving
      BY <2>1 DEF Catalog!Done, Catalog!Goes
    <3>5. catalogRequest' \in [Calls -> Catalog!Request] /\ catalogRequest'[w].op = "idle"
          /\ \A v \in Calls : v # w => catalogRequest'[v] = catalogRequest[v]
      BY <1>t, <3>4
    <3>6. Catalog!TypeOK' /\ Catalog!ReferencesHold'
      BY <1>t, <1>h, <1>k, <2>1, <3>1, <3>2, <3>3, <3>4, <3>5 DEF Catalog!TypeOK, Catalog!ReferencesHold
    <3>7. \A v \in Calls : /\ catalogRequest'[v].op = "walk" => catalogRequest'[v].cursor \in Addresses
                           /\ catalogRequest'[v].op = "save" => catalogRequest'[v].cursor = Root
      BY <1>c, <3>5
    <3>8. ~moving => Catalog!NoCycle'
      BY <1>t, <3>1, <3>2 DEF CatalogInv, Catalog!NoCycle
    <3>9. \A v \in Calls : Moves(v)' => Moves(v) /\ catalogRequest'[v] = catalogRequest[v]
      BY <3>5 DEF Moves
    <3>10. ASSUME ~moving, NEW v \in Calls, Moves(v)'
           PROVE  Walked(catalogRequest'[v], parent', Catalog!Stored')
      <4>1. Walked(catalogRequest[v], parent, Catalog!Stored)
        BY <3>9, <3>10 DEF CatalogInv
      <4> QED
        BY <1>t, <3>1, <3>2, <3>9, <3>10, <4>1 DEF Walked
    <3>11. ~moving => \A u, v \in Calls : Moves(u)' /\ Moves(v)' => u = v
      BY <3>9 DEF CatalogInv
    <3> QED
      BY <3>4, <3>6, <3>7, <3>8, <3>10, <3>11 DEF CatalogInv
  <2> QED
    BY <1>9, <2>2, <2>3 DEF Catalog!remove
<1>10. ASSUME NEW w \in Calls, Catalog!Fail(w) PROVE CatalogInv'
  BY <1>2, <1>10 DEF Catalog!Fail, Catalog!tables
<1>11. ASSUME NEW c \in Addresses \cup {Root}, Catalog!hold(c) PROVE CatalogInv'
  <2>1. c \in Catalog!Stored \cup {Root} /\ holder' = c /\ UNCHANGED <<parent, catalogRequest, moving>>
    BY <1>11 DEF Catalog!hold
  <2>2. Catalog!Stored' = Catalog!Stored
    BY <2>1 DEF Catalog!Stored
  <2>3. Catalog!TypeOK' /\ Catalog!ReferencesHold'
    BY <1>t, <1>h, <2>1, <2>2 DEF Catalog!TypeOK, Catalog!ReferencesHold
  <2>4. Catalog!NoCycle' <=> Catalog!NoCycle
    BY <2>1, <2>2 DEF Catalog!NoCycle
  <2> QED
    BY <2>1, <2>2, <2>3, <2>4 DEF CatalogInv, Moves
<1> QED
  BY <1>3, <1>4, <1>5, <1>6, <1>7, <1>8, <1>9, <1>10, <1>11 DEF Catalog!Next

\* The invariant of the tree says that it stands.
LEMMA CatalogInvSuffices == CatalogInv => TreeStands
BY DEF CatalogInv, TreeStands, Catalog!TreeStands
-----------------------------------------------------------------------------
(* DraftEditor: a download that is current is of the file that was asked   *)
(* for last and has not been aborted; the URLs that are shown are counted. *)
Downloads == [key : Keys, generation : Nat \ {0}, file : Nat \ {0}, aborted : BOOLEAN]
Previews ==
    [urls : [Keys -> Nat], errors : SUBSET Keys, live : Nat, requests : [Keys -> Nat],
     generations : [Keys -> Nat], downloads : SUBSET Downloads, wanted : [Keys -> Nat]]
Shown(urls) == {k \in Keys : urls[k] # DraftEditor!NoFile}

Accounted(p) ==
    /\ p \in Previews
    /\ \A k \in Keys : p.requests[k] \in {0, p.generations[k]}
    /\ \A k \in Keys : p.requests[k] = 0 /\ k \notin p.errors => p.urls[k] = p.wanted[k]
    /\ \A d \in p.downloads : d.generation <= p.generations[d.key]
    /\ \A d \in p.downloads : p.requests[d.key] = d.generation => d.file = p.wanted[d.key] /\ ~d.aborted
    /\ p.live = Cardinality(Shown(p.urls))

\* A drawer has finitely many rows.
LEMMA KeysFinite == IsFiniteSet(Keys)
BY PartsAssumption DEF DraftEditor!DraftEditorAssumption, DraftEditor!IsFiniteSet, IsFiniteSet

\* The instance's cardinality is that of FiniteSets.
LEMMA SameCardinality == \A S : DraftEditor!Cardinality(S) = Cardinality(S)
BY DEF DraftEditor!Cardinality, Cardinality

\* One URL is shown instead of another, or of none.
LEMMA OneShownInstead ==
    ASSUME NEW urls \in [Keys -> Nat], NEW k \in Keys, NEW f \in Nat
    PROVE  LET next == Shown([urls EXCEPT ![k] = f]) IN
           /\ Cardinality(Shown(urls)) \in Nat
           /\ f # 0 => Cardinality(next) = Cardinality(Shown(urls)) + (IF urls[k] = 0 THEN 1 ELSE 0)
           /\ f = 0 => Cardinality(next) = Cardinality(Shown(urls)) - (IF urls[k] = 0 THEN 0 ELSE 1)
           /\ urls[k] # 0 => Cardinality(Shown(urls)) >= 1
<1> DEFINE S == Shown(urls)
           next == Shown([urls EXCEPT ![k] = f])
<1>1. IsFiniteSet(S) /\ Cardinality(S) \in Nat
  BY KeysFinite, FS_Subset, FS_CardinalityType DEF Shown
<1>2. urls[k] # 0 => Cardinality(S) >= 1
  <2>1. urls[k] # 0 => S # {}
    BY DEF Shown, DraftEditor!NoFile
  <2> QED
    BY <1>1, <2>1, FS_EmptySet
<1>3. f # 0 => next = S \cup {k}
  BY DEF Shown, DraftEditor!NoFile
<1>4. f = 0 => next = S \ {k}
  BY DEF Shown, DraftEditor!NoFile
<1>5. k \in S <=> urls[k] # 0
  BY DEF Shown, DraftEditor!NoFile
<1> HIDE DEF S, next
<1>6. f # 0 => Cardinality(next) = Cardinality(S) + (IF urls[k] = 0 THEN 1 ELSE 0)
  BY <1>1, <1>3, <1>5, FS_AddElement
<1>7. f = 0 => Cardinality(next) = Cardinality(S) - (IF urls[k] = 0 THEN 0 ELSE 1)
  BY <1>1, <1>4, <1>5, FS_RemoveElement
<1> QED
  BY <1>1, <1>2, <1>6, <1>7 DEF S, next

\* p with, for key k, the request r, the generation g, the file w asked for and the URL u.
Becomes(p, q, k, r, g, w, u) ==
    /\ q \in Previews
    /\ q.requests = [p.requests EXCEPT ![k] = r]
    /\ q.generations = [p.generations EXCEPT ![k] = g]
    /\ q.wanted = [p.wanted EXCEPT ![k] = w]
    /\ q.urls = [p.urls EXCEPT ![k] = u]
    /\ q.errors \cup {k} = p.errors \cup {k}
    /\ q.live = p.live + (IF u = 0 THEN 0 ELSE 1) - (IF p.urls[k] = 0 THEN 0 ELSE 1)

\* The downloads of q are those of p, aborted perhaps if they are not current, or new and current.
KeptOrNew(p, q, k, r, g, w) ==
    \A e \in q.downloads :
       \/ \E d \in p.downloads :
             /\ e.key = d.key /\ e.generation = d.generation /\ e.file = d.file
             /\ d.key # k => e.aborted = d.aborted
             /\ d.key = k => \/ r = 0 \/ r > p.generations[k]
                             \/ r = p.requests[k] /\ w = p.wanted[k] /\ e.aborted = d.aborted
       \/ e.key = k /\ e.file = w /\ ~e.aborted /\ e.generation <= g

\* A change of one row keeps the account, if its request and its URL are of one file.
LEMMA BecomesAccounted ==
    ASSUME NEW p, Accounted(p), NEW k \in Keys, NEW q,
           NEW r \in Nat, NEW g \in Nat, NEW w \in Nat, NEW u \in Nat,
           Becomes(p, q, k, r, g, w, u),
           g >= p.generations[k], r \in {0, g},
           r = 0 /\ k \notin q.errors => u = w,
           KeptOrNew(p, q, k, r, g, w)
    PROVE  Accounted(q)
<1>1. /\ p \in Previews /\ q \in Previews
      /\ \A e \in q.downloads : e \in Downloads
      /\ \A e \in p.downloads : e \in Downloads
  BY DEF Accounted, Becomes, Previews
<1>2. /\ p.urls \in [Keys -> Nat] /\ p.requests \in [Keys -> Nat] /\ p.generations \in [Keys -> Nat]
      /\ p.wanted \in [Keys -> Nat] /\ p.live \in Nat
  BY <1>1 DEF Previews
<1>3. /\ q.requests[k] = r /\ q.generations[k] = g /\ q.wanted[k] = w /\ q.urls[k] = u
      /\ \A j \in Keys : j # k =>
           /\ q.requests[j] = p.requests[j] /\ q.generations[j] = p.generations[j]
           /\ q.wanted[j] = p.wanted[j] /\ q.urls[j] = p.urls[j]
           /\ j \in q.errors <=> j \in p.errors
  BY <1>2 DEF Becomes
<1>4. \A j \in Keys : q.requests[j] \in {0, q.generations[j]}
  BY <1>3 DEF Accounted
<1>5. \A j \in Keys : q.requests[j] = 0 /\ j \notin q.errors => q.urls[j] = q.wanted[j]
  BY <1>3 DEF Accounted
<1>6. ASSUME NEW e \in q.downloads
      PROVE  /\ e.generation <= q.generations[e.key]
             /\ q.requests[e.key] = e.generation => e.file = q.wanted[e.key] /\ ~e.aborted
  <2>0. e.key \in Keys /\ e.generation \in Nat \ {0}
    BY <1>1 DEF Downloads
  <2>1. ASSUME NEW d \in p.downloads,
               e.key = d.key /\ e.generation = d.generation /\ e.file = d.file,
               d.key # k => e.aborted = d.aborted,
               d.key = k => \/ r = 0 \/ r > p.generations[k]
                            \/ r = p.requests[k] /\ w = p.wanted[k] /\ e.aborted = d.aborted
        PROVE  /\ e.generation <= q.generations[e.key]
               /\ q.requests[e.key] = e.generation => e.file = q.wanted[e.key] /\ ~e.aborted
    <3>1. d.generation <= p.generations[d.key]
          /\ (p.requests[d.key] = d.generation => d.file = p.wanted[d.key] /\ ~d.aborted)
      BY DEF Accounted
    <3>2. CASE d.key # k
      BY <1>3, <2>0, <2>1, <3>1, <3>2
    <3>3. CASE d.key = k
      <4>1. d.generation \in Nat /\ p.generations[k] \in Nat /\ d.generation # 0
        BY <1>2, <2>0, <2>1
      <4>2. d.generation <= g /\ (r = 0 \/ r > p.generations[k] => r # d.generation)
        BY <3>1, <3>3, <4>1
      <4> QED
        BY <1>3, <2>1, <3>1, <3>3, <4>2
    <3> QED
      BY <3>2, <3>3
  <2>2. CASE e.key = k /\ e.file = w /\ ~e.aborted /\ e.generation <= g
    BY <1>3, <2>2
  <2> QED
    BY <2>1, <2>2 DEF KeptOrNew
<1>7. q.live = Cardinality(Shown(q.urls))
  <2>1. p.live = Cardinality(Shown(p.urls)) /\ p.live \in Nat
    BY <1>2 DEF Accounted
  <2>4. q.urls = [p.urls EXCEPT ![k] = u]
    BY DEF Becomes
  <2>2. /\ u # 0 => Cardinality(Shown(q.urls)) = p.live + (IF p.urls[k] = 0 THEN 1 ELSE 0)
        /\ u = 0 => Cardinality(Shown(q.urls)) = p.live - (IF p.urls[k] = 0 THEN 0 ELSE 1)
    BY <1>2, <2>1, <2>4, OneShownInstead
  <2>3. q.live = p.live + (IF u = 0 THEN 0 ELSE 1) - (IF p.urls[k] = 0 THEN 0 ELSE 1)
    BY DEF Becomes
  <2> QED
    BY <2>1, <2>2, <2>3
<1> QED
  BY <1>1, <1>4, <1>5, <1>6, <1>7 DEF Accounted

\* To abort downloads changes nothing else of them.
LEMMA AbortedDownloads ==
    ASSUME NEW D \in SUBSET Downloads, NEW K
    PROVE  /\ DraftEditor!Abort(D, K) \in SUBSET Downloads
           /\ \A e \in DraftEditor!Abort(D, K) : \E d \in D :
                /\ e.key = d.key /\ e.generation = d.generation /\ e.file = d.file
                /\ d.key \notin K => e.aborted = d.aborted
<1>1. ASSUME NEW d \in D
      PROVE  LET e == [d EXCEPT !.aborted = @ \/ d.key \in K] IN
             /\ e \in Downloads /\ e.key = d.key /\ e.generation = d.generation /\ e.file = d.file
             /\ d.key \notin K => e.aborted = d.aborted
  BY DEF Downloads
<1> QED
  BY <1>1 DEF DraftEditor!Abort

\* What cancelRequest leaves, field by field.
LEMMA Cancelled ==
    ASSUME NEW p \in Previews, NEW k \in Keys
    PROVE  LET q == DraftEditor!cancelRequest(p, k) IN
           /\ q \in Previews
           /\ q.requests = [p.requests EXCEPT ![k] = 0] /\ q.downloads = DraftEditor!Abort(p.downloads, {k})
           /\ q.urls = p.urls /\ q.errors = p.errors /\ q.live = p.live
           /\ q.generations = p.generations /\ q.wanted = p.wanted
<1>1. DraftEditor!Abort(p.downloads, {k}) \in SUBSET Downloads
  BY AbortedDownloads DEF Previews
<1> QED
  BY <1>1 DEF DraftEditor!cancelRequest, Previews

\* showFile keeps the account.
LEMMA ShowFileAccounted ==
    ASSUME NEW p, Accounted(p), NEW k \in Keys, NEW f \in Nat \ {0}
    PROVE  Accounted(DraftEditor!showFile(p, k, f))
<1> DEFINE c == DraftEditor!cancelRequest(p, k)
           q == DraftEditor!showFile(p, k, f)
<1>1. /\ p \in Previews /\ c \in Previews
      /\ c.requests = [p.requests EXCEPT ![k] = 0] /\ c.downloads = DraftEditor!Abort(p.downloads, {k})
      /\ c.urls = p.urls /\ c.errors = p.errors /\ c.live = p.live
      /\ c.generations = p.generations /\ c.wanted = p.wanted
  BY Cancelled DEF Accounted
<1>2. p.urls[k] \in Nat /\ p.live \in Nat /\ (p.urls[k] # 0 => p.live >= 1) /\ p.urls \in [Keys -> Nat]
      /\ p.generations[k] \in Nat /\ p.generations \in [Keys -> Nat]
  BY <1>1, OneShownInstead DEF Accounted, Previews
<1>3. q = [[c EXCEPT !.urls[k] = f, !.errors = @ \ {k},
                     !.live = (IF c.urls[k] = 0 THEN @ ELSE @ - 1) + 1] EXCEPT !.wanted[k] = f]
  BY DEF DraftEditor!showFile, DraftEditor!replaceUrl, DraftEditor!NoFile
<1> HIDE DEF c, q
<1>4. /\ c.urls \in [Keys -> Nat] /\ c.wanted \in [Keys -> Nat] /\ c.errors \subseteq Keys
      /\ c.live \in Nat /\ (IF c.urls[k] = 0 THEN c.live ELSE c.live - 1) + 1 \in Nat
  BY <1>1, <1>2 DEF Previews
<1>5. /\ q.requests = c.requests /\ q.downloads = c.downloads
      /\ q.generations = c.generations /\ q.errors = c.errors \ {k}
      /\ q.urls = [c.urls EXCEPT ![k] = f] /\ q.wanted = [c.wanted EXCEPT ![k] = f]
      /\ q.live = (IF c.urls[k] = 0 THEN c.live ELSE c.live - 1) + 1
  BY <1>1, <1>3 DEF Previews
<1>6. q \in Previews
  BY <1>1, <1>3, <1>4 DEF Previews
<1>7. Becomes(p, q, k, 0, p.generations[k], f, f)
  BY <1>1, <1>2, <1>5, <1>6 DEF Becomes
<1>8. \A e \in q.downloads : \E d \in p.downloads :
        /\ e.key = d.key /\ e.generation = d.generation /\ e.file = d.file
        /\ d.key # k => e.aborted = d.aborted
  BY <1>1, <1>5, AbortedDownloads DEF Previews
<1>9. p.generations[k] >= p.generations[k] /\ f \in Nat /\ 0 \in {0, p.generations[k]}
  BY <1>2
<1>10. Accounted(q)
  BY <1>2, <1>7, <1>8, <1>9, BecomesAccounted DEF KeptOrNew
<1> QED
  BY <1>10 DEF q

\* The parts of a record of previews.
LEMMA PreviewTypes ==
    ASSUME NEW p, Accounted(p), NEW k \in Keys
    PROVE  /\ p \in Previews
           /\ p.urls \in [Keys -> Nat] /\ p.requests \in [Keys -> Nat] /\ p.generations \in [Keys -> Nat]
           /\ p.wanted \in [Keys -> Nat] /\ p.live \in Nat /\ p.errors \subseteq Keys
           /\ p.downloads \in SUBSET Downloads
           /\ p.urls[k] \in Nat /\ p.requests[k] \in Nat /\ p.generations[k] \in Nat /\ p.wanted[k] \in Nat
           /\ p.urls[k] # 0 => p.live >= 1
BY OneShownInstead DEF Accounted, Previews

\* clearPreview keeps the account.
LEMMA ClearPreviewAccounted ==
    ASSUME NEW p, Accounted(p), NEW k \in Keys
    PROVE  Accounted(DraftEditor!clearPreview(p, k))
<1> DEFINE c == DraftEditor!cancelRequest(p, k)
           q == DraftEditor!clearPreview(p, k)
           g == p.generations[k] + 1
<1>1. /\ p \in Previews /\ c \in Previews
      /\ c.requests = [p.requests EXCEPT ![k] = 0] /\ c.downloads = DraftEditor!Abort(p.downloads, {k})
      /\ c.urls = p.urls /\ c.errors = p.errors /\ c.live = p.live
      /\ c.generations = p.generations /\ c.wanted = p.wanted
  BY Cancelled DEF Accounted
<1>2. /\ p.urls \in [Keys -> Nat] /\ p.generations \in [Keys -> Nat] /\ p.wanted \in [Keys -> Nat]
      /\ p.urls[k] \in Nat /\ p.live \in Nat /\ (p.urls[k] # 0 => p.live >= 1) /\ p.generations[k] \in Nat
  BY PreviewTypes
<1>3. q = [c EXCEPT !.generations[k] = @ + 1, !.errors = @ \ {k}, !.urls[k] = 0,
                    !.live = IF p.urls[k] = 0 THEN @ ELSE @ - 1, !.wanted[k] = 0]
  BY DEF DraftEditor!clearPreview, DraftEditor!NoFile
<1> HIDE DEF c, q
<1>4. /\ c.urls \in [Keys -> Nat] /\ c.wanted \in [Keys -> Nat] /\ c.errors \subseteq Keys
      /\ c.generations \in [Keys -> Nat] /\ c.generations[k] + 1 \in Nat
      /\ (IF p.urls[k] = 0 THEN c.live ELSE c.live - 1) \in Nat
  BY <1>1, <1>2 DEF Previews
<1>5. /\ q.requests = c.requests /\ q.downloads = c.downloads
      /\ q.generations = [c.generations EXCEPT ![k] = c.generations[k] + 1] /\ q.errors = c.errors \ {k}
      /\ q.urls = [c.urls EXCEPT ![k] = 0] /\ q.wanted = [c.wanted EXCEPT ![k] = 0]
      /\ q.live = IF p.urls[k] = 0 THEN c.live ELSE c.live - 1
  BY <1>1, <1>3 DEF Previews
<1>6. q \in Previews
  BY <1>1, <1>3, <1>4 DEF Previews
<1>7. Becomes(p, q, k, 0, g, 0, 0)
  BY <1>1, <1>2, <1>5, <1>6 DEF Becomes
<1>8. \A e \in q.downloads : \E d \in p.downloads :
        /\ e.key = d.key /\ e.generation = d.generation /\ e.file = d.file
        /\ d.key # k => e.aborted = d.aborted
  BY <1>1, <1>5, AbortedDownloads DEF Previews
<1>9. g >= p.generations[k] /\ g \in Nat /\ 0 \in Nat /\ 0 \in {0, g}
  BY <1>2
<1> HIDE DEF g
<1>10. Accounted(q)
  BY <1>7, <1>8, <1>9, BecomesAccounted DEF KeptOrNew
<1> QED
  BY <1>10 DEF q

\* showFileId keeps the account.
LEMMA ShowFileIdAccounted ==
    ASSUME NEW p, Accounted(p), NEW k \in Keys, NEW f \in Nat
    PROVE  Accounted(DraftEditor!showFileId(p, k, f))
<1> DEFINE c == DraftEditor!cancelRequest(p, k)
           q == DraftEditor!showFileId(p, k, f)
           g == p.generations[k] + 1
           new == [key |-> k, generation |-> g, file |-> f, aborted |-> FALSE]
<1>0. CASE f = 0
  BY <1>0, ClearPreviewAccounted DEF DraftEditor!showFileId, DraftEditor!NoFile
<1>1. /\ p \in Previews /\ c \in Previews
      /\ c.requests = [p.requests EXCEPT ![k] = 0] /\ c.downloads = DraftEditor!Abort(p.downloads, {k})
      /\ c.urls = p.urls /\ c.errors = p.errors /\ c.live = p.live
      /\ c.generations = p.generations /\ c.wanted = p.wanted
  BY Cancelled DEF Accounted
<1>2. /\ p.urls \in [Keys -> Nat] /\ p.requests \in [Keys -> Nat]
      /\ p.generations \in [Keys -> Nat] /\ p.wanted \in [Keys -> Nat]
      /\ p.urls[k] \in Nat /\ p.live \in Nat /\ p.generations[k] \in Nat /\ g \in Nat \ {0}
      /\ g > p.generations[k]
  BY PreviewTypes
<1> SUFFICES ASSUME f # 0 PROVE Accounted(q)
  BY <1>0
<1>3. q = [c EXCEPT !.generations[k] = g, !.requests[k] = g, !.errors = @ \ {k}, !.wanted[k] = f,
                    !.downloads = @ \cup {new}]
  BY DEF DraftEditor!showFileId, DraftEditor!NoFile, DraftEditor!Download
<1>4. new \in Downloads /\ new.key = k /\ new.generation = g /\ new.file = f /\ ~new.aborted
  BY <1>2 DEF Downloads
<1> HIDE DEF c, q, g, new
<1>5. /\ q.requests = [c.requests EXCEPT ![k] = g] /\ q.downloads = c.downloads \cup {new}
      /\ q.generations = [c.generations EXCEPT ![k] = g] /\ q.errors = c.errors \ {k}
      /\ q.urls = c.urls /\ q.wanted = [c.wanted EXCEPT ![k] = f] /\ q.live = c.live
  BY <1>1, <1>3 DEF Previews
<1>6. q \in Previews
  BY <1>1, <1>2, <1>3, <1>4 DEF Previews
<1>7. Becomes(p, q, k, g, g, f, p.urls[k])
  BY <1>1, <1>2, <1>5, <1>6 DEF Becomes
<1>8. \A e \in q.downloads :
        \/ \E d \in p.downloads :
             /\ e.key = d.key /\ e.generation = d.generation /\ e.file = d.file
             /\ d.key # k => e.aborted = d.aborted
             /\ g > p.generations[k]
        \/ e.key = k /\ e.file = f /\ ~e.aborted /\ e.generation <= g
  <2>1. \A e \in c.downloads : \E d \in p.downloads :
             /\ e.key = d.key /\ e.generation = d.generation /\ e.file = d.file
             /\ d.key # k => e.aborted = d.aborted
    BY <1>1, AbortedDownloads DEF Previews
  <2>2. new.key = k /\ new.file = f /\ ~new.aborted /\ new.generation <= g
    BY <1>2, <1>4
  <2> QED
    BY <1>2, <1>5, <2>1, <2>2
<1>9. g >= p.generations[k] /\ g \in Nat /\ g # 0 /\ g \in {0, g} /\ p.urls[k] \in Nat
  BY <1>2
<1>10. KeptOrNew(p, q, k, g, g, f)
  BY <1>8 DEF KeptOrNew
<1> QED
  BY <1>7, <1>9, <1>10, BecomesAccounted

\* A download ends: what stays are the others.
LEMMA SettledFields ==
    ASSUME NEW p, Accounted(p), NEW d \in p.downloads
    PROVE  LET q == DraftEditor!Settled(p, d)
               r == IF p.requests[d.key] = d.generation THEN 0 ELSE p.requests[d.key]
           IN  /\ q \in Previews /\ d.key \in Keys /\ d.file \in Nat \ {0} /\ d.generation \in Nat \ {0}
               /\ d.aborted \in BOOLEAN
               /\ q.requests = [p.requests EXCEPT ![d.key] = r] /\ q.downloads = p.downloads \ {d}
               /\ q.urls = p.urls /\ q.errors = p.errors /\ q.live = p.live
               /\ q.generations = p.generations /\ q.wanted = p.wanted
               /\ r \in Nat /\ r \in {0, p.generations[d.key]} /\ (r = 0 \/ r = p.requests[d.key])
<1>1. d \in Downloads /\ p \in Previews
  BY DEF Accounted, Previews
<1>2. d.key \in Keys /\ d.file \in Nat \ {0} /\ d.generation \in Nat \ {0} /\ d.aborted \in BOOLEAN
  BY <1>1 DEF Downloads
<1>3. p.requests[d.key] \in Nat /\ p.requests[d.key] \in {0, p.generations[d.key]}
  BY <1>1, <1>2 DEF Accounted, Previews
<1> QED
  BY <1>1, <1>2, <1>3 DEF DraftEditor!Settled, DraftEditor!isCurrent, Previews

\* The answer of a download keeps the account, late or not.
LEMMA DownloadedAccounted ==
    ASSUME NEW p, Accounted(p), NEW d \in p.downloads
    PROVE  Accounted(DraftEditor!downloaded(p, d))
<1> DEFINE k == d.key
           c == DraftEditor!Settled(p, d)
           r == IF p.requests[k] = d.generation THEN 0 ELSE p.requests[k]
           q == DraftEditor!downloaded(p, d)
<1>1. /\ c \in Previews /\ k \in Keys /\ d.file \in Nat \ {0} /\ d.generation \in Nat \ {0}
      /\ d.aborted \in BOOLEAN
      /\ c.requests = [p.requests EXCEPT ![k] = r] /\ c.downloads = p.downloads \ {d}
      /\ c.urls = p.urls /\ c.errors = p.errors /\ c.live = p.live
      /\ c.generations = p.generations /\ c.wanted = p.wanted
      /\ r \in Nat /\ r \in {0, p.generations[k]} /\ (r = 0 \/ r = p.requests[k])
  BY SettledFields
<1>2. /\ p \in Previews /\ p.urls \in [Keys -> Nat] /\ p.requests \in [Keys -> Nat]
      /\ p.generations \in [Keys -> Nat] /\ p.wanted \in [Keys -> Nat] /\ p.live \in Nat
      /\ p.urls[k] \in Nat /\ p.requests[k] \in Nat /\ p.generations[k] \in Nat /\ p.wanted[k] \in Nat
      /\ p.urls[k] # 0 => p.live >= 1
  BY <1>1, PreviewTypes
<1>3. p.generations[k] >= p.generations[k]
  BY <1>2
<1>4. CASE p.requests[k] = d.generation
  <2>1. d.file = p.wanted[k] /\ r = 0
    BY <1>4 DEF Accounted
  <2>2. q = [c EXCEPT !.urls[k] = d.file, !.errors = @ \ {k},
                      !.live = (IF c.urls[k] = 0 THEN @ ELSE @ - 1) + 1]
    BY <1>4 DEF DraftEditor!downloaded, DraftEditor!isCurrent, DraftEditor!replaceUrl, DraftEditor!NoFile
  <2> HIDE DEF c, q, r, k
  <2>3. (IF c.urls[k] = 0 THEN c.live ELSE c.live - 1) + 1 \in Nat
    BY <1>1, <1>2
  <2>4. /\ q.requests = c.requests /\ q.downloads = c.downloads
        /\ q.generations = c.generations /\ q.errors = c.errors \ {k}
        /\ q.urls = [c.urls EXCEPT ![k] = d.file] /\ q.wanted = c.wanted
        /\ q.live = (IF c.urls[k] = 0 THEN c.live ELSE c.live - 1) + 1
    BY <1>1, <2>2 DEF Previews
  <2>5. q \in Previews
    BY <1>1, <2>2, <2>3 DEF Previews
  <2>6. Becomes(p, q, k, 0, p.generations[k], d.file, d.file)
    BY <1>1, <1>2, <2>1, <2>4, <2>5 DEF Becomes
  <2>7. \A e \in q.downloads : e \in p.downloads
    BY <1>1, <2>4
  <2>8. Accounted(q)
    BY <1>1, <1>2, <1>3, <2>6, <2>7, BecomesAccounted DEF KeptOrNew
  <2> QED
    BY <2>8 DEF q
<1>5. CASE p.requests[k] # d.generation
  <2>1. q = c /\ r = p.requests[k]
    BY <1>5 DEF DraftEditor!downloaded, DraftEditor!isCurrent
  <2> HIDE DEF c, q, r, k
  <2>2. Becomes(p, q, k, r, p.generations[k], p.wanted[k], p.urls[k])
    BY <1>1, <1>2, <2>1 DEF Becomes
  <2>3. \A e \in q.downloads : e \in p.downloads
    BY <1>1, <2>1
  <2>4. r = 0 /\ k \notin q.errors => p.urls[k] = p.wanted[k]
    BY <1>1, <2>1 DEF Accounted
  <2>5. Accounted(q)
    BY <1>1, <1>2, <1>3, <2>1, <2>2, <2>3, <2>4, BecomesAccounted DEF KeptOrNew
  <2> QED
    BY <2>5 DEF q
<1> QED
  BY <1>4, <1>5

\* The failure of a download keeps the account, late or not.
LEMMA DownloadFailedAccounted ==
    ASSUME NEW p, Accounted(p), NEW d \in p.downloads
    PROVE  Accounted(DraftEditor!downloadFailed(p, d))
<1> DEFINE k == d.key
           c == DraftEditor!Settled(p, d)
           r == IF p.requests[k] = d.generation THEN 0 ELSE p.requests[k]
           q == DraftEditor!downloadFailed(p, d)
<1>1. /\ c \in Previews /\ k \in Keys /\ d.file \in Nat \ {0} /\ d.generation \in Nat \ {0}
      /\ d.aborted \in BOOLEAN
      /\ c.requests = [p.requests EXCEPT ![k] = r] /\ c.downloads = p.downloads \ {d}
      /\ c.urls = p.urls /\ c.errors = p.errors /\ c.live = p.live
      /\ c.generations = p.generations /\ c.wanted = p.wanted
      /\ r \in Nat /\ r \in {0, p.generations[k]} /\ (r = 0 \/ r = p.requests[k])
  BY SettledFields
<1>2. /\ p \in Previews /\ p.urls \in [Keys -> Nat] /\ p.requests \in [Keys -> Nat]
      /\ p.generations \in [Keys -> Nat] /\ p.wanted \in [Keys -> Nat] /\ p.live \in Nat
      /\ p.urls[k] \in Nat /\ p.requests[k] \in Nat /\ p.generations[k] \in Nat /\ p.wanted[k] \in Nat
  BY <1>1, PreviewTypes
<1>3. p.generations[k] >= p.generations[k]
  BY <1>2
<1>4. d.aborted => p.requests[k] # d.generation
  BY DEF Accounted
<1>5. CASE d.aborted
  BY <1>4, <1>5, DownloadedAccounted
     DEF DraftEditor!downloadFailed, DraftEditor!downloaded, DraftEditor!isCurrent
<1>6. CASE ~d.aborted
  <2>1. q = [c EXCEPT !.errors = @ \cup {k}]
    BY <1>6 DEF DraftEditor!downloadFailed
  <2> HIDE DEF c, q, r, k
  <2>2. /\ q \in Previews /\ q.requests = c.requests /\ q.downloads = c.downloads
        /\ q.generations = c.generations /\ q.errors = c.errors \cup {k}
        /\ q.urls = c.urls /\ q.wanted = c.wanted /\ q.live = c.live
    BY <1>1, <2>1 DEF Previews
  <2>3. Becomes(p, q, k, r, p.generations[k], p.wanted[k], p.urls[k])
    BY <1>1, <1>2, <2>2 DEF Becomes
  <2>4. \A e \in q.downloads : \E o \in p.downloads :
          /\ e.key = o.key /\ e.generation = o.generation /\ e.file = o.file /\ e.aborted = o.aborted
          /\ r = 0 \/ r = p.requests[k]
    BY <1>1, <2>2
  <2>5. k \in q.errors /\ p.generations[k] \in Nat /\ p.wanted[k] \in Nat /\ p.urls[k] \in Nat
    BY <1>2, <2>2
  <2>7. KeptOrNew(p, q, k, r, p.generations[k], p.wanted[k])
    BY <2>4 DEF KeptOrNew
  <2>6. Accounted(q)
    BY <1>1, <1>3, <2>3, <2>5, <2>7, BecomesAccounted
  <2> QED
    BY <2>6 DEF q
<1> QED
  BY <1>5, <1>6

\* The library's SetToSeq lists a finite set.
LEMMA ListOfKeys == DraftEditor!SetToSeq(Keys) \in Seq(Keys)
<1> DEFINE n == Cardinality(Keys)
           lists == {f \in [1..n -> Keys] : DraftEditor!IsInjective(f)}
<1>1. n \in Nat /\ ExistsBijection(1..n, Keys)
  BY KeysFinite, FS_CardinalityType
<1>2. PICK f : f \in [1..n -> Keys] /\ \A a, b \in 1..n : f[a] = f[b] => a = b
  BY <1>1 DEF ExistsBijection, Bijection, Injection, IsInjective
<1>3. DOMAIN f = 1..n
  BY <1>2
<1>4. f \in [1..n -> Keys] /\ DraftEditor!IsInjective(f)
  BY <1>2, <1>3 DEF DraftEditor!IsInjective
<1>5. DraftEditor!SetToSeq(Keys) = CHOOSE g \in [1..n -> Keys] : DraftEditor!IsInjective(g)
  BY SameCardinality DEF DraftEditor!SetToSeq
<1>6. DraftEditor!SetToSeq(Keys) \in [1..n -> Keys]
  BY <1>4, <1>5
<1> QED
  BY <1>1, <1>6

ToUpload == [key : Keys, file : Nat \ {0}, previous : Nat]

DraftEditorInv ==
    /\ media \in Seq(Keys) /\ fileId \in [Keys -> Nat] /\ picks \in Nat
    /\ uploads \subseteq ToUpload
    /\ mounted => Accounted(previews)

\* The drawer that opens keeps its invariant.
LEMMA DraftEditorInitInv == DraftEditor!Init => DraftEditorInv
<1> SUFFICES ASSUME DraftEditor!Init PROVE DraftEditorInv
  OBVIOUS
<1>1. media \in Seq(Keys) /\ fileId \in [Keys -> Nat]
  <2>0. MaxPicks \in Nat /\ DraftEditor!Saved \in Nat /\ DraftEditor!NoFile \in Nat
    BY PartsAssumption DEF DraftEditor!DraftEditorAssumption, DraftEditor!Saved, DraftEditor!NoFile
  <2>1. CASE DraftEditor!OpenDraft
    BY <2>0, <2>1 DEF DraftEditor!OpenDraft
  <2>2. CASE DraftEditor!loadStore
    BY <2>0, <2>2, ListOfKeys DEF DraftEditor!loadStore
  <2> QED
    BY <2>1, <2>2 DEF DraftEditor!Init
<1> DEFINE K == DraftEditor!Range(media)
           given == {k \in K : fileId[k] # 0}
           p == DraftEditor!showFiles(K, fileId)
<1>2. K \subseteq Keys
  BY <1>1 DEF DraftEditor!Range
<1>3. /\ p.urls = [k \in Keys |-> 0] /\ p.errors = {} /\ p.live = 0
      /\ p.generations = [k \in Keys |-> IF k \in K THEN 1 ELSE 0]
      /\ p.requests = [k \in Keys |-> IF k \in given THEN 1 ELSE 0]
      /\ p.wanted = [k \in Keys |-> IF k \in K THEN fileId[k] ELSE 0]
      /\ p.downloads = {DraftEditor!Download(k, 1, fileId[k]) : k \in given}
      /\ p = [urls |-> p.urls, errors |-> p.errors, live |-> p.live, requests |-> p.requests,
              generations |-> p.generations, downloads |-> p.downloads, wanted |-> p.wanted]
  <2> DEFINE explicit ==
        [urls |-> [k \in Keys |-> 0], errors |-> {}, live |-> 0,
         requests |-> [k \in Keys |-> IF k \in given THEN 1 ELSE 0],
         generations |-> [k \in Keys |-> IF k \in K THEN 1 ELSE 0],
         downloads |-> {DraftEditor!Download(k, 1, fileId[k]) : k \in given},
         wanted |-> [k \in Keys |-> IF k \in K THEN fileId[k] ELSE 0]]
  <2>1. p = explicit
    BY DEF DraftEditor!showFiles, DraftEditor!NoFile
  <2> HIDE DEF p
  <2> QED
    BY <2>1
<1>4. \A k \in given : /\ DraftEditor!Download(k, 1, fileId[k]) \in Downloads
                       /\ DraftEditor!Download(k, 1, fileId[k]).key = k
                       /\ DraftEditor!Download(k, 1, fileId[k]).generation = 1
                       /\ DraftEditor!Download(k, 1, fileId[k]).file = fileId[k]
                       /\ ~DraftEditor!Download(k, 1, fileId[k]).aborted
  BY <1>1, <1>2 DEF DraftEditor!Download, Downloads
<1> HIDE DEF p
<1>5. p.downloads \subseteq Downloads
  BY <1>3, <1>4
<1>6. /\ p.urls \in [Keys -> Nat] /\ p.requests \in [Keys -> Nat] /\ p.generations \in [Keys -> Nat]
      /\ p.wanted \in [Keys -> Nat]
  BY <1>1, <1>2, <1>3
<1>7. p \in Previews
  BY <1>3, <1>5, <1>6 DEF Previews
<1>8. /\ \A d \in p.downloads : d.generation <= p.generations[d.key]
      /\ \A d \in p.downloads : d.file = p.wanted[d.key]
      /\ \A d \in p.downloads : ~d.aborted
  BY <1>2, <1>3, <1>4
<1>9. Shown(p.urls) = {}
  BY <1>3 DEF Shown, DraftEditor!NoFile
<1>10. p.live = Cardinality(Shown(p.urls))
  BY <1>3, <1>9, FS_EmptySet
<1>11. /\ \A k \in Keys : p.requests[k] \in {0, p.generations[k]}
       /\ \A k \in Keys : p.requests[k] = 0 => p.urls[k] = p.wanted[k]
  BY <1>1, <1>2, <1>3
<1>12. Accounted(p)
  BY <1>7, <1>8, <1>10, <1>11 DEF Accounted
<1> QED
  BY <1>1, <1>12 DEF DraftEditor!Init, DraftEditorInv, p

\* So does every pick, removal, answer and upload.
LEMMA DraftEditorStepInv == ASSUME DraftEditorInv, DraftEditor!Next PROVE DraftEditorInv'
<1>t. /\ media \in Seq(Keys) /\ fileId \in [Keys -> Nat] /\ picks \in Nat /\ uploads \subseteq ToUpload
      /\ mounted => Accounted(previews)
      /\ \A i \in DraftEditor!Places : media[i] \in Keys
      /\ 0 \in Nat
  BY DEF DraftEditorInv, DraftEditor!Places
<1>u. \A u \in uploads : u.key \in Keys /\ u.file \in Nat \ {0} /\ u.previous \in Nat
  BY <1>t DEF ToUpload
<1>1. ASSUME NEW k \in Keys, DraftEditor!addMedia(k) PROVE DraftEditorInv'
  BY <1>t, <1>1 DEF DraftEditor!addMedia, DraftEditorInv
<1>2. ASSUME NEW i \in DraftEditor!Places, DraftEditor!removeMedia(i) PROVE DraftEditorInv'
  <2>1. DraftEditor!RemoveAt(media, i) \in Seq(Keys)
    BY <1>t DEF DraftEditor!RemoveAt, DraftEditor!Places
  <2>2. Accounted(previews')
    BY <1>t, <1>2, ClearPreviewAccounted DEF DraftEditor!removeMedia
  <2> QED
    BY <1>t, <1>2, <2>1, <2>2 DEF DraftEditor!removeMedia, DraftEditorInv
<1>3. ASSUME NEW i \in DraftEditor!Places, DraftEditor!Clear(i) PROVE DraftEditorInv'
  <2>1. Accounted(previews')
    BY <1>t, <1>3, ClearPreviewAccounted DEF DraftEditor!Clear
  <2> QED
    BY <1>t, <1>3, <2>1 DEF DraftEditor!Clear, DraftEditor!NoFile, DraftEditorInv
<1>4. ASSUME NEW i \in DraftEditor!Places, DraftEditor!Upload(i) PROVE DraftEditorInv'
  <2>1. picks' \in Nat \ {0}
    BY <1>t, <1>4 DEF DraftEditor!Upload
  <2>2. Accounted(previews')
    BY <1>t, <1>4, <2>1, ShowFileAccounted DEF DraftEditor!Upload
  <2>3. [key |-> media[i], file |-> picks', previous |-> fileId[media[i]]] \in ToUpload
    BY <1>t, <2>1 DEF ToUpload
  <2> QED
    BY <1>t, <1>4, <2>1, <2>2, <2>3 DEF DraftEditor!Upload, DraftEditorInv
<1>5. ASSUME NEW u \in uploads, DraftEditor!Uploaded(u) PROVE DraftEditorInv'
  BY <1>t, <1>u, <1>5 DEF DraftEditor!Uploaded, DraftEditorInv
<1>6. ASSUME NEW u \in uploads, DraftEditor!UploadFailed(u) PROVE DraftEditorInv'
  <2>1. mounted => Accounted(previews')
    BY <1>t, <1>u, <1>6, ShowFileIdAccounted DEF DraftEditor!UploadFailed
  <2> QED
    BY <1>t, <1>u, <1>6, <2>1 DEF DraftEditor!UploadFailed, DraftEditorInv
<1>7. ASSUME NEW d \in previews.downloads, DraftEditor!DownloadEnds(d) PROVE DraftEditorInv'
  <2>1. mounted => Accounted(previews')
    BY <1>t, <1>7, DownloadedAccounted, DownloadFailedAccounted DEF DraftEditor!DownloadEnds
  <2> QED
    BY <1>t, <1>7, <2>1 DEF DraftEditor!DownloadEnds, DraftEditorInv
<1>8. CASE DraftEditor!Unmount
  BY <1>t, <1>8 DEF DraftEditor!Unmount, DraftEditorInv
<1> QED
  BY <1>1, <1>2, <1>3, <1>4, <1>5, <1>6, <1>7, <1>8
     DEF DraftEditor!Next, DraftEditor!clearFile, DraftEditor!clearStoreImage,
         DraftEditor!registerFile, DraftEditor!uploadStoreImage

\* The invariant of the drawer accounts for its previews.
LEMMA DraftEditorInvSuffices == DraftEditorInv => PreviewsAccountedFor
<1> SUFFICES ASSUME DraftEditorInv, mounted
             PROVE  /\ previews.live = Cardinality({k \in Keys : previews.urls[k] # DraftEditor!NoFile})
                    /\ \A k \in Keys : previews.requests[k] = 0 /\ k \notin previews.errors =>
                         previews.urls[k] = previews.wanted[k]
  BY SameCardinality DEF PreviewsAccountedFor, DraftEditor!PreviewsAccountedFor
<1> QED
  BY DEF DraftEditorInv, Accounted, Shown
-----------------------------------------------------------------------------
(* Boards: every text is of the row that it is sent for, stored for or     *)
(* shown with, as long as no row was asked for or begun beside another     *)
(* request; and then the order board and the address book have one request *)
(* at a time, of the row they show.                                        *)
Posts == [op : {"idle", "open", "save", "ship", "other"}, at : {"none", "asked", "answered", "more"},
          of : Boards!Words, text : Boards!Words, here : BOOLEAN]
Waits(r) == boardRequest[r].op # "idle"
Asked(r, ops) == boardRequest[r].op \in ops
Fills(r) == Asked(r, {"open"}) /\ boardRequest[r].at = "more"
Crossed == board \in {"orders", "afterSales", "addresses"} /\ crossed
Own(text, o) == text \in {o, Blank}

BoardTypes ==
    /\ board \in Boards!Boards
    /\ drawer \in [row : Boards!Words, text : Boards!Words] /\ note \in Boards!Words
    /\ notes \in [Texts -> Boards!Words] /\ boardRequest \in [Calls -> Posts]
    /\ \A r \in Calls :
         /\ Asked(r, {"open"}) => board \in Boards!Asking /\ boardRequest[r].of \in Texts
         /\ Asked(r, {"ship"}) => board = "orders"
         /\ Fills(r) => board = "orders"
         /\ boardRequest[r].at = "asked" => Asked(r, {"open", "save", "ship"})
         /\ ~Waits(r) => boardRequest[r] = Boards!Idle
         /\ Waits(r) /\ board # "afterSales" => boardRequest[r].here = TRUE
         /\ Asked(r, {"save", "ship"}) /\ board = "orders" => boardRequest[r].of \in Texts
    /\ board = "orders" /\ Boards!IsOpen => drawer.row \in Texts

TextsAreOwn ==
    /\ \A o \in Texts : Own(notes[o], o)
    /\ \A r \in Calls : Own(boardRequest[r].text, boardRequest[r].of)
    /\ Own(drawer.text, drawer.row)

\* Whoever asks for a row has no row, and nothing else to wait for.
OpensAlone ==
    \A r \in Calls : Asked(r, {"open"}) /\ boardRequest[r].at # "more" =>
        ~Boards!IsOpen /\ \A q \in Calls : Waits(q) => q = r

\* The order board waits for one request, of the order it shows.
OneOrderAtATime ==
    /\ \A r, q \in Calls : Waits(r) => boardBusy = TRUE /\ (Waits(q) => q = r)
    /\ \A r \in Calls :
         /\ Asked(r, {"save", "ship"}) \/ Fills(r) =>
              (Boards!IsOpen => drawer.row = boardRequest[r].of)
         /\ Asked(r, {"ship"}) => Own(note, boardRequest[r].of)
    /\ Boards!IsOpen =>
         Own(note, drawer.row) \/ \E r \in Calls : Fills(r)

\* So does the address book, whose form is empty when it is closed.
OneAddressAtATime ==
    /\ \A r, q \in Calls : Waits(r) => boardBusy = TRUE /\ (Waits(q) => q = r)
    /\ \A r \in Calls : Asked(r, {"save"}) /\ Boards!IsOpen => drawer.row = boardRequest[r].of
    /\ Boards!IsOpen => Own(note, drawer.row)
    /\ ~Boards!IsOpen => note = Blank

NoteIsOwn ==
    CASE board = "orders" -> OneOrderAtATime
      [] board = "addresses" -> OneAddressAtATime
      [] board = "afterSales" -> Own(note, drawer.row)
      [] board = "reconciliation" -> TRUE
      [] OTHER -> Boards!IsOpen => Own(note, drawer.row)

BoardsInv ==
    /\ BoardTypes
    /\ ~Crossed => TextsAreOwn /\ NoteIsOwn
    /\ ~Crossed /\ board \in {"orders", "afterSales"} => OpensAlone

\* What a row of requests and a drawer are made of.
LEMMA BoardsTypes ==
    /\ Boards!Idle \in Posts /\ Boards!Idle.op = "idle" /\ Boards!Idle.at = "none"
    /\ Boards!Idle.text = Blank /\ Boards!Idle.of = Blank
    /\ Boards!Closed \in [row : Boards!Words, text : Boards!Words]
    /\ Boards!Closed.row = Blank /\ Boards!Closed.text = Blank
    /\ New \notin Texts /\ Blank \notin Texts /\ New # Blank
BY PartsAssumption DEF Boards!BoardsAssumption, Boards!Idle, Boards!Closed, Boards!Words, Posts

\* Every page starts with its list.
LEMMA BoardsInitInv == Boards!Init => BoardsInv
<1> SUFFICES ASSUME Boards!Init PROVE BoardsInv
  OBVIOUS
<1>1. /\ board \in Boards!Boards /\ drawer = Boards!Closed /\ note = Blank
      /\ boardRequest = [r \in Calls |-> Boards!Idle] /\ notes \in [Texts -> Boards!Words]
      /\ \A o \in Texts : Own(notes[o], o)
  BY DEF Boards!Init, Boards!Words, Own
<1>2. \A r \in Calls : boardRequest[r] = Boards!Idle
  BY <1>1
<1>3. Blank \in Boards!Words /\ ~Boards!IsOpen
  BY <1>1 DEF Boards!Words, Boards!IsOpen
<1>4. BoardTypes
  BY <1>1, <1>2, <1>3, BoardsTypes DEF BoardTypes, Asked, Waits, Fills
<1>5. TextsAreOwn
  BY <1>1, <1>2, BoardsTypes DEF TextsAreOwn, Own
<1>6. NoteIsOwn /\ OpensAlone
  BY <1>1, <1>2, <1>3, BoardsTypes DEF NoteIsOwn, OneOrderAtATime, OneAddressAtATime, OpensAlone, Own, Asked, Waits, Fills
<1> QED
  BY <1>4, <1>5, <1>6 DEF BoardsInv

\* A row is asked for.
LEMMA BoardOpenInv == ASSUME BoardsInv, NEW r \in Calls, NEW o \in Texts, Boards!open(r, o) PROVE BoardsInv'
<1> DEFINE new == [op |-> "open", at |-> "asked", of |-> o, text |-> Blank, here |-> TRUE]
<1>1. /\ board \in Boards!Asking /\ ~Boards!IsOpen /\ boardRequest[r] = Boards!Idle
      /\ boardRequest' = [boardRequest EXCEPT ![r] = new]
      /\ boardBusy' = (board \in Boards!Waiting)
      /\ crossed' = (crossed \/ Boards!UnderWay # {})
      /\ UNCHANGED <<board, notes, drawer, note>>
  BY DEF Boards!open, Boards!Asks
<1>2. new \in Posts /\ new.op = "open" /\ new.at = "asked" /\ new.of = o /\ new.text = Blank /\ new.here = TRUE
  BY DEF Posts, Boards!Words
<1> HIDE DEF new
<1>3. /\ boardRequest' \in [Calls -> Posts] /\ boardRequest'[r] = new
      /\ \A q \in Calls : q # r => boardRequest'[q] = boardRequest[q]
  BY <1>1, <1>2 DEF BoardsInv, BoardTypes
<1>4. BoardTypes'
  BY <1>1, <1>2, <1>3 DEF BoardsInv, BoardTypes, Asked, Waits, Fills, Boards!IsOpen
<1>5. ASSUME ~Crossed' PROVE TextsAreOwn' /\ NoteIsOwn' /\ (board' \in {"orders", "afterSales"} => OpensAlone')
  <2>1. TextsAreOwn /\ NoteIsOwn
    BY <1>1, <1>5 DEF BoardsInv, Crossed
  <2>2. TextsAreOwn'
    BY <1>1, <1>2, <1>3, <2>1 DEF TextsAreOwn, Own
  <2>3. board \in {"orders", "afterSales"} => \A q \in Calls : ~Waits(q)
    BY <1>1, <1>5, BoardsTypes DEF Crossed, Boards!UnderWay, Waits
  <2>4. board' \in {"orders", "afterSales"} => OpensAlone'
    BY <1>1, <1>2, <1>3, <2>3 DEF OpensAlone, Asked, Waits, Boards!IsOpen
  <2>5. CASE board = "orders"
    <3>1. boardBusy' = TRUE
      BY <1>1, <2>5 DEF Boards!Waiting, Boards!Boards
    <3>2. OneOrderAtATime'
      BY <1>1, <1>2, <1>3, <2>3, <2>5, <3>1 DEF OneOrderAtATime, Asked, Waits, Fills, Boards!IsOpen
    <3> QED
      BY <1>1, <2>2, <2>4, <2>5, <3>2 DEF NoteIsOwn
  <2>6. CASE board # "orders"
    <3>1. board # "addresses"
      BY <1>1 DEF Boards!Asking
    <3> QED
      BY <1>1, <2>1, <2>2, <2>4, <2>6, <3>1 DEF NoteIsOwn, Boards!IsOpen, Own
  <2> QED
    BY <2>5, <2>6
<1> QED
  BY <1>4, <1>5 DEF BoardsInv

\* A row of the list, or nothing yet, is put into the form.
LEMMA BoardFormInv ==
    ASSUME BoardsInv, (\E o \in Texts : Boards!openListed(o)) \/ Boards!create PROVE BoardsInv'
<1> DEFINE Put(o, text) ==
      /\ board \in {"products", "team", "addresses"}
      /\ drawer' = [row |-> o, text |-> text] /\ note' = text
      /\ text = Blank \/ (o \in Texts /\ text = notes[o])
      /\ UNCHANGED <<board, boardBusy, boardRequest, notes>>
      /\ \/ crossed'
         \/ ~crossed /\ (board = "addresses" /\ boardBusy => \A r \in Calls : ~Asked(r, {"save"}))
<1>1. PICK o \in Texts \cup {New}, text \in Boards!Words : Put(o, text)
  <2>1. ASSUME NEW o \in Texts, Boards!openListed(o) PROVE notes[o] \in Boards!Words /\ Put(o, notes[o])
    BY <2>1 DEF Boards!openListed, Boards!Shows, Boards!Forms, Boards!Asking, Boards!Boards, BoardsInv, BoardTypes
  <2>2. ASSUME Boards!create PROVE Blank \in Boards!Words /\ Put(New, Blank)
    BY <2>2 DEF Boards!create, Boards!Shows, Boards!Forms, Boards!Words, Asked
  <2> QED
    BY <2>1, <2>2
<1>2. BoardTypes'
  BY <1>1 DEF BoardsInv, BoardTypes, Asked, Waits, Fills, Boards!IsOpen, Boards!Words
<1>3. ASSUME ~Crossed' PROVE TextsAreOwn' /\ NoteIsOwn'
  <2>1. TextsAreOwn /\ NoteIsOwn
    <3>1. ~Crossed
      <4>1. board' = board /\ (crossed' \/ ~crossed)
        BY <1>1, Zenon
      <4> QED
        BY <1>3, <4>1, Zenon DEF Crossed
    <3> QED
      BY <3>1 DEF BoardsInv
  <2>2. TextsAreOwn'
    BY <1>1, <2>1 DEF TextsAreOwn, Own
  <2>3. board # "addresses" => NoteIsOwn'
    BY <1>1, <2>1 DEF NoteIsOwn, Own, TextsAreOwn
  <2>4. board = "addresses" => OneAddressAtATime'
    <3> SUFFICES ASSUME board = "addresses" PROVE OneAddressAtATime'
      OBVIOUS
    <3>1. OneAddressAtATime
      BY <2>1 DEF NoteIsOwn
    <3>2. \A r \in Calls : ~Asked(r, {"save"})
      BY <1>1, <1>3, <3>1 DEF Crossed, OneAddressAtATime, Asked, Waits
    <3>3. drawer'.row = o /\ Boards!IsOpen' /\ Own(text, o)
      BY <1>1, <2>1, BoardsTypes DEF Boards!IsOpen, TextsAreOwn, Own
    <3> QED
      BY <1>1, <3>1, <3>2, <3>3 DEF OneAddressAtATime, Asked, Waits, Own
  <2> QED
    BY <1>1, <2>2, <2>3, <2>4 DEF NoteIsOwn
<1> QED
  BY <1>1, <1>2, <1>3 DEF BoardsInv

\* Types are kept where requests, the page and what is stored are.
LEMMA BoardTypesKept ==
    ASSUME BoardTypes, UNCHANGED <<board, notes, boardRequest>>, note' \in Boards!Words,
           drawer' \in {drawer, Boards!Closed}
    PROVE  BoardTypes'
BY BoardsTypes DEF BoardTypes, Asked, Waits, Fills, Boards!IsOpen

\* The drawer is closed, or written in.
LEMMA BoardDrawerInv == ASSUME BoardsInv, Boards!close \/ Boards!Types PROVE BoardsInv'
<1>t. Blank \in Boards!Words /\ BoardTypes
  BY DEF Boards!Words, BoardsInv
<1>1. /\ \/ drawer' = Boards!Closed
            /\ note' = IF board \in {"orders", "afterSales", "addresses"} THEN Blank ELSE note
         \/ drawer' = drawer /\ note' = drawer.row
      /\ Boards!IsOpen
      /\ UNCHANGED <<board, boardBusy, boardRequest, notes, crossed>>
  BY DEF Boards!close, Boards!closeDrawer, Boards!Types
<1>2. BoardTypes'
  <2>1. note' \in Boards!Words
    BY <1>t, <1>1 DEF BoardTypes
  <2> QED
    BY <1>t, <1>1, <2>1, BoardTypesKept
<1>3. ASSUME ~Crossed' PROVE TextsAreOwn' /\ NoteIsOwn' /\ (board' \in {"orders", "afterSales"} => OpensAlone')
  <2>1. TextsAreOwn /\ NoteIsOwn /\ (board \in {"orders", "afterSales"} => OpensAlone)
    BY <1>1, <1>3 DEF BoardsInv, Crossed
  <2>2. TextsAreOwn'
    BY <1>1, <2>1, BoardsTypes DEF TextsAreOwn, Own
  <2>3. board \in {"orders", "afterSales"} => OpensAlone'
    BY <1>1, <2>1 DEF OpensAlone, Asked, Waits, Boards!IsOpen
  <2>4. board = "orders" => OneOrderAtATime'
    <3> SUFFICES ASSUME board = "orders" PROVE OneOrderAtATime'
      OBVIOUS
    <3>1. OneOrderAtATime
      BY <2>1 DEF NoteIsOwn
    <3>2. CASE drawer' = Boards!Closed /\ note' = Blank
      BY <1>1, <3>1, <3>2, BoardsTypes DEF OneOrderAtATime, Asked, Waits, Fills, Boards!IsOpen, Own
    <3>3. CASE drawer' = drawer /\ note' = drawer.row
      BY <1>1, <3>1, <3>3 DEF OneOrderAtATime, Asked, Waits, Fills, Boards!IsOpen, Own
    <3> QED
      BY <1>1, <3>2, <3>3
  <2>5. board \notin {"orders", "addresses"} => NoteIsOwn'
    BY <1>1, <2>1, BoardsTypes DEF NoteIsOwn, Own, Boards!IsOpen
  <2>6. board = "addresses" => OneAddressAtATime'
    <3>1. board = "addresses" => OneAddressAtATime
      BY <2>1 DEF NoteIsOwn
    <3> QED
      BY <1>1, <3>1, BoardsTypes DEF OneAddressAtATime, Waits, Asked, Own, Boards!IsOpen
  <2> QED
    BY <1>1, <2>2, <2>3, <2>4, <2>5, <2>6 DEF NoteIsOwn
<1> QED
  BY <1>2, <1>3 DEF BoardsInv

\* What the invariant says once it is known that nothing has been crossed.
LEMMA BoardUncrossed ==
    ASSUME BoardsInv, ~Crossed
    PROVE  /\ TextsAreOwn /\ NoteIsOwn /\ (board \in {"orders", "afterSales"} => OpensAlone)
           /\ board = "orders" => OneOrderAtATime
           /\ board = "addresses" => OneAddressAtATime
           /\ board = "afterSales" => Own(note, drawer.row)
BY DEF BoardsInv, NoteIsOwn

\* Request r becomes new.
Proceeds(r, new) ==
    /\ boardRequest' = [boardRequest EXCEPT ![r] = new] /\ new \in Posts
    /\ \/ new = Boards!Idle
       \/ /\ Waits(r) /\ new.op = boardRequest[r].op /\ new.of = boardRequest[r].of
          /\ new.here = boardRequest[r].here
          /\ new.at = "answered" \/ (new.at = "more" /\ (board = "orders" \/ new.op # "open"))

\* Types are kept when a request goes on or ends, whatever is shown then.
LEMMA BoardTypesStep ==
    ASSUME BoardTypes, NEW r \in Calls, NEW new, Proceeds(r, new),
           board' = board, note' \in Boards!Words, notes' \in [Texts -> Boards!Words],
           drawer' \in [row : Boards!Words, text : Boards!Words],
           board = "orders" /\ drawer' # Boards!Closed => drawer'.row \in Texts
    PROVE  BoardTypes' /\ boardRequest'[r] = new /\ \A q \in Calls : q # r => boardRequest'[q] = boardRequest[q]
<1>1. /\ boardRequest' \in [Calls -> Posts] /\ boardRequest'[r] = new
      /\ \A q \in Calls : q # r => boardRequest'[q] = boardRequest[q]
  BY DEF Proceeds, BoardTypes
<1>2. new = Boards!Idle => new.op = "idle" /\ new.at = "none"
  BY DEF Boards!Idle
<1>3. ASSUME NEW q \in Calls
      PROVE  /\ Asked(q, {"open"})' => board \in Boards!Asking /\ boardRequest'[q].of \in Texts
             /\ Asked(q, {"ship"})' => board = "orders"
             /\ Fills(q)' => board = "orders"
             /\ boardRequest'[q].at = "asked" => Asked(q, {"open", "save", "ship"})'
             /\ ~Waits(q)' => boardRequest'[q] = Boards!Idle
             /\ Waits(q)' /\ board # "afterSales" => boardRequest'[q].here = TRUE
             /\ Asked(q, {"save", "ship"})' /\ board = "orders" => boardRequest'[q].of \in Texts
  <2>1. CASE q = r
    BY <1>1, <1>2, <2>1 DEF Proceeds, BoardTypes, Asked, Waits, Fills
  <2>2. CASE q # r
    BY <1>1, <2>2 DEF BoardTypes, Asked, Waits, Fills
  <2> QED
    BY <2>1, <2>2
<1> QED
  BY <1>1, <1>3 DEF BoardTypes, Boards!IsOpen, Asked, Waits, Fills

\* The server stores a text, or reads the text of a row.
LEMMA BoardServedInv == ASSUME BoardsInv, NEW r \in Calls, Boards!Served(r) PROVE BoardsInv'
<1> DEFINE post == boardRequest[r]
           new == IF post.op = "save" THEN [post EXCEPT !.at = "answered"]
                                      ELSE [post EXCEPT !.at = "answered", !.text = notes[post.of]]
<1>t. BoardTypes /\ post \in Posts /\ post.at = "asked" /\ Asked(r, {"open", "save", "ship"})
  BY DEF BoardsInv, BoardTypes, Boards!Served
<1>1. /\ boardRequest' = [boardRequest EXCEPT ![r] = new]
      /\ notes' = IF post.op = "save" THEN [o \in Texts |-> IF o = post.of THEN post.text ELSE notes[o]] ELSE notes
      /\ UNCHANGED <<board, drawer, note, boardBusy, crossed>>
  BY <1>t DEF Boards!Served, BoardTypes, Posts
<1>2. post.op # "save" => post.of \in Texts /\ notes[post.of] \in Boards!Words
  BY <1>t DEF BoardTypes, Asked
<1>3. /\ new \in Posts /\ new.op = post.op /\ new.of = post.of /\ new.at = "answered"
      /\ new.text = (IF post.op = "save" THEN post.text ELSE notes[post.of]) /\ new.here = post.here
  BY <1>t, <1>2 DEF Posts
<1> HIDE DEF new
<1>4. Proceeds(r, new)
  BY <1>t, <1>1, <1>3 DEF Proceeds, Asked, Waits
<1>5. notes' \in [Texts -> Boards!Words] /\ post.text \in Boards!Words
  BY <1>t, <1>1 DEF BoardTypes, Posts
<1>6. /\ BoardTypes' /\ boardRequest'[r] = new /\ \A q \in Calls : q # r => boardRequest'[q] = boardRequest[q]
  BY <1>t, <1>1, <1>4, <1>5, BoardTypesStep DEF BoardTypes, Boards!IsOpen
<1>7. ASSUME ~Crossed' PROVE TextsAreOwn' /\ NoteIsOwn' /\ (board' \in {"orders", "afterSales"} => OpensAlone')
  <2>1. /\ TextsAreOwn /\ NoteIsOwn /\ (board \in {"orders", "afterSales"} => OpensAlone)
        /\ board = "orders" => OneOrderAtATime
        /\ board = "addresses" => OneAddressAtATime
        /\ board = "afterSales" => Own(note, drawer.row)
    <3>1. ~Crossed
      BY <1>1, <1>7 DEF Crossed
    <3> QED
      BY <3>1, BoardUncrossed
  <2>2. TextsAreOwn'
    <3>1. \A o \in Texts : Own(notes'[o], o)
      BY <1>t, <1>1, <2>1 DEF TextsAreOwn, Own, BoardTypes
    <3>2. Own(new.text, new.of)
      BY <1>2, <1>3, <2>1 DEF TextsAreOwn, Own
    <3> QED
      BY <1>1, <1>6, <2>1, <3>1, <3>2 DEF TextsAreOwn, Own
  <2>3. board \in {"orders", "afterSales"} => OpensAlone'
    BY <1>t, <1>1, <1>3, <1>6, <2>1 DEF OpensAlone, Asked, Waits, Boards!IsOpen
  <2>4. board = "orders" => OneOrderAtATime'
    BY <1>t, <1>1, <1>3, <1>6, <2>1 DEF OneOrderAtATime, Asked, Waits, Fills, Boards!IsOpen, Own
  <2>5. board \notin {"orders", "addresses"} => NoteIsOwn'
    BY <1>1, <2>1 DEF NoteIsOwn, Own, Boards!IsOpen
  <2>6. board = "addresses" => OneAddressAtATime'
    BY <1>1, <1>3, <1>6, <2>1 DEF OneAddressAtATime, Waits, Asked, Own, Boards!IsOpen
  <2> QED
    BY <1>1, <2>2, <2>3, <2>4, <2>5, <2>6 DEF NoteIsOwn
<1> QED
  BY <1>6, <1>7 DEF BoardsInv

\* The form is sent again: it is that of the same row, or empty.
LEMMA BoardSentAgainInv == ASSUME BoardsInv, NEW r \in Calls, Boards!SentAgain(r) PROVE BoardsInv'
<1> DEFINE new == [boardRequest[r] EXCEPT !.text = note]
<1>t. /\ BoardTypes /\ boardRequest[r] \in Posts /\ note \in Boards!Words
      /\ Asked(r, {"save"}) /\ Waits(r) /\ board = "addresses"
  BY DEF BoardsInv, BoardTypes, Boards!SentAgain, Asked, Waits
<1>1. /\ boardRequest' = [boardRequest EXCEPT ![r] = new]
      /\ UNCHANGED <<board, drawer, note, boardBusy, notes, crossed>>
  BY <1>t DEF Boards!SentAgain, BoardTypes, Posts
<1>2. /\ new \in Posts /\ new.op = boardRequest[r].op /\ new.of = boardRequest[r].of
      /\ new.at = boardRequest[r].at /\ new.here = boardRequest[r].here /\ new.text = note
  BY <1>t DEF Posts
<1> HIDE DEF new
<1>3. /\ boardRequest' \in [Calls -> Posts] /\ boardRequest'[r] = new
      /\ \A q \in Calls : q # r => boardRequest'[q] = boardRequest[q]
  BY <1>t, <1>1, <1>2 DEF BoardTypes
<1>4. BoardTypes'
  BY <1>t, <1>1, <1>2, <1>3 DEF BoardTypes, Asked, Waits, Fills, Boards!IsOpen
<1>5. ASSUME ~Crossed' PROVE TextsAreOwn' /\ OneAddressAtATime'
  <2>1. TextsAreOwn /\ OneAddressAtATime
    <3>1. ~Crossed
      BY <1>1, <1>5 DEF Crossed
    <3> QED
      BY <1>t, <3>1, BoardUncrossed
  <2>2. Own(new.text, new.of)
    BY <1>t, <1>2, <2>1 DEF OneAddressAtATime, Own
  <2>3. TextsAreOwn'
    BY <1>1, <1>3, <2>1, <2>2 DEF TextsAreOwn, Own
  <2>4. OneAddressAtATime'
    BY <1>1, <1>2, <1>3, <2>1 DEF OneAddressAtATime, Waits, Asked, Own, Boards!IsOpen
  <2> QED
    BY <2>3, <2>4
<1> QED
  BY <1>t, <1>1, <1>4, <1>5 DEF BoardsInv, NoteIsOwn

\* Request r has ended.
Ends(r) ==
    /\ boardRequest' = [boardRequest EXCEPT ![r] = Boards!Idle]
    /\ UNCHANGED <<board, notes>>

\* A request that has ended does not wait, and the others are as they were.
LEMMA BoardEnds ==
    ASSUME BoardTypes, NEW r \in Calls, Ends(r)
    PROVE  /\ Proceeds(r, Boards!Idle)
           /\ ~Waits(r)' /\ \A q \in Calls : q # r => boardRequest'[q] = boardRequest[q]
BY BoardsTypes DEF BoardTypes, Ends, Proceeds, Waits

\* Nobody waits at the order board, and what is written there is of the row shown.
LEMMA OneOrderEnds ==
    ASSUME BoardTypes, NEW r \in Calls, Ends(r), \A q \in Calls : Waits(q) => q = r,
           drawer' # Boards!Closed => Own(note', drawer'.row)
    PROVE  OneOrderAtATime' /\ OpensAlone'
<1>1. \A q \in Calls : ~Waits(q)'
  BY BoardEnds DEF Waits
<1> QED
  BY <1>1 DEF OneOrderAtATime, OpensAlone, Waits, Asked, Fills, Boards!IsOpen

\* Nor at the address book.
LEMMA OneAddressEnds ==
    ASSUME BoardTypes, NEW r \in Calls, Ends(r), Waits(r), OneAddressAtATime,
           (drawer' = drawer /\ note' = note) \/ (drawer' = Boards!Closed /\ note' = Blank)
    PROVE  OneAddressAtATime'
<1>1. \A q \in Calls : ~Waits(q)'
  BY BoardEnds DEF Waits, OneAddressAtATime
<1> QED
  BY <1>1, BoardsTypes DEF OneAddressAtATime, Waits, Asked, Own, Boards!IsOpen

\* Whoever asks for a row still has none, and waits for nothing else.
LEMMA OpensAloneEnds ==
    ASSUME BoardTypes, OpensAlone, NEW r \in Calls, Ends(r),
           drawer' \in {drawer, Boards!Closed} \/ \A q \in Calls : Waits(q) => q = r
    PROVE  OpensAlone'
BY BoardEnds DEF OpensAlone, Waits, Asked, Boards!IsOpen

\* The texts are still of their rows.
LEMMA TextsEnd ==
    ASSUME BoardTypes, TextsAreOwn, NEW r \in Calls, Ends(r), Own(drawer'.text, drawer'.row)
    PROVE  TextsAreOwn'
<1>1. Own(boardRequest'[r].text, boardRequest'[r].of)
  BY BoardsTypes DEF BoardTypes, Ends, Own
<1> QED
  BY <1>1, BoardEnds DEF TextsAreOwn, Ends, Own

\* A request fails, or is forgotten: it ends, and the order board may fill in its form.
LEMMA BoardFailsInv ==
    ASSUME BoardsInv, NEW r \in Calls, Boards!Fails(r) \/ Boards!Forgotten(r) PROVE BoardsInv'
<1> DEFINE post == boardRequest[r]
<1>t. BoardTypes /\ post \in Posts /\ note \in Boards!Words /\ drawer.text \in Boards!Words /\ post.text \in Boards!Words
  BY DEF BoardsInv, BoardTypes, Posts
<1>1. Ends(r) /\ drawer' = drawer /\ crossed' = crossed /\ board' = board
  BY DEF Boards!Fails, Boards!Forgotten, Boards!Ends, Ends
<1>2. \/ note' = note /\ (board = "orders" /\ Waits(r) => ~Fills(r) /\ ~Asked(r, {"open"}))
      \/ board = "orders" /\ Asked(r, {"open"}) /\ post.at # "more" /\ note' = drawer.text
      \/ board = "orders" /\ Asked(r, {"save"}) /\ note' \in {drawer.text, post.text}
  <2>1. CASE Boards!Fails(r)
    <3>1. post.at # "more"
      BY <2>1 DEF Boards!Fails
    <3>2. CASE board = "orders" /\ post.op = "open"
      BY <2>1, <3>1, <3>2 DEF Boards!Fails, Asked
    <3>3. CASE board = "orders" /\ post.op = "save"
      BY <2>1, <3>3 DEF Boards!Fails, Asked
    <3>4. CASE ~(board = "orders" /\ post.op \in {"open", "save"})
      <4>1. note' = note
        BY <2>1, <3>4 DEF Boards!Fails
      <4> QED
        BY <3>1, <3>4, <4>1 DEF Asked, Fills
    <3> QED
      BY <3>2, <3>3, <3>4
  <2>2. CASE Boards!Forgotten(r)
    BY <1>t, <2>2 DEF Boards!Forgotten, BoardTypes, Waits, Fills, Asked
  <2> QED
    BY <2>1, <2>2
<1>w. Waits(r)
  BY <1>t, BoardsTypes DEF Boards!Fails, Boards!Forgotten, BoardTypes
<1>3. BoardTypes'
  <2>1. note' \in Boards!Words
    BY <1>t, <1>2
  <2>2. Proceeds(r, Boards!Idle)
    BY <1>t, <1>1, BoardEnds
  <2> QED
    BY <1>t, <1>1, <2>1, <2>2, BoardTypesStep DEF BoardTypes, Ends, Boards!IsOpen
<1>4. ASSUME ~Crossed' PROVE TextsAreOwn' /\ NoteIsOwn' /\ (board' \in {"orders", "afterSales"} => OpensAlone')
  <2>1. /\ TextsAreOwn /\ NoteIsOwn /\ (board \in {"orders", "afterSales"} => OpensAlone)
        /\ board = "orders" => OneOrderAtATime
        /\ board = "addresses" => OneAddressAtATime
        /\ board = "afterSales" => Own(note, drawer.row)
    <3>1. ~Crossed
      BY <1>1, <1>4 DEF Crossed
    <3> QED
      BY <3>1, BoardUncrossed
  <2>2. TextsAreOwn'
    BY <1>t, <1>1, <2>1, TextsEnd DEF TextsAreOwn
  <2>3. board \in {"orders", "afterSales"} => OpensAlone'
    BY <1>t, <1>1, <2>1, OpensAloneEnds
  <2>4. board = "orders" => OneOrderAtATime'
    <3> SUFFICES ASSUME board = "orders" PROVE OneOrderAtATime'
      OBVIOUS
    <3>1. OneOrderAtATime /\ OpensAlone
      BY <2>1
    <3>2. \A q \in Calls : Waits(q) => q = r
      BY <1>w, <3>1 DEF OneOrderAtATime
    <3>3. ASSUME Boards!IsOpen PROVE Own(note', drawer.row)
      <4>1. CASE note' = note /\ ~Fills(r)
        BY <3>1, <3>2, <3>3, <4>1 DEF OneOrderAtATime, Fills, Asked, Waits
      <4>2. CASE Asked(r, {"open"}) /\ post.at # "more"
        BY <3>1, <3>3, <4>2 DEF OpensAlone
      <4>3. CASE Asked(r, {"save"}) /\ note' \in {drawer.text, post.text}
        BY <2>1, <3>1, <3>3, <4>3 DEF OneOrderAtATime, TextsAreOwn, Asked, Own
      <4> QED
        BY <1>2, <1>w, <4>1, <4>2, <4>3
    <3> QED
      BY <1>t, <1>1, <3>2, <3>3, OneOrderEnds DEF Boards!IsOpen
  <2>5. board \notin {"orders", "addresses"} => NoteIsOwn'
    BY <1>1, <1>2, <2>1 DEF NoteIsOwn, Own, Boards!IsOpen
  <2>6. board = "addresses" => OneAddressAtATime'
    BY <1>t, <1>w, <1>1, <1>2, <2>1, OneAddressEnds
  <2> QED
    BY <1>1, <2>2, <2>3, <2>4, <2>5, <2>6 DEF NoteIsOwn
<1> QED
  BY <1>3, <1>4 DEF BoardsInv

\* Request r asks for more.
GoesOn(r) == boardRequest' = [boardRequest EXCEPT ![r].at = "more"] /\ UNCHANGED <<board, boardBusy, notes>>

\* A request that goes on is the one that it was.
LEMMA BoardGoesOn ==
    ASSUME BoardTypes, NEW r \in Calls, GoesOn(r), Waits(r), board = "orders" \/ ~Asked(r, {"open"})
    PROVE  /\ Proceeds(r, boardRequest'[r])
           /\ boardRequest'[r].op = boardRequest[r].op /\ boardRequest'[r].of = boardRequest[r].of
           /\ boardRequest'[r].at = "more" /\ boardRequest'[r].text = boardRequest[r].text
           /\ \A q \in Calls : q # r => boardRequest'[q] = boardRequest[q]
<1> DEFINE new == [boardRequest[r] EXCEPT !.at = "more"]
<1>1. boardRequest[r] \in Posts
  BY DEF BoardTypes
<1>2. /\ new \in Posts /\ new.op = boardRequest[r].op /\ new.of = boardRequest[r].of /\ new.at = "more"
      /\ new.text = boardRequest[r].text /\ new.here = boardRequest[r].here
  BY <1>1 DEF Posts
<1>3. boardRequest' = [boardRequest EXCEPT ![r] = new]
  BY DEF GoesOn
<1> HIDE DEF new
<1>4. boardRequest'[r] = new /\ \A q \in Calls : q # r => boardRequest'[q] = boardRequest[q]
  BY <1>3 DEF BoardTypes
<1>5. Proceeds(r, new)
  BY <1>2, <1>3 DEF Proceeds, Asked
<1> QED
  BY <1>2, <1>4, <1>5

\* A row is shown that was asked for.
LEMMA BoardShownInv == ASSUME BoardsInv, NEW r \in Calls, Boards!Shown(r) PROVE BoardsInv'
<1> DEFINE post == boardRequest[r]
<1>t. /\ BoardTypes /\ post \in Posts /\ Asked(r, {"open"}) /\ Waits(r) /\ post.at = "answered"
      /\ post.of \in Texts /\ post.of \in Boards!Words /\ post.text \in Boards!Words /\ board \in Boards!Asking
  BY DEF BoardsInv, BoardTypes, Boards!Shown, Boards!Answers, Asked, Waits, Boards!Words, Posts
<1>1. /\ drawer' = [row |-> post.of, text |-> post.text] /\ crossed' = crossed /\ board' = board /\ notes' = notes
      /\ board = "reviews" => note' = Blank
      /\ board = "products" => note' = post.text
      /\ board \notin {"reviews", "products"} => note' = note
      /\ IF board = "orders" THEN GoesOn(r) ELSE Ends(r)
  BY DEF Boards!Shown, Boards!Shows, Boards!GoesOn, Boards!Ends, GoesOn, Ends
<1>2. \E new : Proceeds(r, new)
  BY <1>t, <1>1, BoardGoesOn, BoardEnds
<1>3. BoardTypes'
  <2>1. note' \in Boards!Words /\ Blank \in Boards!Words
    BY <1>t, <1>1 DEF BoardTypes, Boards!Words
  <2>2. drawer'.row = post.of /\ drawer' \in [row : Boards!Words, text : Boards!Words]
    BY <1>t, <1>1
  <2> QED
    BY <1>t, <1>1, <1>2, <2>1, <2>2, BoardTypesStep DEF BoardTypes
<1>4. ASSUME ~Crossed' PROVE TextsAreOwn' /\ NoteIsOwn' /\ (board' \in {"orders", "afterSales"} => OpensAlone')
  <2>1. /\ TextsAreOwn /\ NoteIsOwn /\ (board \in {"orders", "afterSales"} => OpensAlone)
        /\ board = "orders" => OneOrderAtATime
        /\ board = "addresses" => OneAddressAtATime
        /\ board = "afterSales" => Own(note, drawer.row)
    <3>1. ~Crossed
      BY <1>1, <1>4 DEF Crossed
    <3> QED
      BY <3>1, BoardUncrossed
  <2>2. Own(post.text, post.of) /\ drawer'.row = post.of /\ drawer'.text = post.text
    BY <1>1, <2>1 DEF TextsAreOwn
  <2>3. board \in {"orders", "afterSales"} => ~Boards!IsOpen /\ \A q \in Calls : Waits(q) => q = r
    BY <1>t, <2>1 DEF OpensAlone
  <2>4. CASE board = "orders"
    <3>1. GoesOn(r)
      BY <1>1, <2>4
    <3>2. /\ boardRequest'[r].op = "open" /\ boardRequest'[r].at = "more" /\ boardRequest'[r].of = post.of
          /\ boardRequest'[r].text = post.text
          /\ \A q \in Calls : q # r => boardRequest'[q] = boardRequest[q] /\ ~Waits(q)
      BY <1>t, <2>3, <2>4, <3>1, BoardGoesOn DEF Asked
    <3>3. boardBusy' = TRUE
      BY <1>t, <2>1, <2>4, <3>1 DEF OneOrderAtATime, GoesOn
    <3>4. OneOrderAtATime'
      BY <2>2, <3>2, <3>3 DEF OneOrderAtATime, Waits, Asked, Fills
    <3>5. OpensAlone'
      BY <3>2 DEF OpensAlone, Waits, Asked
    <3>6. TextsAreOwn'
      BY <1>1, <2>1, <2>2, <3>2 DEF TextsAreOwn, Own
    <3> QED
      BY <1>1, <2>4, <3>4, <3>5, <3>6 DEF NoteIsOwn
  <2>5. CASE board # "orders"
    <3>1. TextsAreOwn'
      BY <1>t, <1>1, <2>1, <2>2, <2>5, TextsEnd
    <3>2. board = "afterSales" => OpensAlone'
      BY <1>t, <1>1, <2>1, <2>3, <2>5, OpensAloneEnds
    <3>3. board = "afterSales" => note = Blank
      BY <2>1, <2>3, BoardsTypes DEF Own, Boards!IsOpen
    <3>4. NoteIsOwn'
      BY <1>t, <1>1, <2>2, <2>5, <3>3 DEF NoteIsOwn, Own, Boards!Asking
    <3> QED
      BY <1>1, <2>5, <3>1, <3>2, <3>4
  <2> QED
    BY <2>4, <2>5
<1> QED
  BY <1>3, <1>4 DEF BoardsInv

\* What was asked for more is here.
LEMMA BoardFollowsInv == ASSUME BoardsInv, NEW r \in Calls, Boards!Follows(r) PROVE BoardsInv'
<1>t. /\ BoardTypes /\ Waits(r) /\ boardRequest[r].at = "more" /\ note \in Boards!Words
      /\ drawer \in [row : Boards!Words, text : Boards!Words] /\ drawer.text \in Boards!Words
  BY BoardsTypes DEF BoardsInv, BoardTypes, Boards!Follows
<1>1. /\ Ends(r) /\ crossed' = crossed /\ board' = board
      /\ drawer' = drawer \/ (drawer' = Boards!Closed /\ board = "reconciliation")
      /\ note' = IF Fills(r) THEN drawer.text ELSE note
      /\ Fills(r) => board = "orders"
      /\ Fills(r) <=> Asked(r, {"open"})
  BY <1>t DEF Boards!Follows, Boards!Ends, Ends, Fills, Asked, BoardTypes
<1>3. BoardTypes'
  <2>1. note' \in Boards!Words /\ drawer' \in [row : Boards!Words, text : Boards!Words]
    BY <1>t, <1>1, BoardsTypes
  <2>2. Proceeds(r, Boards!Idle)
    BY <1>t, <1>1, BoardEnds
  <2> QED
    BY <1>t, <1>1, <2>1, <2>2, BoardTypesStep DEF BoardTypes, Ends, Boards!IsOpen
<1>4. ASSUME ~Crossed' PROVE TextsAreOwn' /\ NoteIsOwn' /\ (board' \in {"orders", "afterSales"} => OpensAlone')
  <2>1. /\ TextsAreOwn /\ NoteIsOwn /\ (board \in {"orders", "afterSales"} => OpensAlone)
        /\ board = "orders" => OneOrderAtATime
        /\ board = "addresses" => OneAddressAtATime
        /\ board = "afterSales" => Own(note, drawer.row)
    <3>1. ~Crossed
      BY <1>1, <1>4 DEF Crossed
    <3> QED
      BY <3>1, BoardUncrossed
  <2>2. TextsAreOwn'
    <3>1. Own(drawer'.text, drawer'.row)
      BY <1>1, <2>1, BoardsTypes DEF TextsAreOwn, Own
    <3> QED
      BY <1>t, <1>1, <2>1, <3>1, TextsEnd
  <2>3. board \in {"orders", "afterSales"} => OpensAlone'
    BY <1>t, <1>1, <2>1, OpensAloneEnds
  <2>4. board = "orders" => OneOrderAtATime'
    <3> SUFFICES ASSUME board = "orders" PROVE OneOrderAtATime'
      OBVIOUS
    <3>1. OneOrderAtATime /\ drawer' = drawer
      BY <1>1, <2>1
    <3>2. \A q \in Calls : Waits(q) => q = r
      BY <1>t, <3>1 DEF OneOrderAtATime
    <3>3. ASSUME Boards!IsOpen PROVE Own(note', drawer.row)
      <4>1. CASE Fills(r)
        BY <1>1, <2>1, <4>1 DEF TextsAreOwn, Own
      <4>2. CASE ~Fills(r)
        BY <1>1, <3>1, <3>2, <3>3, <4>2 DEF OneOrderAtATime, Fills, Asked, Waits
      <4> QED
        BY <4>1, <4>2
    <3> QED
      BY <1>t, <1>1, <3>1, <3>2, <3>3, OneOrderEnds DEF Boards!IsOpen
  <2>5. board \notin {"orders", "addresses"} => NoteIsOwn'
    BY <1>1, <2>1 DEF NoteIsOwn, Own, Boards!IsOpen
  <2>6. board = "addresses" => OneAddressAtATime'
    BY <1>t, <1>1, <2>1, OneAddressEnds
  <2> QED
    BY <1>1, <2>2, <2>3, <2>4, <2>5, <2>6 DEF NoteIsOwn
<1> QED
  BY <1>3, <1>4 DEF BoardsInv

\* The order board shows what it saved, or what it sent a parcel of.
LEMMA BoardSavedInv ==
    ASSUME BoardsInv, NEW r \in Calls, Boards!NoteSaved(r) \/ Boards!Shipped(r) PROVE BoardsInv'
<1> DEFINE post == boardRequest[r]
<1>t. /\ BoardTypes /\ post \in Posts /\ Waits(r) /\ post.at = "answered" /\ board = "orders"
      /\ ~Asked(r, {"open"}) /\ Asked(r, {"save", "ship"})
      /\ post.of \in Texts /\ post.of \in Boards!Words /\ post.text \in Boards!Words
  BY DEF BoardsInv, BoardTypes, Boards!NoteSaved, Boards!Shipped, Boards!Answers, Asked, Waits, Boards!Words, Posts
<1>1. /\ drawer' = [row |-> post.of, text |-> post.text] /\ crossed' = crossed /\ board' = board /\ notes' = notes
      /\ \/ Ends(r) /\ note' = post.text
         \/ GoesOn(r) /\ note' = note /\ Asked(r, {"ship"})
  BY DEF Boards!NoteSaved, Boards!Shipped, Boards!Answers, Boards!Shows, Boards!GoesOn, Boards!Ends, GoesOn, Ends,
     Asked
<1>2. \E new : Proceeds(r, new)
  BY <1>t, <1>1, BoardGoesOn, BoardEnds
<1>3. BoardTypes'
  <2>1. note' \in Boards!Words
    BY <1>t, <1>1 DEF BoardTypes
  <2>2. drawer'.row = post.of /\ drawer' \in [row : Boards!Words, text : Boards!Words]
    BY <1>t, <1>1
  <2> QED
    BY <1>t, <1>1, <1>2, <2>1, <2>2, BoardTypesStep DEF BoardTypes
<1>4. ASSUME ~Crossed' PROVE TextsAreOwn' /\ NoteIsOwn' /\ OpensAlone'
  <2>1. TextsAreOwn /\ OneOrderAtATime
    <3>1. ~Crossed
      BY <1>1, <1>4 DEF Crossed
    <3> QED
      BY <1>t, <3>1, BoardUncrossed
  <2>2. /\ Own(post.text, post.of) /\ drawer'.row = post.of /\ drawer'.text = post.text
        /\ \A q \in Calls : Waits(q) => q = r
    BY <1>t, <1>1, <2>1 DEF TextsAreOwn, OneOrderAtATime
  <2>3. CASE Ends(r) /\ note' = post.text
    <3>1. OneOrderAtATime' /\ OpensAlone'
      BY <1>t, <2>2, <2>3, OneOrderEnds
    <3>2. TextsAreOwn'
      BY <1>t, <2>1, <2>2, <2>3, TextsEnd
    <3> QED
      BY <1>t, <1>1, <3>1, <3>2 DEF NoteIsOwn
  <2>4. CASE GoesOn(r) /\ note' = note /\ Asked(r, {"ship"})
    <3>1. /\ boardRequest'[r].op = "ship" /\ boardRequest'[r].of = post.of /\ boardRequest'[r].text = post.text
          /\ \A q \in Calls : q # r => boardRequest'[q] = boardRequest[q] /\ ~Waits(q)
      BY <1>t, <2>2, <2>4, BoardGoesOn DEF Asked
    <3>2. boardBusy' = TRUE /\ Own(note', post.of)
      BY <1>t, <2>1, <2>4 DEF OneOrderAtATime, GoesOn
    <3>3. OneOrderAtATime'
      BY <2>2, <3>1, <3>2 DEF OneOrderAtATime, Waits, Asked, Fills
    <3>4. OpensAlone'
      BY <3>1 DEF OpensAlone, Waits, Asked
    <3>5. TextsAreOwn'
      BY <1>1, <2>1, <2>2, <3>1 DEF TextsAreOwn, Own
    <3> QED
      BY <1>t, <1>1, <3>3, <3>4, <3>5 DEF NoteIsOwn
  <2> QED
    BY <1>1, <2>3, <2>4
<1> QED
  BY <1>3, <1>4 DEF BoardsInv

\* The other pages close when something is saved.
LEMMA BoardSavedElsewhereInv == ASSUME BoardsInv, NEW r \in Calls, Boards!Saved(r) PROVE BoardsInv'
<1>t. /\ BoardTypes /\ Waits(r) /\ ~Asked(r, {"open"}) /\ board \in Boards!Boards \ {"orders", "afterSales"}
      /\ Blank \in Boards!Words
  BY DEF BoardsInv, Boards!Saved, Boards!Answers, Waits, Asked, Boards!Words
<1>1. /\ crossed' = crossed /\ board' = board /\ notes' = notes /\ note' \in {note, Blank}
      /\ drawer' = Boards!Closed \/ (drawer' = drawer /\ note' = note)
      /\ GoesOn(r) \/ Ends(r)
      /\ board = "addresses" => Ends(r) /\ drawer' = Boards!Closed /\ note' = Blank
  BY DEF Boards!Saved, Boards!closeDrawer, Boards!GoesOn, Boards!Ends, GoesOn, Ends
<1>2. \E new : Proceeds(r, new)
  BY <1>t, <1>1, BoardGoesOn, BoardEnds
<1>3. BoardTypes'
  <2>1. note' \in Boards!Words /\ drawer' \in [row : Boards!Words, text : Boards!Words]
    BY <1>t, <1>1, BoardsTypes DEF BoardTypes
  <2> QED
    BY <1>t, <1>1, <1>2, <2>1, BoardTypesStep DEF BoardTypes
<1>4. ASSUME ~Crossed' PROVE TextsAreOwn' /\ NoteIsOwn'
  <2>1. TextsAreOwn /\ NoteIsOwn
    BY <1>1, <1>4 DEF BoardsInv, Crossed
  <2>2. Own(drawer'.text, drawer'.row)
    BY <1>1, <2>1, BoardsTypes DEF TextsAreOwn, Own
  <2>3. TextsAreOwn'
    <3>1. CASE GoesOn(r)
      <4>1. /\ boardRequest'[r].of = boardRequest[r].of /\ boardRequest'[r].text = boardRequest[r].text
            /\ \A q \in Calls : q # r => boardRequest'[q] = boardRequest[q]
        BY <1>t, <3>1, BoardGoesOn
      <4> QED
        BY <1>1, <2>1, <2>2, <4>1 DEF TextsAreOwn, Own
    <3>2. CASE Ends(r)
      BY <1>t, <2>1, <2>2, <3>2, TextsEnd
    <3> QED
      BY <1>1, <3>1, <3>2
  <2>4. board # "addresses" => NoteIsOwn'
    BY <1>t, <1>1, <2>1, BoardsTypes DEF NoteIsOwn, Boards!IsOpen, Own
  <2>5. board = "addresses" => OneAddressAtATime'
    BY <1>t, <1>1, <2>1, OneAddressEnds DEF NoteIsOwn
  <2> QED
    BY <1>1, <2>3, <2>4, <2>5 DEF NoteIsOwn
<1> QED
  BY <1>t, <1>1, <1>3, <1>4 DEF BoardsInv

\* What a request that is sent from the page is like.
LEMMA BoardAsks ==
    ASSUME BoardTypes, NEW r \in Calls, NEW op \in {"save", "ship", "other"}, NEW at \in {"asked", "more"},
           NEW o \in Boards!Words, NEW text \in Boards!Words, Boards!Asks(r, op, at, o, text),
           UNCHANGED <<drawer, note>>, op = "ship" => board = "orders", at = "asked" <=> op # "other",
           board = "orders" /\ op # "other" => o \in Texts
    PROVE  /\ BoardTypes' /\ board' = board /\ notes' = notes /\ boardBusy' = (board \in Boards!Waiting)
           /\ boardRequest'[r].op = op /\ boardRequest'[r].of = o /\ boardRequest'[r].text = text
           /\ ~Waits(r) /\ \A q \in Calls : q # r => boardRequest'[q] = boardRequest[q]
<1> DEFINE new == [op |-> op, at |-> at, of |-> o, text |-> text, here |-> TRUE]
<1>1. /\ boardRequest[r] = Boards!Idle /\ boardRequest' = [boardRequest EXCEPT ![r] = new]
      /\ boardBusy' = (board \in Boards!Waiting) /\ UNCHANGED <<board, notes, drawer, note>>
  BY DEF Boards!Asks
<1>2. new \in Posts /\ new.op = op /\ new.at = at /\ new.of = o /\ new.text = text /\ new.here = TRUE
  BY DEF Posts
<1> HIDE DEF new
<1>3. /\ boardRequest' \in [Calls -> Posts] /\ boardRequest'[r] = new
      /\ \A q \in Calls : q # r => boardRequest'[q] = boardRequest[q]
  BY <1>1, <1>2 DEF BoardTypes
<1>4. BoardTypes'
  BY <1>1, <1>2, <1>3 DEF BoardTypes, Asked, Waits, Fills, Boards!IsOpen
<1> QED
  BY <1>1, <1>2, <1>3, <1>4, BoardsTypes DEF Waits

\* A text, a parcel or something else is sent.
LEMMA BoardSendInv ==
    ASSUME BoardsInv, NEW r \in Calls, Boards!send(r) \/ Boards!ship(r) \/ Boards!Others(r) PROVE BoardsInv'
<1> DEFINE Sends(op, at, o, text) ==
      /\ op \in {"save", "ship", "other"} /\ at \in {"asked", "more"} /\ (at = "asked" <=> op # "other")
      /\ o \in Boards!Words /\ text \in Boards!Words /\ Boards!Asks(r, op, at, o, text)
      /\ op = "ship" => board = "orders"
      /\ op # "other" => Boards!IsOpen /\ o = drawer.row
      /\ op = "other" => board # "afterSales" /\ o = Blank
      /\ board = "orders" => ~boardBusy /\ (op = "other" => ~Boards!IsOpen)
      /\ board = "addresses" => ~boardBusy
      /\ text \in {Blank, o} \/ (op = "save" /\ text = note /\ board # "reconciliation")
<1>t. /\ BoardTypes /\ drawer.row \in Boards!Words /\ note \in Boards!Words /\ Blank \in Boards!Words
  BY DEF BoardsInv, BoardTypes, Boards!Words
<1>1. UNCHANGED <<drawer, note, crossed>>
  BY DEF Boards!send, Boards!ship, Boards!Others
<1>2. PICK op \in {"save", "ship", "other"}, at \in {"asked", "more"}, o \in Boards!Words, text \in Boards!Words :
        Sends(op, at, o, text)
  <2>1. CASE Boards!send(r)
    <3>1. CASE board = "reconciliation"
      <4>1. Sends("save", "asked", drawer.row, drawer.row)
        BY <1>t, <2>1, <3>1 DEF Boards!send
      <4> QED
        BY <1>t, <4>1
    <3>2. CASE board # "reconciliation"
      <4>1. Sends("save", "asked", drawer.row, note)
        BY <1>t, <2>1, <3>2 DEF Boards!send
      <4> QED
        BY <1>t, <4>1
    <3> QED
      BY <3>1, <3>2
  <2>2. CASE Boards!ship(r)
    <3>1. Sends("ship", "asked", drawer.row, Blank)
      BY <1>t, <2>2 DEF Boards!ship
    <3> QED
      BY <1>t, <3>1
  <2>3. CASE Boards!Others(r)
    <3>1. Sends("other", "more", Blank, Blank)
      BY <1>t, <2>3 DEF Boards!Others
    <3> QED
      BY <1>t, <3>1
  <2> QED
    BY <2>1, <2>2, <2>3
<1>3. /\ BoardTypes' /\ board' = board /\ notes' = notes /\ boardBusy' = (board \in Boards!Waiting)
      /\ boardRequest'[r].op = op /\ boardRequest'[r].of = o /\ boardRequest'[r].text = text
      /\ ~Waits(r) /\ \A q \in Calls : q # r => boardRequest'[q] = boardRequest[q]
  <2>1. board = "orders" /\ op # "other" => o \in Texts
    BY <1>t, <1>2 DEF BoardTypes
  <2> QED
    BY <1>t, <1>1, <1>2, <2>1, BoardAsks
<1>4. ASSUME ~Crossed' PROVE TextsAreOwn' /\ NoteIsOwn' /\ (board' \in {"orders", "afterSales"} => OpensAlone')
  <2>1. /\ TextsAreOwn /\ NoteIsOwn /\ (board \in {"orders", "afterSales"} => OpensAlone)
        /\ board = "orders" => OneOrderAtATime
        /\ board = "addresses" => OneAddressAtATime
        /\ board = "afterSales" => Own(note, drawer.row)
    <3>1. ~Crossed
      BY <1>1, <1>3, <1>4 DEF Crossed
    <3> QED
      BY <3>1, BoardUncrossed
  <2>2. board = "orders" => \A q \in Calls : ~Waits(q)
    BY <1>2, <2>1 DEF OneOrderAtATime
  <2>3. op # "other" /\ board # "reconciliation" => Own(note, drawer.row)
    <3>1. CASE board = "orders"
      BY <1>2, <2>1, <2>2, <3>1 DEF OneOrderAtATime, Waits, Fills, Asked
    <3>2. CASE board # "orders"
      BY <1>2, <2>1, <3>2 DEF NoteIsOwn, OneAddressAtATime
    <3> QED
      BY <3>1, <3>2
  <2>4. Own(text, o)
    BY <1>2, <2>3 DEF Own
  <2>5. TextsAreOwn'
    BY <1>1, <1>3, <2>1, <2>4 DEF TextsAreOwn, Own
  <2>6. board = "orders" => OneOrderAtATime' /\ OpensAlone'
    <3> SUFFICES ASSUME board = "orders" PROVE OneOrderAtATime' /\ OpensAlone'
      OBVIOUS
    <3>1. boardBusy' = TRUE
      BY <1>3 DEF Boards!Waiting, Boards!Boards
    <3>2. \A q \in Calls : Waits(q)' => q = r
      BY <1>3, <2>2 DEF Waits
    <3>3. Boards!IsOpen => op # "other" /\ o = drawer.row /\ Own(note, drawer.row)
      BY <1>2, <2>3
    <3>4. op = "ship" => Own(note, o)
      BY <1>2, <2>3
    <3>5. OneOrderAtATime'
      BY <1>1, <1>3, <3>1, <3>2, <3>3, <3>4 DEF OneOrderAtATime, Waits, Asked, Fills, Boards!IsOpen, Own
    <3>6. OpensAlone'
      BY <1>3, <3>2 DEF OpensAlone, Waits, Asked
    <3> QED
      BY <3>5, <3>6
  <2>7. board = "afterSales" => OpensAlone'
    BY <1>1, <1>2, <1>3, <2>1 DEF OpensAlone, Asked, Waits, Boards!IsOpen
  <2>8. board \notin {"orders", "addresses"} => NoteIsOwn'
    BY <1>1, <1>3, <2>1 DEF NoteIsOwn, Own, Boards!IsOpen
  <2>9. board = "addresses" => OneAddressAtATime'
    <3> SUFFICES ASSUME board = "addresses" PROVE OneAddressAtATime'
      OBVIOUS
    <3>1. boardBusy' = TRUE
      BY <1>3 DEF Boards!Waiting, Boards!Boards
    <3>2. \A q \in Calls : Waits(q)' => q = r
      BY <1>2, <1>3, <2>1 DEF OneAddressAtATime, Waits
    <3>3. op = "save" => o = drawer.row
      BY <1>2
    <3> QED
      BY <1>1, <1>3, <2>1, <3>1, <3>2, <3>3 DEF OneAddressAtATime, Waits, Asked, Own, Boards!IsOpen
  <2> QED
    BY <1>3, <2>5, <2>6, <2>7, <2>8, <2>9 DEF NoteIsOwn
<1> QED
  BY <1>3, <1>4 DEF BoardsInv

\* The list of cases is loaded, and the board is mounted anew.
LEMMA BoardReloadsInv ==
    ASSUME BoardsInv, board = "afterSales", NEW left, left \subseteq Boards!UnderWay, Boards!Reloads(left)
    PROVE  BoardsInv'
<1>t. BoardTypes
  BY DEF BoardsInv
<1>1. /\ drawer' = Boards!Closed /\ note' = Blank /\ UNCHANGED <<board, notes, crossed>>
      /\ boardRequest' = [q \in Calls |-> IF q \in left THEN [boardRequest[q] EXCEPT !.here = FALSE] ELSE Boards!Idle]
  BY DEF Boards!Reloads, Boards!closeDrawer
<1>2. ASSUME NEW q \in Calls
      PROVE  /\ boardRequest[q] \in Posts /\ boardRequest'[q] \in Posts
             /\ \/ boardRequest'[q] = Boards!Idle /\ ~Waits(q)'
                \/ /\ q \in left /\ boardRequest'[q].op = boardRequest[q].op /\ boardRequest'[q].of = boardRequest[q].of
                   /\ boardRequest'[q].at = boardRequest[q].at /\ boardRequest'[q].text = boardRequest[q].text
  BY <1>t, <1>1, <1>2, BoardsTypes DEF BoardTypes, Waits, Posts
<1>3. BoardTypes'
  <2>1. boardRequest' \in [Calls -> Posts]
    BY <1>1, <1>2
  <2>2. \A q \in left : Waits(q)
    BY <1>t DEF Boards!UnderWay, BoardTypes
  <2> QED
    BY <1>t, <1>1, <1>2, <2>1, <2>2, BoardsTypes
       DEF BoardTypes, Boards!IsOpen, Asked, Waits, Fills, Boards!Words
<1>4. ASSUME ~Crossed' PROVE TextsAreOwn' /\ NoteIsOwn' /\ OpensAlone'
  <2>1. TextsAreOwn /\ OpensAlone
    <3>1. ~Crossed
      BY <1>1, <1>4 DEF Crossed
    <3> QED
      BY <3>1, BoardUncrossed
  <2>2. TextsAreOwn'
    BY <1>1, <1>2, <2>1, BoardsTypes DEF TextsAreOwn, Own
  <2>3. OpensAlone'
    BY <1>1, <1>2, <2>1 DEF OpensAlone, Asked, Waits, Boards!IsOpen
  <2>4. NoteIsOwn'
    BY <1>1 DEF NoteIsOwn, Own
  <2> QED
    BY <2>2, <2>3, <2>4
<1> QED
  BY <1>3, <1>4 DEF BoardsInv

\* So does whatever the user, the server and the pages do.
LEMMA BoardsStepInv == ASSUME BoardsInv, Boards!Next PROVE BoardsInv'
<1>1. CASE Boards!create \/ \E o \in Texts : Boards!openListed(o)
  BY <1>1, BoardFormInv
<1>2. CASE \E o \in Texts : \E r \in Calls : Boards!open(r, o)
  BY <1>2, BoardOpenInv
<1>3. CASE Boards!close \/ Boards!Types
  BY <1>3, BoardDrawerInv
<1>4. CASE Boards!filterStatus
  BY <1>4, BoardReloadsInv DEF Boards!filterStatus
<1>5. ASSUME NEW r \in Calls, Boards!CaseDone(r) PROVE BoardsInv'
  BY <1>5, BoardReloadsInv DEF Boards!CaseDone
<1>6. ASSUME NEW r \in Calls,
             \/ Boards!Served(r) \/ Boards!Fails(r) \/ Boards!Forgotten(r) \/ Boards!Shown(r)
             \/ Boards!Follows(r) \/ Boards!NoteSaved(r) \/ Boards!Shipped(r) \/ Boards!Saved(r)
             \/ Boards!send(r) \/ Boards!ship(r) \/ Boards!Others(r) \/ Boards!SentAgain(r)
      PROVE  BoardsInv'
  BY <1>6, BoardServedInv, BoardFailsInv, BoardShownInv, BoardFollowsInv, BoardSavedInv,
     BoardSavedElsewhereInv, BoardSendInv, BoardSentAgainInv
<1> QED
  BY <1>1, <1>2, <1>3, <1>4, <1>5, <1>6 DEF Boards!Next

\* The invariant of the pages says that a text is stored for the row that it was written about.
LEMMA BoardsInvSuffices == BoardsInv => Boards!WrittenWhereMeant
BY DEF BoardsInv, Crossed, TextsAreOwn, Own, Boards!WrittenWhereMeant

-----------------------------------------------------------------------------
(* The parts together.                                                     *)
ClientsInv ==
    /\ SessionInv /\ AddressBookInv /\ StockFormInv /\ CheckoutPageInv
    /\ CartPageInv /\ PaymentPageInv /\ CatalogInv /\ DraftEditorInv /\ BoardsInv

\* The parts start in their invariants.
LEMMA ClientsInitInv == Init => ClientsInv
BY SessionInitInv, AddressBookInitInv, StockFormInitInv, CheckoutPageInitInv, CartPageInitInv,
   PaymentPageInitInv, CatalogInitInv, DraftEditorInitInv, BoardsInitInv DEF Init, ClientsInv

\* A part whose variables rest keeps its invariant: the sessions,
LEMMA SessionRests == ASSUME SessionInv, UNCHANGED sessionVars PROVE SessionInv'
BY DEF sessionVars, SessionInv, Session!TypeOK, Session!KeepsItsSession, Flies

\* the address book,
LEMMA AddressBookRests == ASSUME AddressBookInv, UNCHANGED addressVars PROVE AddressBookInv'
BY DEF addressVars, AddressBookInv, AddressBook!TypeOK, OneIsDefault, RequestsApart, Asks,
       AddressBook!Stored, AddressBook!Default

\* the form of a stock row,
LEMMA StockFormRests == ASSUME StockFormInv, UNCHANGED stockVars PROVE StockFormInv'
BY DEF stockVars, StockFormInv

\* the checkout page,
LEMMA CheckoutPageRests == ASSUME CheckoutPageInv, UNCHANGED pageVars PROVE CheckoutPageInv'
BY DEF pageVars, CheckoutPageInv, Fits

\* the cart page,
LEMMA CartPageRests == ASSUME CartPageInv, UNCHANGED cartVars PROVE CartPageInv'
BY DEF cartVars, CartPageInv, CartPage!UnderWay, Brings

\* the payment page,
LEMMA PaymentPageRests == ASSUME PaymentPageInv, UNCHANGED paymentVars PROVE PaymentPageInv'
BY DEF paymentVars, PaymentPageInv, Told

\* the categories,
LEMMA CatalogRests == ASSUME CatalogInv, UNCHANGED catalogVars PROVE CatalogInv'
BY DEF catalogVars, CatalogInv, Catalog!TypeOK, Catalog!ReferencesHold, Catalog!NoCycle,
       Catalog!Stored, Moves

\* the drawer of a draft,
LEMMA DraftEditorRests == ASSUME DraftEditorInv, UNCHANGED draftVars PROVE DraftEditorInv'
BY DEF draftVars, DraftEditorInv

\* and the pages with a drawer.
LEMMA BoardsRests == ASSUME BoardsInv, UNCHANGED boardVars PROVE BoardsInv'
<1> USE DEF boardVars
<1>1. BoardTypes'
  BY DEF BoardsInv, BoardTypes, Boards!IsOpen, Asked, Waits, Fills
<1>2. Crossed' <=> Crossed
  BY DEF Crossed
<1>3. TextsAreOwn => TextsAreOwn'
  BY DEF TextsAreOwn, Own
<1>4. NoteIsOwn => NoteIsOwn'
  BY DEF NoteIsOwn, OneOrderAtATime, OneAddressAtATime, Own, Boards!IsOpen, Asked, Waits, Fills
<1>5. OpensAlone => OpensAlone'
  BY DEF OpensAlone, Boards!IsOpen, Asked, Waits
<1> QED
  BY <1>1, <1>2, <1>3, <1>4, <1>5 DEF BoardsInv

\* A step is of one part, which keeps its invariant, and the others rest.
LEMMA ClientsStepInv == ASSUME ClientsInv, [Next]_vars PROVE ClientsInv'
<1> USE SessionRests, AddressBookRests, StockFormRests, CheckoutPageRests, CartPageRests,
        PaymentPageRests, CatalogRests, DraftEditorRests, BoardsRests DEF ClientsInv
<1>1. CASE SessionStep
  BY <1>1, SessionStepInv DEF SessionStep
<1>2. CASE AddressBookStep
  BY <1>2, AddressBookStepInv DEF AddressBookStep
<1>3. CASE CheckoutPageStep
  BY <1>3, CheckoutPageStepInv DEF CheckoutPageStep
<1>4. CASE DraftEditorStep
  BY <1>4, DraftEditorStepInv DEF DraftEditorStep
<1>5. CASE CatalogStep
  BY <1>5, CatalogStepInv DEF CatalogStep
<1>6. CASE CartPageStep
  BY <1>6, CartPageStepInv DEF CartPageStep
<1>7. CASE PaymentPageStep
  BY <1>7, PaymentPageStepInv DEF PaymentPageStep
<1>8. CASE StockFormStep
  BY <1>8, StockFormStepInv DEF StockFormStep
<1>9. CASE BoardsStep
  BY <1>9, BoardsStepInv DEF BoardsStep
<1>10. CASE UNCHANGED vars
  BY <1>10 DEF vars
<1> QED
  BY <1>1, <1>2, <1>3, <1>4, <1>5, <1>6, <1>7, <1>8, <1>9, <1>10 DEF Next

\* The inductive invariants hold in every state that the clients can reach.
THEOREM ClientsCorrect == Spec => []ClientsInv
<1>1. Init => ClientsInv
  BY ClientsInitInv
<1>2. ClientsInv /\ [Next]_vars => ClientsInv'
  BY ClientsStepInv
<1> QED
  BY <1>1, <1>2, PTL DEF Spec
-----------------------------------------------------------------------------
\* api.ts and auth.service.ts: however many requests meet 401 at once, the
\* browser holds the secret of its session, or the answer that brings it is
\* on its way, unless the network lost that answer.
THEOREM SessionsAreKept == Spec => []KeepsItsSession
<1>1. ClientsInv => KeepsItsSession
  BY DEF ClientsInv, SessionInv, KeepsItsSession
<1> QED
  BY <1>1, ClientsCorrect, PTL

\* address.service.ts: a book with addresses has one default, unless a removal
\* was overlapped by another request.
THEOREM DefaultIsOne == Spec => []OneDefault
<1>1. ClientsInv => OneDefault
  BY AddressBookInvSuffices DEF ClientsInv
<1> QED
  BY <1>1, ClientsCorrect, PTL

\* checkout.vue: the quote that can be submitted is for the address and the
\* coupon on the screen, unless the form was edited while an answer was awaited.
THEOREM QuotesFit == Spec => []QuoteFitsScreen
<1>1. ClientsInv => QuoteFitsScreen
  BY CheckoutPageInvSuffices DEF ClientsInv
<1> QED
  BY <1>1, ClientsCorrect, PTL

\* useFilePreview.ts: as long as the drawer is open each row shows the file that
\* was asked for last, and every object URL is shown or revoked.
THEOREM PreviewsAreCounted == Spec => []PreviewsAccountedFor
<1>1. ClientsInv => PreviewsAccountedFor
  BY DraftEditorInvSuffices DEF ClientsInv
<1> QED
  BY <1>1, ClientsCorrect, PTL

\* catalog.service.ts: no reference to a category dangles, and moves that are
\* made one at a time leave no category under itself.
THEOREM TreeIsKept == Spec => []TreeStands
<1>1. ClientsInv => TreeStands
  BY CatalogInvSuffices DEF ClientsInv
<1> QED
  BY <1>1, ClientsCorrect, PTL

\* cart.vue and payments/[orderId].vue: the page at rest shows the cart that is
\* stored, and the page that stopped asking shows an end of the payment.
THEOREM PagesShowWhatIs == Spec => []PagesAreCurrent
<1>1. ClientsInv => PagesAreCurrent
  BY CartPageInvSuffices, PaymentPageInvSuffices DEF ClientsInv, PagesAreCurrent
<1> QED
  BY <1>1, ClientsCorrect, PTL

\* useInventoryManagement.ts: a correction that is entered once is applied once,
\* however often it is saved.  The pages with a drawer: a text is stored for the row
\* that it was written about, as long as, at the order board and the after-sale
\* board, no row was asked for beside another request and, in the address book, no
\* address was begun while the text of one was under way, which may be sent again.
THEOREM SentOnceAndMeant == Spec => []SentAsMeant
<1>1. ClientsInv => SentAsMeant
  BY BoardsInvSuffices DEF ClientsInv, StockFormInv, SentAsMeant, StockForm!AppliedOnce
<1> QED
  BY <1>1, ClientsCorrect, PTL
=============================================================================
