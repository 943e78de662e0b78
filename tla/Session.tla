------------------------------- MODULE Session -------------------------------
(***************************************************************************)
(* A signed-in browser and its sessions: concurrent requests of the admin  *)
(* console, apps/admin/src/api.ts (the storefront's useApi.ts goes the     *)
(* same way), that meet 401 and share one refresh; the rotation of the     *)
(* refresh token, auth/auth.service.ts, a read and a write; revocations by *)
(* a logout or a password reset elsewhere, and by the merchant's owner.    *)
(*                                                                         *)
(* A refresh token is a session and its secret; secrets are numbers.  When *)
(* an access token expires is left open: any request may meet 401.         *)
(***************************************************************************)
EXTENDS Naturals

CONSTANTS
    Calls,       \* requests that the page makes at the same time
    MaxSessions, \* bound: sign-ins
    MaxSecrets   \* bound: secrets made

SessionAssumption == MaxSessions \in Nat \ {0} /\ MaxSecrets \in Nat \ {0}

VARIABLES
    session,  \* Session rows: the secret whose hash is stored, and whether it is revoked
    isActive, \* User.isActive
    made,     \* secrets made so far
    stored,   \* the refresh token in the browser's storage
    call,     \* call[c]: where apiFetch is
    flight,   \* flight[c]: the refresh that c has started
    lost      \* history: the network lost the answer to a refresh

vars == <<session, isActive, made, stored, call, flight, lost>>

Sessions == 1..MaxSessions
Token == [session : Sessions, secret : 1..MaxSecrets]
NoToken == [session |-> 0, secret |-> 0]
Row == [secret : 0..MaxSecrets, revoked : BOOLEAN]
NoRow == [secret |-> 0, revoked |-> FALSE] \* secret 0: no row yet
NoFlight == [at |-> "none", token |-> NoToken, next |-> 0]

(* sent: on the wire.  refused: 401.  waiting: for the refresh, its own or *)
(* another's.  again: sent with the new token.                             *)
CallAt == {"idle", "sent", "refused", "waiting", "again"}
FlightAt == {"none", "sent", "checked", "rotated", "denied"}
-----------------------------------------------------------------------------
(* apiFetch *)

Execute(c) ==
    /\ call[c] = "idle" /\ stored # NoToken
    /\ call' = [call EXCEPT ![c] = "sent"]
    /\ UNCHANGED <<session, isActive, made, stored, flight, lost>>

\* The authorization guard: an expired token, or a user who is not active, is 401.
Answered(c) ==
    /\ call[c] \in {"sent", "again"}
    /\ call' = [call EXCEPT ![c] = IF call[c] = "sent" THEN "refused" ELSE "idle"]
    /\ UNCHANGED <<session, isActive, made, stored, flight, lost>>

Served(c) ==
    /\ call[c] \in {"sent", "again"} /\ isActive
    /\ call' = [call EXCEPT ![c] = "idle"]
    /\ UNCHANGED <<session, isActive, made, stored, flight, lost>>

\* Mutant: whoever meets 401 starts a refresh of his own.
refreshesAlone == FALSE

refreshInFlight == \E c \in Calls : flight[c].at # "none"

\* Signed out meanwhile: the request fails.
NothingToRefresh(c) ==
    /\ call[c] = "refused" /\ stored = NoToken
    /\ call' = [call EXCEPT ![c] = "idle"]
    /\ UNCHANGED <<session, isActive, made, stored, flight, lost>>

refresh(c) ==
    /\ call[c] = "refused" /\ stored # NoToken
    /\ call' = [call EXCEPT ![c] = "waiting"]
    /\ IF refreshInFlight THEN UNCHANGED flight
       ELSE flight' = [flight EXCEPT ![c] = [at |-> "sent", token |-> stored, next |-> 0]]
    /\ UNCHANGED <<session, isActive, made, stored, lost>>

\* A flight ends: all that wait for it go on, with a token or without.
Lands(c, at) ==
    /\ flight' = [flight EXCEPT ![c] = NoFlight]
    /\ call' = [d \in Calls |-> IF call[d] = "waiting" THEN at ELSE call[d]]

AcceptTokens(c) ==
    /\ flight[c].at = "rotated"
    /\ stored' = [flight[c].token EXCEPT !.secret = flight[c].next]
    /\ Lands(c, "again")
    /\ UNCHANGED <<session, isActive, made, lost>>

Denied(c) ==
    /\ flight[c].at = "denied"
    /\ Lands(c, "idle")
    /\ UNCHANGED <<session, isActive, made, stored, lost>>

Lost(c) ==
    /\ flight[c].at \in {"sent", "rotated"}
    /\ lost' = (lost \/ flight[c].at = "rotated")
    /\ Lands(c, "idle")
    /\ UNCHANGED <<session, isActive, made, stored>>
-----------------------------------------------------------------------------
(* auth.service.ts *)

\* refresh, up to the comparison; a session may have expired.
RefreshRead(c) ==
    LET s == session[flight[c].token.session]
    IN  /\ flight[c].at = "sent"
        /\ flight' = [flight EXCEPT ![c].at =
              IF ~s.revoked /\ s.secret = flight[c].token.secret THEN "checked" ELSE "denied"]
        /\ UNCHANGED <<session, isActive, made, stored, call, lost>>

\* The update names the row by its id alone, and leaves revokedAt alone.
rotates(s, secret) == [s EXCEPT !.secret = secret]

RefreshWrite(c) ==
    LET s == flight[c].token.session
    IN  /\ flight[c].at = "checked" /\ made < MaxSecrets
        /\ made' = made + 1
        /\ session' = [session EXCEPT ![s] = rotates(@, made')]
        /\ flight' = [flight EXCEPT ![c].at = "rotated", ![c].next = made']
        /\ UNCHANGED <<isActive, stored, call, lost>>

\* login, and AdminLogin.vue, which stores what it is answered.
login(s) ==
    /\ stored = NoToken /\ isActive /\ made < MaxSecrets
    /\ session[s] = NoRow /\ \A r \in 1..(s - 1) : session[r] # NoRow
    /\ made' = made + 1
    /\ session' = [session EXCEPT ![s].secret = made']
    /\ stored' = [session |-> s, secret |-> made']
    /\ UNCHANGED <<isActive, call, flight, lost>>

\* App.vue, signOut: the server is not told, and a refresh under way goes on.
signOut ==
    /\ stored # NoToken
    /\ stored' = NoToken
    /\ UNCHANGED <<session, isActive, made, call, flight, lost>>

Revoked(S) == [s \in Sessions |->
    IF s \in S /\ session[s] # NoRow THEN [session[s] EXCEPT !.revoked = TRUE] ELSE session[s]]

\* From another window, with the token of the session.
logout(s) ==
    /\ session[s] # NoRow /\ ~session[s].revoked
    /\ session' = Revoked({s})
    /\ UNCHANGED <<isActive, made, stored, call, flight, lost>>

\* resetPassword; setMemberStatus and removeMember of store.service.ts deactivate too.
RevokeAll ==
    /\ \E s \in Sessions : session[s] # NoRow /\ ~session[s].revoked
    /\ session' = Revoked(Sessions)
    /\ isActive' \in {isActive, FALSE}
    /\ UNCHANGED <<made, stored, call, flight, lost>>

activate ==
    /\ ~isActive /\ isActive' = TRUE
    /\ UNCHANGED <<session, made, stored, call, flight, lost>>
-----------------------------------------------------------------------------
Init ==
    /\ session = [s \in Sessions |-> NoRow]
    /\ isActive = TRUE
    /\ made = 0 /\ stored = NoToken /\ lost = FALSE
    /\ call = [c \in Calls |-> "idle"]
    /\ flight = [c \in Calls |-> NoFlight]

Next ==
    \/ \E c \in Calls : Execute(c) \/ Answered(c) \/ Served(c) \/ NothingToRefresh(c) \/ refresh(c)
    \/ \E c \in Calls : AcceptTokens(c) \/ Denied(c) \/ Lost(c) \/ RefreshRead(c) \/ RefreshWrite(c)
    \/ \E s \in Sessions : login(s) \/ logout(s)
    \/ signOut \/ RevokeAll \/ activate

Spec == Init /\ [][Next]_vars
-----------------------------------------------------------------------------
TypeOK ==
    /\ session \in [Sessions -> Row]
    /\ isActive \in BOOLEAN /\ lost \in BOOLEAN
    /\ made \in 0..MaxSecrets
    /\ stored \in Token \cup {NoToken}
    /\ call \in [Calls -> CallAt]
    /\ flight \in [Calls -> [at : FlightAt, token : Token \cup {NoToken}, next : 0..MaxSecrets]]

(* Refreshing costs nobody his session: as long as no answer is lost, a    *)
(* browser holds the secret of its session, or an answer with that secret  *)
(* is on its way to it, however many requests meet 401 at once, and        *)
(* whoever signs out, or in again, meanwhile.                              *)
KeepsItsSession ==
    stored # NoToken /\ ~session[stored.session].revoked /\ ~lost =>
      \/ session[stored.session].secret = stored.secret
      \/ \E c \in Calls : /\ flight[c].at = "rotated"
                          /\ flight[c].token.session = stored.session
                          /\ flight[c].next = session[stored.session].secret

(* The browser that has signed out stays signed out.  (It does not: the    *)
(* answer to a refresh that was under way stores its tokens.)              *)
SignedOutStaysOut ==
    [][stored = NoToken /\ stored' # NoToken => \E s \in Sessions : login(s)]_vars
=============================================================================
