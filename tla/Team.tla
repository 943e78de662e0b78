--------------------------------- MODULE Team ---------------------------------
(***************************************************************************)
(* The staff of one merchant, merchants/store.service.ts: accounts that    *)
(* the owner makes, changes, suspends and removes, several requests at a   *)
(* time; and the sessions that auth/auth.service.ts opens for them, and    *)
(* closes when a password is reset.  A request reads the member, or the    *)
(* token, first; what it writes is one transaction.                        *)
(***************************************************************************)
EXTENDS Access

CONSTANTS
    Staff,     \* usernames of the staff
    Granted,   \* bound: sets of routes that the owner grants
    OwnerCalls, \* concurrent requests of the owner's devices
    MaxResets  \* bound: requests that use the same reset token at once

TeamAssumption == Granted \subseteq SUBSET MERCHANT_STAFF_ROUTE_KEYS /\ MaxResets \in Nat

VARIABLES
    account,  \* the User row: whether it is active, has the role of staff, and who made it
    routes,   \* MerchantMember.routePermissions, or NoMember
    signedIn, \* whether the account has a session that is not revoked
    outdated, \* whether one was opened with a password that was changed since
    token,    \* PasswordResetToken: none, open (its time may pass), or used
    resets,   \* requests that have found the token open
    call,     \* call[r]: what owner's request r is in the middle of
    login,    \* login[u]: whether a login of u has passed its checks, and with which password
    late      \* history: a write of an account came after another's of what it had read

passwords == <<outdated, token, resets>>
vars == <<account, routes, signedIn, passwords, call, login, late>>

NoAccount == [isActive |-> FALSE, staff |-> FALSE, by |-> "nobody"]
NoMember == {"no member"}
Idle == [op |-> "idle"]

Starts(r, next) ==
    /\ call[r] = Idle
    /\ call' = [call EXCEPT ![r] = next]
    /\ UNCHANGED <<account, routes, signedIn, passwords, login, late>>

\* Other requests, and logins, that have read the account of u.
Readers(r, u) == {q \in OwnerCalls \ {r} : call[q] # Idle /\ call[q].of = u}

\* The write of r: what others had read of u is late from now on.
Writes(r, op, u) ==
    /\ call[r] # Idle /\ call[r].op = op /\ call[r].of = u
    /\ call' = [call EXCEPT ![r] = Idle]
    /\ late' = (late \/ Readers(r, u) # {} \/ login[u] # "no")
    /\ UNCHANGED login

\* A session is closed, or goes on.
Closes(u, closed) ==
    /\ signedIn' = [signedIn EXCEPT ![u] = @ /\ ~closed]
    /\ outdated' = [outdated EXCEPT ![u] = @ /\ ~closed]
    /\ UNCHANGED <<token, resets>>

-----------------------------------------------------------------------------
createStaffAccount(r, u, granted) ==
    account[u].by = "nobody" /\ Starts(r, [op |-> "create", of |-> u, granted |-> granted])

\* The key of User.username refuses the second.
CreateWrite(r, u) ==
    /\ account[u].by = "nobody"
    /\ Writes(r, "create", u)
    /\ account' = [account EXCEPT ![u] = [isActive |-> TRUE, staff |-> TRUE, by |-> "owner"]]
    /\ routes' = [routes EXCEPT ![u] = call[r].granted]
    /\ UNCHANGED <<signedIn, passwords>>

updateAccess(r, u, granted) ==
    routes[u] # NoMember /\ Starts(r, [op |-> "access", of |-> u, granted |-> granted])

AccessWrite(r, u) ==
    /\ routes[u] # NoMember
    /\ Writes(r, "access", u)
    /\ routes' = [routes EXCEPT ![u] = call[r].granted]
    /\ UNCHANGED <<account, signedIn, passwords>>

setMemberStatus(r, u, isActive) ==
    routes[u] # NoMember /\ Starts(r, [op |-> "status", of |-> u, isActive |-> isActive])

\* Mutant: whoever is suspended may go on with the session he has.
StatusOnly(r, u) ==
    /\ Writes(r, "status", u)
    /\ account' = [account EXCEPT ![u].isActive = call[r].isActive]
    /\ UNCHANGED <<routes, signedIn, passwords>>

StatusWrite(r, u) ==
    /\ Writes(r, "status", u)
    /\ account' = [account EXCEPT ![u].isActive = call[r].isActive]
    /\ Closes(u, ~call[r].isActive)
    /\ UNCHANGED routes

removeMember(r, u) == routes[u] # NoMember /\ Starts(r, [op |-> "remove", of |-> u])

RemoveWrite(r, u) ==
    /\ routes[u] # NoMember
    /\ Writes(r, "remove", u)
    /\ routes' = [routes EXCEPT ![u] = NoMember]
    /\ account' = [account EXCEPT ![u].staff = FALSE, ![u].isActive = FALSE]
    /\ Closes(u, TRUE)

\* The row is gone or the name is taken, and the transaction writes nothing.
Fail(r) ==
    /\ call[r] # Idle
    /\ call' = [call EXCEPT ![r] = Idle]
    /\ UNCHANGED <<account, routes, signedIn, passwords, login, late>>

-----------------------------------------------------------------------------
\* Somebody registers the username as a customer.
register(u) ==
    /\ account[u].by = "nobody"
    /\ account' = [account EXCEPT ![u] = [isActive |-> TRUE, staff |-> FALSE, by |-> "self"]]
    /\ signedIn' = [signedIn EXCEPT ![u] = TRUE]
    /\ UNCHANGED <<routes, passwords, call, login, late>>

\* A login looks at the account, compares the password, and opens a session.
LoginCheck(u) ==
    /\ account[u].isActive /\ login[u] = "no"
    /\ login' = [login EXCEPT ![u] = "current"]
    /\ UNCHANGED <<account, routes, signedIn, passwords, call, late>>

issueSession(u) ==
    /\ login[u] # "no"
    /\ login' = [login EXCEPT ![u] = "no"]
    /\ signedIn' = [signedIn EXCEPT ![u] = TRUE]
    /\ outdated' = [outdated EXCEPT ![u] = @ \/ login[u] = "outdated"]
    /\ UNCHANGED <<account, routes, token, resets, call, late>>

\* Of the last session that he has.
logout(u) ==
    /\ signedIn[u]
    /\ Closes(u, TRUE)
    /\ UNCHANGED <<account, routes, call, login, late>>

forgotPassword(u) ==
    /\ account[u].isActive /\ token[u] = "none"
    /\ token' = [token EXCEPT ![u] = "open"]
    /\ UNCHANGED <<account, routes, signedIn, outdated, resets, call, login, late>>

resetPassword(u) ==
    /\ token[u] = "open" /\ resets[u] < MaxResets
    /\ resets' = [resets EXCEPT ![u] = @ + 1]
    /\ UNCHANGED <<account, routes, signedIn, outdated, token, call, login, late>>

\* The token is not looked at again: of two requests both change the password.
ResetWrite(u) ==
    /\ resets[u] > 0
    /\ resets' = [resets EXCEPT ![u] = @ - 1]
    /\ token' = [token EXCEPT ![u] = "used"]
    /\ signedIn' = [signedIn EXCEPT ![u] = FALSE]
    /\ outdated' = [outdated EXCEPT ![u] = signedIn'[u]]
    /\ login' = [login EXCEPT ![u] = IF @ = "no" THEN "no" ELSE "outdated"]
    /\ late' = (late \/ login[u] # "no")
    /\ UNCHANGED <<account, routes, call>>

ResetFails(u) ==
    /\ resets[u] > 0
    /\ resets' = [resets EXCEPT ![u] = @ - 1]
    /\ UNCHANGED <<account, routes, signedIn, outdated, token, call, login, late>>

-----------------------------------------------------------------------------
Init ==
    /\ account = [u \in Staff |-> NoAccount]
    /\ routes = [u \in Staff |-> NoMember]
    /\ signedIn = [u \in Staff |-> FALSE]
    /\ call = [r \in OwnerCalls |-> Idle]
    /\ outdated = [u \in Staff |-> FALSE]
    /\ token = [u \in Staff |-> "none"]
    /\ resets = [u \in Staff |-> 0]
    /\ login = [u \in Staff |-> "no"]
    /\ late = FALSE

Next ==
    \/ \E r \in OwnerCalls, u \in Staff :
         \/ \E granted \in Granted : createStaffAccount(r, u, granted) \/ updateAccess(r, u, granted)
         \/ \E isActive \in BOOLEAN : setMemberStatus(r, u, isActive)
         \/ removeMember(r, u)
         \/ CreateWrite(r, u) \/ AccessWrite(r, u) \/ StatusWrite(r, u) \/ RemoveWrite(r, u)
    \/ \E r \in OwnerCalls : Fail(r)
    \/ \E u \in Staff :
         \/ register(u) \/ LoginCheck(u) \/ issueSession(u) \/ logout(u)
         \/ forgotPassword(u) \/ resetPassword(u) \/ ResetWrite(u) \/ ResetFails(u)

Spec == Init /\ [][Next]_vars
-----------------------------------------------------------------------------
(* Whoever is out is out: a member has the role of staff and nobody else   *)
(* has; an account that is suspended has no session, one that the owner    *)
(* made and that has no member is suspended, and no session outlives the   *)
(* password that it was opened with; unless a request or a login that had  *)
(* read the account before the change came after it.                       *)
OutIsOut == \A u \in Staff :
    /\ account[u].staff <=> routes[u] # NoMember
    /\ ~late =>
         /\ signedIn[u] => account[u].isActive
         /\ account[u].isActive /\ account[u].by = "owner" => routes[u] # NoMember
         /\ ~outdated[u]
=============================================================================
