-------------------------------- MODULE Access --------------------------------
(***************************************************************************)
(* Who may see and do what in the back office, in the four places that     *)
(* tell: the guard of the API (auth/authorization.ts), the access profile  *)
(* that a browser is given at login (auth/auth.service.ts), and from it    *)
(* the menu and the guard of the router (apps/admin/src/router).           *)
(*   principal  [roles, member, routes, buttons]: the roles of a user, his *)
(*              rank in a merchant's team, and what an owner granted him   *)
(***************************************************************************)
EXTENDS Naturals, FiniteSets

Platform == {"PLATFORM_OPERATOR", "PLATFORM_ADMIN"}
MERCHANT_ROLES == {"MERCHANT_OWNER", "MERCHANT_STAFF"}

PlatformRoutes == {"platform.onboarding", "platform.catalog", "platform.productReview"}
MERCHANT_STAFF_ROUTE_KEYS ==
    {"system.overview", "merchant.store", "merchant.team", "commerce.products",
     "commerce.inventory", "commerce.promotions", "commerce.orders", "commerce.afterSales",
     "commerce.reports"}
ADMIN_ROUTE_KEYS == MERCHANT_STAFF_ROUTE_KEYS \cup PlatformRoutes \cup {"system.jobs"}

\* Of the buttons, those of orders and of cases.
MERCHANT_BUTTON_KEYS == {"orders.manage", "afterSales.manage"}

\* Of the permissions, those that some endpoint asks for.
ROLE_PERMISSIONS(role) ==
    CASE role = "PLATFORM_OPERATOR" ->
           {"merchant:review", "catalog:manage", "product:review", "audit:read"}
      [] role = "PLATFORM_ADMIN" ->
           {"merchant:review", "catalog:manage", "product:review", "audit:read",
            "merchant:manage", "system:manage"}
      [] OTHER -> {}

rolesHavePermissions(roles, permissions) ==
    \A p \in permissions : \E r \in roles : p \in ROLE_PERMISSIONS(r)

\* The guard asks no key of these.
Privileged(p) == p.roles \cap Platform # {} \/ p.member = "OWNER"

\* What canActivate says of an endpoint that asks for [roles, permissions, keys, buttons].
canActivate(p, asked) ==
    /\ asked.roles # {} => p.roles \cap asked.roles # {}
    /\ rolesHavePermissions(p.roles, asked.permissions)
    /\ Privileged(p) \/ (asked.keys \subseteq p.routes /\ asked.buttons \subseteq p.buttons)

accessProfile(p) ==
    IF p.roles \cap Platform # {} THEN ADMIN_ROUTE_KEYS
    ELSE IF p.member = "OWNER" THEN MERCHANT_STAFF_ROUTE_KEYS
    ELSE IF p.member = "STAFF" THEN p.routes \cap ADMIN_ROUTE_KEYS
    ELSE {"system.overview", "platform.onboarding"}

buttonPermissions(p) ==
    IF Privileged(p) THEN MERCHANT_BUTTON_KEYS ELSE p.buttons \cap MERCHANT_BUTTON_KEYS

-----------------------------------------------------------------------------
(* Orders, cases and reviews, as one user meets them: whether they are his *)
(* as a buyer, and the merchants they are about: his own, or others.  They *)
(* are asked for as a "buyer", or as "admin" from the back office.         *)

Orders == [mine : BOOLEAN, parts : SUBSET {"own", "other"} \ {{}}]

resolveMerchantScope(p) ==
    IF p.roles \cap Platform # {} THEN {"own", "other"}
    ELSE IF p.roles \cap MERCHANT_ROLES # {} /\ p.member # "NONE" THEN {"own"}
    ELSE {}

\* Of the orders: those in the list, and those that are answered when asked for.
list(p, scope) ==
    {o \in Orders : IF scope = "buyer" THEN o.mine ELSE o.parts \cap resolveMerchantScope(p) # {}}

canRead(p, scope, o) ==
    \/ scope = "buyer" /\ o.mine
    \/ scope = "admin" /\ "other" \in resolveMerchantScope(p)
    \/ scope = "admin" /\ {"own"} = resolveMerchantScope(p) /\ "own" \in o.parts

\* The merchant orders that an answer holds, and those it says are to be shipped.
view(p, scope, o) ==
    IF scope = "buyer" THEN o.parts ELSE o.parts \cap resolveMerchantScope(p)

get(p, scope, o) == IF canRead(p, scope, o) THEN view(p, scope, o) ELSE {}

\* The merchant orders whose parcels are tracked.
trackingForBuyer(o) == IF o.mine THEN o.parts ELSE {}
trackingForAdmin(p, o) == {part \in o.parts : part \in resolveMerchantScope(p)}

\* The merchant orders one may note something on; the answer is get's.
addMerchantNote(p, o) == IF p.member # "NONE" THEN {"own"} \cap o.parts ELSE {}

\* After-sale cases: those listed, and those answered, of a merchant's part.
listBuyer(o) == IF o.mine THEN o.parts ELSE {}
listAdmin(p, o) == o.parts \cap resolveMerchantScope(p)
getBuyer(o) == o.mine
getAdmin(p, part) == part \in resolveMerchantScope(p)

\* Whether one may decide a case.
assertMerchantScope(p, part) ==
    "PLATFORM_ADMIN" \in p.roles \/ (p.member # "NONE" /\ part = "own")

\* Reviews: whose one is listed in the back office, hides, and replies to.  The
\* list of a merchant looks for a store by the id of the merchant, which none has.
listReviews(p) == IF p.roles \cap Platform # {} THEN {"own", "other"} ELSE {}
hideReview(p) == IF p.roles \cap Platform # {} THEN {"own", "other"} ELSE {}
replyTo(p) == IF p.member # "NONE" THEN {"own"} ELSE {}

-----------------------------------------------------------------------------
(* A page: its key, who is shown it in the menu and may open it, and what  *)
(* the API asks for before it answers what the page loads.                 *)

Page(key, shownTo, opensTo, roles, permissions, keys) ==
    [key |-> key, shownTo |-> shownTo, opensTo |-> opensTo,
     loads |-> [roles |-> roles, permissions |-> permissions, keys |-> keys, buttons |-> {}]]

Anybody == Platform \cup MERCHANT_ROLES \cup {"CUSTOMER"}
Applicants == Platform \cup {"CUSTOMER"}

navigationTree ==
    {Page("system.overview", Anybody, Anybody, {}, {}, {}),
     Page("system.jobs", Platform, Platform, Platform, {}, {"system.jobs"}),
     Page("platform.onboarding", Applicants, Applicants, {}, {}, {}),
     Page("platform.catalog", Applicants \cap Platform, Platform, {}, {"catalog:manage"}, {}),
     Page("platform.productReview", Applicants \cap Platform, Platform, {}, {"product:review"},
          {"platform.productReview"}),
     Page("merchant.store", MERCHANT_ROLES, MERCHANT_ROLES, MERCHANT_ROLES, {}, {"merchant.store"}),
     Page("merchant.team", MERCHANT_ROLES, MERCHANT_ROLES, MERCHANT_ROLES, {}, {"merchant.team"}),
     Page("commerce.products", Anybody, Anybody, MERCHANT_ROLES, {}, {"commerce.products"}),
     Page("commerce.inventory", Anybody, Anybody, MERCHANT_ROLES, {}, {"commerce.inventory"}),
     Page("commerce.promotions", Anybody, Anybody, MERCHANT_ROLES, {}, {"commerce.promotions"}),
     Page("commerce.orders", Anybody, Anybody, MERCHANT_ROLES \cup Platform, {}, {"commerce.orders"}),
     Page("commerce.afterSales", Anybody, Anybody, MERCHANT_ROLES \cup Platform, {},
          {"commerce.afterSales"}),
     Page("commerce.reports", Anybody, Anybody, MERCHANT_ROLES \cup Platform, {},
          {"commerce.afterSales"})}

\* The menu: a merchant is not invited to apply.
navigationForAccess(p) ==
    {page \in navigationTree :
        /\ p.roles \cap page.shownTo # {}
        /\ page.key \in accessProfile(p)
        /\ page.key = "platform.onboarding" =>
             p.roles \cap MERCHANT_ROLES = {} \/ p.roles \cap Platform # {}}

canOpen(p, page) == p.roles \cap page.opensTo # {} /\ page.key \in accessProfile(p)

\* Where the guard sends who may not open a page, if anywhere but to log in.
fallback(p) ==
    {page \in navigationTree : page.key \in accessProfile(p) /\ page.key \in
        {"merchant.store", "merchant.team", "system.overview", "platform.productReview",
         "platform.catalog", "platform.onboarding", "commerce.products", "commerce.orders"}}
-----------------------------------------------------------------------------
(* The users there are: as register, review and createStaffAccount make    *)
(* them, and the operators that the seed makes.                            *)
Principals ==
    {[roles |-> {"CUSTOMER"}, member |-> "NONE", routes |-> {}, buttons |-> {}],
     [roles |-> {"CUSTOMER", "MERCHANT_OWNER"}, member |-> "OWNER", routes |-> {}, buttons |-> {}]}
    \cup {[roles |-> {r}, member |-> "NONE", routes |-> {}, buttons |-> {}] : r \in Platform}
    \cup [roles : {{"MERCHANT_STAFF"}}, member : {"STAFF"},
           routes : SUBSET MERCHANT_STAFF_ROUTE_KEYS, buttons : SUBSET MERCHANT_BUTTON_KEYS]

\* What the menu shows opens, and for a team the API answers it; only the
\* reports need the key of another page.
MenuOpens == \A p \in Principals : \A page \in navigationForAccess(p) :
    /\ canOpen(p, page)
    /\ p.member # "NONE" /\ page.key # "commerce.reports" => canActivate(p, page.loads)

\* On the order board, what is sent by a form that is shown (canManage) is
\* answered; a case is shown with its buttons to some whom the API refuses.
Manages(page, button) == [page.loads EXCEPT !.buttons = {button}]
ButtonsOpen == \A p \in Principals : \A page \in navigationForAccess(p) :
    page.key = "commerce.orders" /\ "orders.manage" \in buttonPermissions(p) =>
        canActivate(p, Manages(page, "orders.manage"))
RefusedCases == {p \in Principals : \E page \in navigationForAccess(p) :
    page.key = "commerce.afterSales" /\ ~canActivate(p, Manages(page, "afterSales.manage"))}

\* What is listed is answered, as its parcels are; a merchant's note is
\* answered with what it was written on; and a case is listed and answered
\* where the part of the order is that it is about.
ListedOpens == \A p \in Principals : \A o \in Orders :
    /\ \A scope \in {"buyer", "admin"} : o \in list(p, scope) <=> get(p, scope, o) # {}
    /\ trackingForBuyer(o) = get(p, "buyer", o) /\ trackingForAdmin(p, o) = get(p, "admin", o)
    /\ addMerchantNote(p, o) \subseteq get(p, "admin", o)
    /\ listBuyer(o) = get(p, "buyer", o) /\ listAdmin(p, o) = get(p, "admin", o)
    /\ \A part \in o.parts : /\ getBuyer(o) <=> part \in listBuyer(o)
                             /\ getAdmin(p, part) <=> part \in listAdmin(p, o)

\* Who may decide a case sees it, and who sees it may decide it, but for the
\* platform's operators, who only look on.
WhoDecidesSees == \A p \in Principals : \A part \in {"own", "other"} :
    assertMerchantScope(p, part) <=>
        getAdmin(p, part) /\ "PLATFORM_OPERATOR" \notin p.roles

\* docs/testing/G29-ACCEPTANCE.md: a merchant replies to the reviews in his
\* list.  (It does not hold: the list is empty.)
RepliesToWhatIsListed == \A p \in Principals : replyTo(p) \subseteq listReviews(p)

\* The platform's roles are shown pages that the API refuses them.
RefusedToPlatform == {page.key : page \in {q \in navigationTree :
    \E p \in Principals : p.roles \subseteq Platform /\ q \in navigationForAccess(p)
                                                     /\ ~canActivate(p, q.loads)}}

\* Grants with which a member of staff can open a page, and is sent to log in again.
Stranded == {p \in Principals : navigationForAccess(p) # {} /\ fallback(p) = {}}
=============================================================================
