--------------------------------- MODULE Desk ---------------------------------
(***************************************************************************)
(* The small desks of the shop, each a table with a check before its       *)
(* write: reviews/review.service.ts, favorites/favorite.service.ts,        *)
(* reconciliation/reconciliation.service.ts, and the order export of       *)
(* orders/order.service.ts.                                                *)
(*                                                                         *)
(* None of them uses a transaction: every statement is a step of its own,  *)
(* and only a unique key of the table can refuse what the check let by.    *)
(***************************************************************************)
EXTENDS Naturals

CONSTANTS
    MaxToggles,  \* bound: how often the favorite is toggled
    MaxImports,  \* bound: files imported for one date
    Workers      \* concurrent requests

DeskAssumption == MaxToggles \in Nat /\ MaxImports \in Nat

VARIABLES
    review,   \* the review of one item of a completed order, or NoReview
    favorite, \* whether the row of one user and one target exists
    toggles,  \* history: toggles that were answered
    imported, \* imported[n]: reconciliations of one date with status n
    export,   \* the status of one OrderExportTask
    request   \* request[w]: what worker w is in the middle of

vars == <<review, favorite, toggles, imported, export, request>>

NoReview == [by |-> "nobody"]
Idle == "idle"
Done(w) == [request EXCEPT ![w] = Idle]
\* Worker w's check lets it go on.
Checked(w, next) ==
    /\ request[w] = Idle
    /\ request' = [request EXCEPT ![w] = next]
    /\ UNCHANGED <<review, favorite, toggles, imported, export>>

-----------------------------------------------------------------------------
(* Reviews: one for an order item, which is the key; one reply to it, as   *)
(* far as the check sees.                                                  *)

ReviewCheck(w) == review = NoReview /\ Checked(w, "review")
ReviewCreate(w) ==
    /\ request[w] = "review" /\ review = NoReview
    /\ review' = [hidden |-> FALSE, reply |-> Idle]
    /\ request' = Done(w)
    /\ UNCHANGED <<favorite, toggles, imported, export>>

ReplyCheck(w) == review # NoReview /\ review.reply = Idle /\ Checked(w, "reply")
reply(w) ==
    /\ request[w] = "reply"
    /\ review' = [review EXCEPT !.reply = w]
    /\ request' = Done(w)
    /\ UNCHANGED <<favorite, toggles, imported, export>>

hide(hidden) ==
    /\ review # NoReview
    /\ review' = [review EXCEPT !.hidden = hidden]
    /\ UNCHANGED <<favorite, toggles, imported, export, request>>

-----------------------------------------------------------------------------
(* Favorites: the row that was found is deleted by its id, which fails     *)
(* when it is gone; a missing one is created, which the key refuses when   *)
(* it is there.                                                            *)

ToggleCheck(w) ==
    toggles < MaxToggles /\ Checked(w, IF favorite THEN "unfavorite" ELSE "favorite")

\* Mutant: the row is deleted if there is one, and created if there is none.
togglesAnyhow(w) == request[w] \in {"unfavorite", "favorite"}

rowAsFound(w) == request[w] = (IF favorite THEN "unfavorite" ELSE "favorite")

toggle(w) ==
    /\ rowAsFound(w)
    /\ favorite' = (request[w] = "favorite")
    /\ toggles' = toggles + 1
    /\ request' = Done(w)
    /\ UNCHANGED <<review, imported, export>>

-----------------------------------------------------------------------------
(* Reconciliation: a date is imported once as far as the check sees, for   *)
(* the table has no key for it; and resolved.                              *)

Imports == imported["PENDING"] + imported["RESOLVED"]
ImportCheck(w) == Imports = 0 /\ Checked(w, "import")
import(w) ==
    /\ request[w] = "import" /\ Imports < MaxImports
    /\ imported' = [imported EXCEPT !["PENDING"] = @ + 1]
    /\ request' = Done(w)
    /\ UNCHANGED <<review, favorite, toggles, export>>

resolve ==
    /\ imported["PENDING"] > 0
    /\ imported' = [PENDING |-> imported["PENDING"] - 1, RESOLVED |-> imported["RESOLVED"] + 1]
    /\ UNCHANGED <<review, favorite, toggles, export, request>>

-----------------------------------------------------------------------------
(* The export is answered at once and runs afterwards, in this process: if *)
(* it dies, the task stays as it is.                                       *)

createExport ==
    /\ export = "NONE"
    /\ export' = "PENDING"
    /\ UNCHANGED <<review, favorite, toggles, imported, request>>

runExport ==
    /\ \/ export = "PENDING" /\ export' \in {"PROCESSING", "FAILED"}
       \/ export = "PROCESSING" /\ export' \in {"COMPLETED", "FAILED"}
    /\ UNCHANGED <<review, favorite, toggles, imported, request>>

\* A key refuses the write, or the process dies.
Fail(w) ==
    /\ request[w] # Idle
    /\ request' = Done(w)
    /\ UNCHANGED <<review, favorite, toggles, imported, export>>

-----------------------------------------------------------------------------
Init ==
    /\ review = NoReview
    /\ favorite = FALSE
    /\ toggles = 0
    /\ imported = [PENDING |-> 0, RESOLVED |-> 0]
    /\ export = "NONE"
    /\ request = [w \in Workers |-> Idle]

Next ==
    \/ \E w \in Workers :
         \/ ReviewCheck(w) \/ ReviewCreate(w) \/ ReplyCheck(w) \/ reply(w)
         \/ ToggleCheck(w) \/ toggle(w)
         \/ ImportCheck(w) \/ import(w)
         \/ Fail(w)
    \/ \E hidden \in BOOLEAN : hide(hidden)
    \/ resolve \/ createExport \/ runExport

Spec == Init /\ [][Next]_vars
-----------------------------------------------------------------------------
(* A favorite toggled from several tabs at once: each answer tells what    *)
(* its own toggle made of it, none is lost in another, so what is stored   *)
(* is what counting the answers gives.                                     *)
TogglesCount == favorite = (toggles % 2 = 1)
=============================================================================
