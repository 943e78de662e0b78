------------------------------ MODULE Onboarding ------------------------------
(***************************************************************************)
(* The applications of one user to sell, their review, and the merchant    *)
(* that an approval creates: merchants/merchant-onboarding.service.ts and  *)
(* merchant-onboarding-workflow.ts.                                        *)
(*                                                                         *)
(* Every check is on a row read before the transaction, and the            *)
(* transaction writes the row by its id, whatever it has become.  Only the *)
(* merchant is looked up inside, and has the applicant for a key.          *)
(***************************************************************************)
EXTENDS Sequences, Naturals

CONSTANTS
    MaxApplications, \* bound: how often the user applies
    Workers          \* concurrent requests of applicant and reviewers

OnboardingAssumption == MaxApplications \in Nat

VARIABLES
    application, \* the user's rows, oldest first
    merchant,    \* the merchant's status, or "NONE"
    granted,     \* history: how many reviews ended with an approval
    request      \* request[w]: what worker w is in the middle of

vars == <<application, merchant, granted, request>>

MERCHANT_APPLICATION_TRANSITIONS ==
    [DRAFT |-> {"SUBMITTED", "WITHDRAWN"},
     SUBMITTED |-> {"NEEDS_CHANGES", "APPROVED", "REJECTED", "WITHDRAWN"},
     NEEDS_CHANGES |-> {"SUBMITTED", "WITHDRAWN"},
     APPROVED |-> {}, REJECTED |-> {}, WITHDRAWN |-> {}]
Status == DOMAIN MERCHANT_APPLICATION_TRANSITIONS
canTransitionMerchantApplication(from, to) == to \in MERCHANT_APPLICATION_TRANSITIONS[from]

(* told: the status the latest row of the timeline gives; complete: the    *)
(* agreement is accepted and the files are there.                          *)
Application == [status : Status, told : Status, complete : BOOLEAN]

Latest == Len(application)
Idle == [at |-> "idle"]
Done(w) == [request EXCEPT ![w] = Idle]
Reads(w, r) ==
    /\ request[w] = Idle
    /\ request' = [request EXCEPT ![w] = r]
    /\ UNCHANGED <<application, merchant, granted>>

-----------------------------------------------------------------------------
(* The applicant.                                                          *)

SaveRead(w) ==
    /\ Latest > 0 =>
         application[Latest].status \in {"DRAFT", "NEEDS_CHANGES", "REJECTED", "WITHDRAWN"}
    /\ Reads(w, [at |-> "save",
                 i |-> IF Latest > 0 /\ application[Latest].status \in {"DRAFT", "NEEDS_CHANGES"}
                       THEN Latest ELSE 0])

\* The row that was read is changed, or a new one begun.
SaveWrite(w, complete) ==
    LET r == request[w]
    IN  /\ r.at = "save"
        /\ application' =
             IF r.i > 0 THEN [application EXCEPT ![r.i].complete = complete]
             ELSE Append(application, [status |-> "DRAFT", told |-> "DRAFT", complete |-> complete])
        /\ Len(application') <= MaxApplications
        /\ request' = Done(w)
        /\ UNCHANGED <<merchant, granted>>

Begin(w, i, to) ==
    /\ i \in 1..Latest
    /\ canTransitionMerchantApplication(application[i].status, to)
    /\ Reads(w, [at |-> "move", i |-> i, from |-> application[i].status, to |-> to])

submit(w) == application[Latest].complete /\ Begin(w, Latest, "SUBMITTED")
withdraw(w) == Begin(w, Latest, "WITHDRAWN")

-----------------------------------------------------------------------------
(* The reviewer.                                                           *)

review(w, i, to) == to \in {"APPROVED", "REJECTED", "NEEDS_CHANGES"} /\ Begin(w, i, to)

\* Mutant: whoever was approved before is approved again.
mayOnboardAgain(to) == TRUE

mayOnboard(to) == to = "APPROVED" => merchant = "NONE"

\* The transactions of review and of transition.
Move(w) ==
    LET r == request[w]
    IN  /\ r.at = "move"
        /\ mayOnboard(r.to)
        /\ application' = [application EXCEPT ![r.i].status = r.to, ![r.i].told = r.to]
        /\ merchant' = IF r.to = "APPROVED" THEN "ACTIVE" ELSE merchant
        /\ granted' = IF r.to = "APPROVED" THEN granted + 1 ELSE granted
        /\ request' = Done(w)

StatusRead(w, i, status) ==
    /\ i \in 1..Latest /\ application[i].status = "APPROVED"
    /\ merchant # "NONE"
    /\ Reads(w, [at |-> "status", to |-> status])

SetMerchantStatus(w) ==
    /\ request[w].at = "status"
    /\ merchant' = request[w].to
    /\ request' = Done(w)
    /\ UNCHANGED <<application, granted>>

Fail(w) ==
    /\ request[w] # Idle
    /\ request' = Done(w)
    /\ UNCHANGED <<application, merchant, granted>>

-----------------------------------------------------------------------------
Init ==
    /\ application = <<>>
    /\ merchant = "NONE"
    /\ granted = 0
    /\ request = [w \in Workers |-> Idle]

Next ==
    \E w \in Workers :
      \/ SaveRead(w)
      \/ \E complete \in BOOLEAN : SaveWrite(w, complete)
      \/ Latest > 0 /\ (submit(w) \/ withdraw(w))
      \/ \E i \in 1..MaxApplications, to \in Status : review(w, i, to)
      \/ \E i \in 1..MaxApplications, s \in {"ACTIVE", "SUSPENDED"} : StatusRead(w, i, s)
      \/ Move(w) \/ SetMerchantStatus(w) \/ Fail(w)

Spec == Init /\ [][Next]_vars
-----------------------------------------------------------------------------
TypeOK ==
    /\ application \in Seq(Application)
    /\ merchant \in {"NONE", "ACTIVE", "SUSPENDED"}

(* Reviewers who approve at once, two drafts begun at once, a withdrawal   *)
(* that overtakes a review: a user gets one merchant, by one approval, and *)
(* what the timeline of each application says last is its status.          *)
OneApproval ==
    /\ granted = (IF merchant = "NONE" THEN 0 ELSE 1)
    /\ \A i \in 1..Latest : application[i].status = application[i].told
=============================================================================
