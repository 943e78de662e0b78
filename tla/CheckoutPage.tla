----------------------------- MODULE CheckoutPage -----------------------------
(***************************************************************************)
(* The storefront's checkout page, pages/checkout.vue: what the buyer sees *)
(* and changes while the page waits for its address book, for the coupons  *)
(* he may use, for a quote and for the order.  Nothing but the two buttons *)
(* that wait is disabled while it waits.                                   *)
(*                                                                         *)
(* An address is its text; NoCoupon and NoAddress are null and the empty   *)
(* form.                                                                   *)
(***************************************************************************)

CONSTANTS Texts, Coupons, NoAddress, NoCoupon

CheckoutPageAssumption == NoAddress \notin Texts /\ NoCoupon \notin Coupons

VARIABLES
    book,    \* the texts of the saved addresses
    loaded,  \* onMounted has ended
    address, \* the form
    manual,  \* the form takes input
    coupon,  \* selectedCouponId
    skip,    \* skipCoupon
    offered, \* the eligible coupons that are shown
    quote,   \* the quote that is shown: what it was asked for
    waiting, \* what preview or submit waits for; busy is waiting.at # "none"
    raced    \* history: the form changed while a quote was made, or under one by itself

form == <<address, manual>>
picked == <<coupon, skip>>
vars == <<book, loaded, form, picked, offered, quote, waiting, raced>>

NoQuote == [address |-> NoAddress, coupon |-> NoCoupon]
Quote == [address : Texts \cup {NoAddress}, coupon : Coupons \cup {NoCoupon}]
Waits(at, asked) == waiting' = [at |-> at, asked |-> asked]
Rests == Waits("none", NoQuote)
Previewing == waiting.at \in {"create", "coupons", "quote"}
Changes == raced' = (raced \/ Previewing)

Shows(text, isManual) == address' = text /\ manual' = isManual

\* Mutant: another address, and the quote for the last one is still there.
ShowsOnly(text, isManual) == Shows(text, isManual) /\ UNCHANGED quote

\* applyAddress and useNewAddress.
applyAddress(text, isManual) == Shows(text, isManual) /\ quote' = NoQuote

\* find the coupon that is selected, or else the first that is eligible.
Selected(eligible) ==
    IF skip THEN {NoCoupon}
    ELSE IF coupon \in eligible THEN {coupon}
    ELSE IF eligible = {} THEN {NoCoupon} ELSE eligible
-----------------------------------------------------------------------------
(* The buyer *)

Types(text) ==
    /\ manual /\ text # address
    /\ Shows(text, TRUE) /\ Changes
    /\ UNCHANGED <<book, loaded, picked, offered, quote, waiting>>

Chooses(text) ==
    /\ text \in book
    /\ applyAddress(text, FALSE) /\ Changes
    /\ UNCHANGED <<book, loaded, picked, offered, waiting>>

useNewAddress ==
    /\ ~manual
    /\ applyAddress(NoAddress, TRUE) /\ Changes
    /\ UNCHANGED <<book, loaded, picked, offered, waiting>>

\* The buttons of the coupon picker; NoCoupon is the one that skips.
Picks(c) ==
    /\ c \in offered \cup {NoCoupon}
    /\ coupon' = c /\ skip' = (c = NoCoupon) /\ quote' = NoQuote
    /\ Changes
    /\ UNCHANGED <<book, loaded, form, offered, waiting>>
-----------------------------------------------------------------------------
(* onMounted: addresses and coupons, each of which may have failed. *)
Loaded ==
    /\ ~loaded /\ loaded' = TRUE
    /\ book' \in {book} \cup SUBSET Texts
    /\ offered' \in SUBSET Coupons
    /\ coupon' \in IF offered' = {} THEN {NoCoupon} ELSE offered'
    /\ \/ \E text \in book' : applyAddress(text, FALSE) \* the default
       \/ UNCHANGED <<form, quote>>
    /\ raced' = (raced \/ waiting.at # "none" \/ quote # NoQuote)
    /\ UNCHANGED <<skip, waiting>>

(* preview *)
preview ==
    /\ waiting.at = "none" /\ address # NoAddress
    /\ IF manual THEN Waits("create", [NoQuote EXCEPT !.address = address]) ELSE Waits("coupons", NoQuote)
    /\ UNCHANGED <<book, loaded, form, picked, offered, quote, raced>>

\* The form goes back to what was saved, whatever has been typed since.
AddressCreated ==
    /\ waiting.at = "create"
    /\ book' = book \cup {waiting.asked.address}
    /\ applyAddress(waiting.asked.address, FALSE)
    /\ Waits("coupons", NoQuote)
    /\ UNCHANGED <<loaded, picked, offered, raced>>

\* The quote is asked for with what the page shows by now.
CouponsAnswered ==
    /\ waiting.at = "coupons"
    /\ offered' \in SUBSET Coupons
    /\ coupon' \in Selected(offered')
    /\ Waits("quote", [address |-> address, coupon |-> coupon'])
    /\ UNCHANGED <<book, loaded, form, skip, quote, raced>>

\* An empty address is refused.
QuoteAnswered ==
    /\ waiting.at = "quote" /\ waiting.asked.address # NoAddress
    /\ quote' = waiting.asked
    /\ Rests
    /\ UNCHANGED <<book, loaded, form, picked, offered, raced>>

\* A quote that is shown stays, beside the coupon found for the one that failed.
PreviewFails ==
    /\ Previewing
    /\ raced' = (raced \/ quote # NoQuote)
    /\ Rests
    /\ UNCHANGED <<book, loaded, form, picked, offered, quote>>

(* submit; an order leaves the page. *)
submit ==
    /\ waiting.at = "none" /\ quote # NoQuote
    /\ Waits("order", quote)
    /\ UNCHANGED <<book, loaded, form, picked, offered, quote, raced>>

SubmitFails ==
    /\ waiting.at = "order"
    /\ quote' = NoQuote
    /\ Rests
    /\ UNCHANGED <<book, loaded, form, picked, offered, raced>>
-----------------------------------------------------------------------------
Init ==
    /\ book = {} /\ loaded = FALSE
    /\ address = NoAddress /\ manual = TRUE
    /\ coupon = NoCoupon /\ skip = FALSE /\ offered = {}
    /\ quote = NoQuote /\ waiting = [at |-> "none", asked |-> NoQuote]
    /\ raced = FALSE

Next ==
    \/ \E text \in Texts : Types(text) \/ Chooses(text)
    \/ useNewAddress \/ \E c \in Coupons \cup {NoCoupon} : Picks(c)
    \/ Loaded \/ preview \/ AddressCreated \/ CouponsAnswered \/ QuoteAnswered \/ PreviewFails
    \/ submit \/ SubmitFails

Spec == Init /\ [][Next]_vars
-----------------------------------------------------------------------------
TypeOK ==
    /\ book \subseteq Texts /\ offered \subseteq Coupons
    /\ loaded \in BOOLEAN /\ manual \in BOOLEAN /\ skip \in BOOLEAN /\ raced \in BOOLEAN
    /\ address \in Texts \cup {NoAddress} /\ coupon \in Coupons \cup {NoCoupon}
    /\ quote \in Quote
    /\ waiting \in [at : {"none", "create", "coupons", "quote", "order"}, asked : Quote]

(* The order that can be submitted goes to the address, and uses the       *)
(* coupon, that the buyer sees, whatever he chose and typed before and     *)
(* whatever failed.  It takes that he changed nothing while the quote was  *)
(* being made (the old answer is shown beside the new form), that          *)
(* onMounted had ended, and that no quote failed while another was shown.  *)
QuoteFitsScreen ==
    quote # NoQuote /\ waiting.at \in {"none", "order"} /\ ~raced =>
        quote = [address |-> address, coupon |-> IF skip THEN NoCoupon ELSE coupon]
=============================================================================
