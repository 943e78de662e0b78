-------------------------------- MODULE Clients --------------------------------
(***************************************************************************)
(* What clients and the API keep in step: Session, AddressBook and Catalog *)
(* beside the pages CheckoutPage, CartPage, PaymentPage, DraftEditor,      *)
(* StockForm and Boards.  They share no state, so each behaviour is one of *)
(* them, and the others rest.  Addresses are the categories of Catalog and *)
(* the requests of PaymentPage too, Calls the requests of Catalog,         *)
(* CartPage and Boards, and Texts the rows of Boards.                      *)
(***************************************************************************)
EXTENDS Naturals, Sequences

CONSTANTS
    Calls, MaxSessions, MaxSecrets,
    Addresses, Requests, MaxUpdates,
    Texts, Coupons, NoAddress, NoCoupon,
    Keys, MaxPicks, MaxGenerations,
    Root, Absent,
    MaxChanges, MAX_CART_ITEM_QUANTITY,
    MaxMoves,
    Thresholds, NoStock, MaxVersion,
    New, Blank

VARIABLES
    part, \* the component whose behaviour this is
    session, isActive, made, stored, call, flight, lost,
    address, now, request, overlapped,
    book, loaded, form, manual, coupon, skip, offered, quote, waiting, raced,
    page, media, fileId, previews, uploadingIndex, uploads, picks, mounted,
    parent, holder, catalogRequest, moving,
    storedCart, cart, pending, lastError, fetch, mine, swapped,
    intent, payment, poll, timer, busy, cartSynced, overtaken,
    row, listed, selected, delta, wanted, save, applied,
    board, drawer, note, boardBusy, boardRequest, notes, crossed

Session == INSTANCE Session
AddressBook == INSTANCE AddressBook
CheckoutPage == INSTANCE CheckoutPage WITH address <- form
DraftEditor == INSTANCE DraftEditor
Catalog == INSTANCE Catalog WITH
    Categories <- Addresses, Workers <- Calls,
    request <- catalogRequest, overlapped <- moving
CartPage == INSTANCE CartPage WITH Fetches <- Calls, stored <- storedCart
PaymentPage == INSTANCE PaymentPage WITH Polls <- Addresses
StockForm == INSTANCE StockForm WITH NoItem <- NoStock
Boards == INSTANCE Boards WITH
    Rows <- Texts, busy <- boardBusy, request <- boardRequest, raced <- crossed

ASSUME PartsAssumption ==
    /\ Session!SessionAssumption /\ AddressBook!AddressBookAssumption
    /\ CheckoutPage!CheckoutPageAssumption /\ DraftEditor!DraftEditorAssumption
    /\ Catalog!CatalogAssumption /\ CartPage!CartPageAssumption
    /\ PaymentPage!PaymentPageAssumption /\ StockForm!StockFormAssumption
    /\ Boards!BoardsAssumption

sessionVars == <<session, isActive, made, stored, call, flight, lost>>
addressVars == <<address, now, request, overlapped>>
pageVars == <<book, loaded, form, manual, coupon, skip, offered, quote, waiting, raced>>
draftVars == <<page, media, fileId, previews, uploadingIndex, uploads, picks, mounted>>
catalogVars == <<parent, holder, catalogRequest, moving>>
cartVars == <<storedCart, cart, pending, lastError, fetch, mine, swapped>>
paymentVars == <<intent, payment, poll, timer, busy, cartSynced, overtaken>>
stockVars == <<row, listed, selected, delta, wanted, save, applied>>
boardVars == <<board, drawer, note, boardBusy, boardRequest, notes, crossed>>
vars ==
    <<part, sessionVars, addressVars, pageVars, draftVars, catalogVars, cartVars, paymentVars,
      stockVars, boardVars>>

Init ==
    /\ part \in {"session", "addresses", "checkout", "draft", "catalog", "cart", "payment", "stock",
                 "boards"}
    /\ Session!Init /\ AddressBook!Init /\ CheckoutPage!Init /\ DraftEditor!Init
    /\ Catalog!Init /\ CartPage!Init /\ PaymentPage!Init /\ StockForm!Init
    /\ Boards!Init
    /\ part # "draft" => page = "draft" /\ media[1] = CHOOSE k \in Keys : TRUE
    /\ part # "payment" => intent.status = "PENDING"
    /\ part # "stock" => row.threshold = CHOOSE n \in Thresholds : TRUE
    /\ part # "boards" => board = "orders"

SessionStep ==
    /\ part = "session" /\ Session!Next
    /\ UNCHANGED <<part, addressVars, pageVars, draftVars, catalogVars, cartVars, paymentVars,
                    stockVars, boardVars>>

AddressBookStep ==
    /\ part = "addresses" /\ AddressBook!Next
    /\ UNCHANGED <<part, sessionVars, pageVars, draftVars, catalogVars, cartVars, paymentVars,
                    stockVars, boardVars>>

CheckoutPageStep ==
    /\ part = "checkout" /\ CheckoutPage!Next
    /\ UNCHANGED <<part, sessionVars, addressVars, draftVars, catalogVars, cartVars,
                    paymentVars, stockVars, boardVars>>

DraftEditorStep ==
    /\ part = "draft" /\ DraftEditor!Next
    /\ UNCHANGED <<part, sessionVars, addressVars, pageVars, catalogVars, cartVars,
                    paymentVars, stockVars, boardVars>>

CatalogStep ==
    /\ part = "catalog" /\ Catalog!Next
    /\ UNCHANGED <<part, sessionVars, addressVars, pageVars, draftVars, cartVars, paymentVars,
                    stockVars, boardVars>>

CartPageStep ==
    /\ part = "cart" /\ CartPage!Next
    /\ UNCHANGED <<part, sessionVars, addressVars, pageVars, draftVars, catalogVars,
                    paymentVars, stockVars, boardVars>>

PaymentPageStep ==
    /\ part = "payment" /\ PaymentPage!Next
    /\ UNCHANGED <<part, sessionVars, addressVars, pageVars, draftVars, catalogVars, cartVars,
                    stockVars, boardVars>>

StockFormStep ==
    /\ part = "stock" /\ StockForm!Next
    /\ UNCHANGED <<part, sessionVars, addressVars, pageVars, draftVars, catalogVars, cartVars,
                    paymentVars, boardVars>>

BoardsStep ==
    /\ part = "boards" /\ Boards!Next
    /\ UNCHANGED <<part, sessionVars, addressVars, pageVars, draftVars, catalogVars, cartVars,
                    paymentVars, stockVars>>

Next ==
    \/ SessionStep \/ AddressBookStep \/ CheckoutPageStep \/ DraftEditorStep
    \/ CatalogStep \/ CartPageStep \/ PaymentPageStep \/ StockFormStep \/ BoardsStep

Spec == Init /\ [][Next]_vars
-----------------------------------------------------------------------------
(* The properties of these, for the state they have here.                  *)

\* The types of the three that are records of rows.
TypeOK == Session!TypeOK /\ AddressBook!TypeOK /\ CheckoutPage!TypeOK

\* Session: refreshing costs nobody his session.
KeepsItsSession == Session!KeepsItsSession

\* AddressBook: a book with addresses has one default.
OneDefault == AddressBook!OneDefault

\* CheckoutPage: the quote that can be submitted is for what is on the screen.
QuoteFitsScreen == CheckoutPage!QuoteFitsScreen

\* DraftEditor: the pictures shown are those last asked for, their URLs counted.
PreviewsAccountedFor == DraftEditor!PreviewsAccountedFor

\* Catalog: no reference dangles; moved one at a time, no category is under itself.
TreeStands == Catalog!TreeStands

\* CartPage, PaymentPage: a page at rest shows what it changed, and the end of the payment.
PagesAreCurrent == CartPage!ShowsOwnChanges /\ PaymentPage!StopsAtTheEnd

\* StockForm, Boards: a correction that is entered once is applied once, and what is
\* written about a row is stored for that row.
SentAsMeant == StockForm!AppliedOnce /\ Boards!WrittenWhereMeant

\* Session: whoever signed out is signed out.  It does not hold.
SignedOutStaysOut == Session!SignedOutStaysOut

\* Catalog: no category is under itself.  It does not hold.
NoCycle == Catalog!NoCycle

\* DraftEditor: an unmounted drawer has revoked its URLs.  It does not hold.
NothingLeftBehind == DraftEditor!NothingLeftBehind
=============================================================================
