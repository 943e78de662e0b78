--------------------------------- MODULE Boards ---------------------------------
(***************************************************************************)
(* The pages that list rows and show one of them in a drawer, where        *)
(* something is written about it and sent: the order board, the after-sale *)
(* board, the product reviews, the product drafts, the team and the        *)
(* reconciliations of the admin console, and the address book of the       *)
(* storefront.  They share a shape and differ in what waits for an answer, *)
(* in what a drawer brings along, and in what closing it leaves behind.    *)
(*                                                                         *)
(* A text is the row that it was written about; Blank is the empty text.   *)
(* A drawer covers the list; that of the address book stands beside it.    *)
(***************************************************************************)
EXTENDS FiniteSets

CONSTANTS
    Rows,  \* orders, cases, products, members, reconciliations, addresses
    New,   \* the row that is being made
    Blank, \* no row, no text
    Calls  \* requests of the page

BoardsAssumption == New \notin Rows /\ Blank \notin Rows /\ New # Blank

VARIABLES
    board,   \* the page
    drawer,  \* the row that is shown and the text it came with, or Closed
    note,    \* the text in the drawer
    busy,    \* busy, of the pages whose buttons wait for it
    request, \* request[r]: a request and what follows its answer
    notes,   \* notes[o]: the text that is stored for o
    raced    \* history: a row was asked for while a request was under way, or begun
             \* while the text of another was

vars == <<board, drawer, note, busy, request, notes, raced>>

Boards == {"orders", "afterSales", "reviews", "products", "team", "reconciliation", "addresses"}
Asking == {"orders", "afterSales", "reviews", "products", "reconciliation"} \* for the row to show
Waiting == Boards \ {"afterSales", "reconciliation"}                        \* for an answer
Forms == {"products", "team", "addresses"}                   \* whose drawer brings its text along

Words == Rows \cup {New, Blank}
Closed == [row |-> Blank, text |-> Blank]
Shows(o, text) == drawer' = [row |-> o, text |-> text]
IsOpen == drawer # Closed

Idle == [op |-> "idle", at |-> "none", of |-> Blank, text |-> Blank, here |-> FALSE]
UnderWay == {r \in Calls : request[r] # Idle}

\* Request r goes out, and the page is busy.
Asks(r, op, at, o, text) ==
    /\ request[r] = Idle
    /\ request' = [request EXCEPT ![r] = [op |-> op, at |-> at, of |-> o, text |-> text, here |-> TRUE]]
    /\ busy' = (board \in Waiting)
    /\ UNCHANGED <<board, notes>>

\* Request r comes to its end, and the page is not busy, whatever else is under way.
Ends(r) == request' = [request EXCEPT ![r] = Idle] /\ busy' = FALSE
\* Its answer is here, and the page asks for more: the parcels' tracking, or the list.
GoesOn(r) == request' = [request EXCEPT ![r].at = "more"] /\ UNCHANGED busy

Answers(r, op) == request[r].op = op /\ request[r].at = "answered" /\ request[r].here
-----------------------------------------------------------------------------
(* What a row is shown for: get, open and edit.                            *)

open(r, o) ==
    /\ board \in Asking /\ ~IsOpen
    /\ Asks(r, "open", "asked", o, Blank)
    /\ raced' = (raced \/ UnderWay # {})
    /\ UNCHANGED <<drawer, note>>

\* A row of the list is copied: openMember, and edit of the address book.
openListed(o) ==
    /\ board \in Forms \ Asking
    /\ board = "team" => ~IsOpen
    /\ board = "addresses" => ~busy
    /\ Shows(o, notes[o]) /\ note' = notes[o]
    /\ UNCHANGED <<board, busy, request, notes, raced>>

\* A new draft, account or address.
create ==
    /\ board \in Forms
    /\ board # "addresses" => ~IsOpen
    /\ Shows(New, Blank) /\ note' = Blank
    /\ raced' = (raced \/ \E r \in Calls : request[r].op = "save")
    /\ UNCHANGED <<board, busy, request, notes>>

\* Mutant: what was written about a row is still there for the next.
closeDrawerOnly == drawer' = Closed /\ UNCHANGED note

closeDrawer ==
    /\ drawer' = Closed
    /\ note' = IF board \in {"orders", "afterSales", "addresses"} THEN Blank ELSE note

close ==
    /\ IsOpen
    /\ board = "team" => ~busy
    /\ closeDrawer
    /\ UNCHANGED <<board, busy, request, notes, raced>>

Types ==
    /\ IsOpen /\ board # "reconciliation"
    /\ note' = drawer.row
    /\ UNCHANGED <<board, drawer, busy, request, notes, raced>>
-----------------------------------------------------------------------------
(* The server answers, or does not.                                        *)

\* The storefront met 401 and got a new token: it sends its form, as that is by now.
SentAgain(r) ==
    /\ board = "addresses"
    /\ request[r].op = "save" /\ request[r].at = "asked"
    /\ request' = [request EXCEPT ![r].text = note]
    /\ UNCHANGED <<board, drawer, note, busy, notes, raced>>

\* A text that is sent is stored, but no empty address; a row that is read comes with its text.
Served(r) ==
    /\ request[r].at = "asked"
    /\ board = "addresses" => request[r].text # Blank
    /\ IF request[r].op = "save"
       THEN /\ notes' = [o \in Rows |-> IF o = request[r].of THEN request[r].text ELSE notes[o]]
            /\ request' = [request EXCEPT ![r].at = "answered"]
       ELSE /\ request' = [request EXCEPT ![r].at = "answered", ![r].text = notes[request[r].of]]
            /\ UNCHANGED notes
    /\ UNCHANGED <<board, drawer, note, busy, raced>>

\* The order board puts the text that the order came with into its form again.
Fails(r) ==
    /\ request[r].at \in {"asked", "answered"} /\ request[r].here
    /\ Ends(r)
    /\ note' = CASE board = "orders" /\ request[r].op = "open" -> drawer.text
                 [] board = "orders" /\ request[r].op = "save" ->
                      IF drawer.text # Blank THEN drawer.text ELSE request[r].text
                 [] OTHER -> note
    /\ UNCHANGED <<board, drawer, notes, raced>>

\* The page that asked is not there any more.
Forgotten(r) ==
    /\ request[r] # Idle /\ ~request[r].here
    /\ request' = [request EXCEPT ![r] = Idle]
    /\ UNCHANGED <<board, drawer, note, busy, notes, raced>>

\* The row is shown, whatever is shown by now.
Shown(r) ==
    /\ Answers(r, "open")
    /\ Shows(request[r].of, request[r].text)
    /\ note' = CASE board = "reviews" -> Blank
                 [] board = "products" -> request[r].text
                 [] OTHER -> note
    /\ IF board = "orders" THEN GoesOn(r) ELSE Ends(r)
    /\ UNCHANGED <<board, notes, raced>>

\* What was asked for more is here, or failed.  The order board fills in its form;
\* a file that was imported closes the reconciliation shown.
Follows(r) ==
    /\ request[r].at = "more"
    /\ Ends(r)
    /\ note' = IF request[r].op = "open" THEN drawer.text ELSE note
    /\ drawer' \in IF board = "reconciliation" THEN {Closed, drawer} ELSE {drawer}
    /\ UNCHANGED <<board, notes, raced>>
-----------------------------------------------------------------------------
(* What is written is sent: saveNote, review and refund, decide, save,     *)
(* saveAccess, doResolve with the text of its prompt; and what follows.    *)

send(r) ==
    /\ IsOpen /\ ~busy
    /\ board \in {"orders", "addresses"} => note # Blank
    /\ Asks(r, "save", "asked", drawer.row, IF board = "reconciliation" THEN drawer.row ELSE note)
    /\ UNCHANGED <<drawer, note, raced>>

\* The order board shows what it saved, again if it has been closed.
NoteSaved(r) ==
    /\ board = "orders" /\ Answers(r, "save")
    /\ Shows(request[r].of, request[r].text) /\ note' = request[r].text
    /\ Ends(r)
    /\ UNCHANGED <<board, notes, raced>>

\* The others close, whatever they show by now; the dialog of a new account waits for itself.
Saved(r) ==
    /\ board \in Boards \ {"orders", "afterSales"} /\ Answers(r, "save")
    /\ IF board = "team" /\ request[r].of = New THEN UNCHANGED <<drawer, note>> ELSE closeDrawer
    /\ IF board \in {"products", "reviews"} THEN GoesOn(r) ELSE Ends(r)
    /\ UNCHANGED <<board, notes, raced>>

\* The list of cases is loaded, and the board is mounted anew when it is.
Reloads(left) ==
    /\ request' = [q \in Calls |-> IF q \in left THEN [request[q] EXCEPT !.here = FALSE] ELSE Idle]
    /\ closeDrawer
    /\ UNCHANGED <<board, busy, notes, raced>>

CaseDone(r) == board = "afterSales" /\ Answers(r, "save") /\ Reloads(UnderWay \ {r})
filterStatus == board = "afterSales" /\ ~IsOpen /\ Reloads(UnderWay)

\* A parcel is sent, and the order is shown as it is then.
ship(r) ==
    /\ board = "orders" /\ IsOpen /\ ~busy
    /\ Asks(r, "ship", "asked", drawer.row, Blank)
    /\ UNCHANGED <<drawer, note, raced>>

Shipped(r) ==
    /\ Answers(r, "ship")
    /\ Shows(request[r].of, request[r].text)
    /\ GoesOn(r)
    /\ UNCHANGED <<board, note, notes, raced>>

\* createExport, doImport; action and archive of a draft; makeDefault and remove of an address.
Others(r) ==
    /\ board \in {"orders", "products", "reconciliation", "addresses"}
    /\ board # "addresses" => ~IsOpen
    /\ board # "products" => ~busy
    /\ Asks(r, "other", "more", Blank, Blank)
    /\ UNCHANGED <<drawer, note, raced>>
-----------------------------------------------------------------------------
Init ==
    /\ board \in Boards
    /\ drawer = Closed /\ note = Blank
    /\ busy = FALSE
    /\ request = [r \in Calls |-> Idle]
    /\ notes = [o \in Rows |-> IF board = "addresses" THEN o ELSE Blank]
    /\ raced = FALSE

Next ==
    \/ \E o \in Rows : openListed(o) \/ \E r \in Calls : open(r, o)
    \/ create \/ close \/ Types \/ filterStatus
    \/ \E r \in Calls :
         \/ SentAgain(r) \/ Served(r) \/ Fails(r) \/ Forgotten(r) \/ Shown(r) \/ Follows(r)
         \/ send(r) \/ NoteSaved(r) \/ Saved(r) \/ CaseDone(r)
         \/ ship(r) \/ Shipped(r) \/ Others(r)

Spec == Init /\ [][Next]_vars
-----------------------------------------------------------------------------
(* A note, a decision, a draft, an address is stored for the row that the  *)
(* user saw when he wrote it, whichever answers come late, and whatever he *)
(* closed and opened in between.  It takes, at the order board and the     *)
(* after-sale board, that he asked for no row while another request was    *)
(* under way: the text stays when the row under it changes.  It takes, in  *)
(* the address book, that he began no new address while the text of one    *)
(* was under way: the form that is sent again would be that of the new.    *)
WrittenWhereMeant ==
    \/ board \in {"orders", "afterSales", "addresses"} /\ raced
    \/ \A o \in Rows : notes[o] \in {o, Blank}
=============================================================================
