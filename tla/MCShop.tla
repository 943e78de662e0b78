-------------------------------- MODULE MCShop --------------------------------
(***************************************************************************)
(* An instance of Shop: one SKU that a buyer may have two of and that      *)
(* sells out and comes back, beside two products, a member of staff and    *)
(* two files.  As each behaviour is of one part, the states of the parts   *)
(* add up where they would multiply, and one symmetry serves them all.     *)
(***************************************************************************)
EXTENDS Shop, TLC

CONSTANT s1

MCLimit == [s \in Skus |-> 2]

Symmetry == Permutations(Workers) \cup Permutations(Ids)
-----------------------------------------------------------------------------
(* The rules by themselves, over small numbers.                            *)

Sku == [open : BOOLEAN, available : 0..3, limit : 0..3]
Line == {NoLine} \cup [quantity : 1..3, selected : BOOLEAN]

\* What a cart calls valid is what checkout accepts, fact for fact.
invalidReason(s, quantity) ==
    \/ ~s.open
    \/ s.available <= 0
    \/ s.limit > 0 /\ quantity > s.limit
    \/ quantity > s.available
ASSUME CartAgreesWithCheckout ==
    \A s \in Sku, quantity \in 1..4 :
      evaluateCartItem(s, quantity) = "VALID" <=> ~invalidReason(s, quantity)

\* What was cut to size can be ordered, if the SKU sells at all.
ASSUME CutIsValid ==
    \A s \in Sku, quantity \in 1..4 :
      LET cut == clampCartQuantity(quantity, s.available, s.limit)
      IN  /\ cut \in 1..quantity
          /\ Addable(s, quantity) => evaluateCartItem(s, cut) = "VALID"

\* A merge loses no line and no selection, and cuts no line that both sides
\* may keep.
ASSUME MergeKeeps ==
    \A u, g \in Line, s \in Sku :
      LET m == mergeCartLines([i \in {1} |-> u], [i \in {1} |-> g], [i \in {1} |-> s])[1]
      IN  /\ m # NoLine <=> u # NoLine \/ g # NoLine
          /\ m.selected <=> u.selected \/ g.selected
          /\ m.quantity <= u.quantity + g.quantity
          /\ s.available = 3 /\ s.limit = 0 => m.quantity = Least({u.quantity + g.quantity, 3})

\* A guest cart that is normalized keeps every SKU and its selection; whatever
\* it asks for, the clamp that follows stores what it would of the whole.
GuestLine == [sku : {1, 2}, quantity : 0..4, selected : BOOLEAN]
ASSUME NormalizedKeeps ==
    \A lines \in UNION {[1..n -> GuestLine] : n \in 0..3} :
      LET usable == {k \in DOMAIN lines : lines[k].quantity > 0}
          normal == normalizeGuestLines(lines)
      IN  /\ DOMAIN normal = {lines[k].sku : k \in usable}
          /\ \A s \in DOMAIN normal :
               LET whole == Cardinality({<<k, n>> \in usable \X (1..4) :
                                           lines[k].sku = s /\ n <= lines[k].quantity})
               IN  /\ normal[s].selected <=> \E k \in usable : lines[k].sku = s /\ lines[k].selected
                   /\ normal[s].quantity \in Least({whole, MAX_CART_ITEM_QUANTITY})..whole
                   /\ clampCartQuantity(normal[s].quantity, 5, 0) = clampCartQuantity(whole, 5, 0)

(* Who sees what in the back office, of all who can be made a user.        *)

\* What the menu shows opens, and for a team the API answers it.
ASSUME MenuOpens == Team!MenuOpens

\* What the forms of the order board send is answered; the buttons of a case are
\* shown to members of staff whom the API refuses.
ASSUME ButtonsOpen == Team!ButtonsOpen
ASSUME SomeRefused ==
    /\ Team!RefusedCases # {}
    /\ \A p \in Team!RefusedCases : p.member = "STAFF" /\ "afterSales.manage" \notin p.buttons

\* Lists, answers, parcels and cases agree on who sees which part of an order.
ASSUME ListedOpens == Team!ListedOpens

\* Who may decide a case sees it.
ASSUME WhoDecidesSees == Team!WhoDecidesSees

\* Merchants may reply to reviews, and none is listed to them.
ASSUME RepliesUnseen == ~Team!RepliesToWhatIsListed

\* The menu shows the platform's roles three pages that the API refuses them.
ASSUME RefusedToPlatform ==
    Team!RefusedToPlatform = {"commerce.products", "commerce.inventory", "commerce.promotions"}

\* There are grants with which a member of staff has a menu and no page to land on.
ASSUME SomeStranded == Team!Stranded # {}
=============================================================================
