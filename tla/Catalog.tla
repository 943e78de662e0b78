------------------------------- MODULE Catalog -------------------------------
(***************************************************************************)
(* The taxonomy of the shop, catalog/catalog.service.ts: categories under  *)
(* categories, and what belongs to them.  A brand, franchise or character  *)
(* is a category that stays at the root; a product, template or character  *)
(* that names an entry is its holder.  Tags are left out: what joins them  *)
(* to products goes with either, so a tag that is named after the count is *)
(* removed all the same, and no reference to it is left.                   *)
(*                                                                         *)
(* No operation uses a transaction: each read and each write is a          *)
(* statement of its own, and MySQL keeps the foreign keys at each write.   *)
(* Whether a category is active is left out: the lists and the drafts of   *)
(* products read it, and a draft may name any category here.               *)
(***************************************************************************)
EXTENDS Naturals, FiniteSets

CONSTANTS
    Categories, \* ids of Category rows
    Root,       \* the parent of a category without one
    Absent,     \* the parent of an id that has no row
    Workers     \* concurrent requests of the platform's operators

CatalogAssumption == Root \notin Categories /\ Absent \notin Categories \cup {Root}

VARIABLES
    parent,    \* Category.parentId of every id
    holder,    \* the category that one product is in, or Root
    request,   \* request[w]: what worker w is in the middle of
    overlapped \* history: a category was being moved while another was

vars == <<parent, holder, request, overlapped>>

Idle == [op |-> "idle", id |-> Root, to |-> Root, cursor |-> Root, visited |-> {}]
Request ==
    [op : {"idle", "walk", "save", "count", "delete", "hide"}, id : Categories \cup {Root},
     to : Categories \cup {Root}, cursor : Categories \cup {Root}, visited : SUBSET Categories]

Stored == {c \in Categories : parent[c] # Absent}
Children(c) == {d \in Stored : parent[d] = c}

Goes(w, next) == request' = [request EXCEPT ![w] = next] /\ UNCHANGED overlapped
Done(w) == Goes(w, Idle)
Starts(w, next) == request[w] = Idle /\ request' = [request EXCEPT ![w] = next]
tables == <<parent, holder>>

-----------------------------------------------------------------------------
(* Saving: a new category goes under any there is; an old one is moved     *)
(* after a walk from its new parent to the root has not met it.            *)

\* An id is new: no request knows it.
create(c, to) ==
    /\ parent[c] = Absent
    /\ \A w \in Workers : c \notin {request[w].id, request[w].to} \cup request[w].visited
    /\ to \in Stored \cup {Root}
    /\ parent' = [parent EXCEPT ![c] = to]
    /\ UNCHANGED <<holder, request, overlapped>>

saveCategory(w, c, to) ==
    /\ c \in Stored /\ to \in Stored \cup {Root} /\ c # to
    /\ Starts(w, [op |-> IF to = Root THEN "save" ELSE "walk",
                  id |-> c, to |-> to, cursor |-> to, visited |-> {}])
    /\ overlapped' = (overlapped \/ \E v \in Workers : request[v].op \in {"walk", "save"})
    /\ UNCHANGED tables

\* CATEGORY_CYCLE, or CATEGORY_PARENT_NOT_FOUND.
Refused(w) ==
    \/ request[w].cursor \in {request[w].id} \cup request[w].visited
    \/ parent[request[w].cursor] = Absent

assertCategoryParent(w) ==
    LET above == parent[request[w].cursor]
    IN  /\ request[w].op = "walk"
        /\ IF Refused(w) THEN Done(w)
           ELSE Goes(w, [request[w] EXCEPT
                   !.op = IF above = Root THEN "save" ELSE "walk", !.cursor = above,
                   !.visited = @ \cup {request[w].cursor}])
        /\ UNCHANGED tables

write(w) ==
    /\ request[w].op = "save"
    /\ request[w].id \in Stored /\ request[w].to \in Stored \cup {Root}
    /\ parent' = [parent EXCEPT ![request[w].id] = request[w].to]
    /\ Done(w) /\ UNCHANGED holder

-----------------------------------------------------------------------------
(* Removing: what is referred to is made inactive, what is not is deleted; *)
(* the counts are made one after another, before the write.                *)

CountChildren(w, c) ==
    /\ c \in Stored
    /\ Starts(w, [Idle EXCEPT !.op = IF Children(c) = {} THEN "count" ELSE "hide", !.id = c])
    /\ UNCHANGED <<tables, overlapped>>

CountHolders(w) ==
    /\ request[w].op = "count"
    /\ Goes(w, [request[w] EXCEPT !.op = IF holder = request[w].id THEN "hide" ELSE "delete"])
    /\ UNCHANGED tables

\* Mutant: the counts decide, not the keys.
asCounted(c) == TRUE

\* onDelete: Restrict, of the keys that refer to a category, brand, franchise or character.
Unreferenced(c) == Children(c) = {} /\ holder # c

remove(w) ==
    LET c == request[w].id
    IN  /\ c \in Stored
        /\ \/ /\ request[w].op = "delete" /\ Unreferenced(c)
              /\ parent' = [parent EXCEPT ![c] = Absent]
           \/ request[w].op = "hide" /\ UNCHANGED parent
        /\ Done(w) /\ UNCHANGED holder

\* A key or a missing row refuses the write, or the process dies.
Fail(w) == request[w] # Idle /\ Done(w) /\ UNCHANGED tables

\* A merchant saves the draft of a product in the category, or in none.
hold(c) ==
    /\ c \in Stored \cup {Root}
    /\ holder' = c
    /\ UNCHANGED <<parent, request, overlapped>>

-----------------------------------------------------------------------------
Init ==
    /\ parent = [c \in Categories |-> Absent]
    /\ holder = Root
    /\ request = [w \in Workers |-> Idle]
    /\ overlapped = FALSE

Next ==
    \/ \E c \in Categories :
         \/ \E to \in Categories \cup {Root} :
              create(c, to) \/ \E w \in Workers : saveCategory(w, c, to)
         \/ \E w \in Workers : CountChildren(w, c)
    \/ \E w \in Workers :
         assertCategoryParent(w) \/ write(w) \/ CountHolders(w) \/ remove(w) \/ Fail(w)
    \/ \E c \in Categories \cup {Root} : hold(c)

Spec == Init /\ [][Next]_vars
-----------------------------------------------------------------------------
TypeOK ==
    /\ parent \in [Categories -> Categories \cup {Root, Absent}]
    /\ holder \in Categories \cup {Root}
    /\ request \in [Workers -> Request]
    /\ overlapped \in BOOLEAN

\* What is referred to is there, however old the counts of a removal are.
ReferencesHold == {parent[c] : c \in Stored} \cup {holder} \subseteq Stored \cup {Root}

\* HARNESS.md:229: no category is under itself: of any categories, one has its parent elsewhere.
NoCycle == \A T \in SUBSET Stored : T # {} => \E c \in T : parent[c] \notin T

(* The tree stands: no reference dangles, whatever is created, held, moved *)
(* and removed meanwhile; and as long as moves are made one at a time no   *)
(* category is under itself.                                               *)
TreeStands == ReferencesHold /\ (~overlapped => NoCycle)
=============================================================================
