----------------------------- MODULE AddressBook -----------------------------
(***************************************************************************)
(* The shipping addresses of a buyer, addresses/address.service.ts.  Each  *)
(* request reads first, outside its transaction or at its start, and then  *)
(* writes; the rows of MySQL it writes are those it finds then.            *)
(***************************************************************************)
EXTENDS Naturals, FiniteSets

CONSTANTS
    Addresses,  \* ids of Address rows
    Requests,   \* the buyer's requests, of all his devices
    MaxUpdates  \* bound: writes that raise Address.updatedAt

AddressBookAssumption == MaxUpdates \in Nat

VARIABLES
    address,    \* Address rows: whether default, and when updated
    now,        \* the last updatedAt
    request,    \* request[r]: what it is about to write, and what it read
    overlapped  \* history: a removal had read and not written, and so had another request

vars == <<address, now, request, overlapped>>

None == [isDefault |-> FALSE, updatedAt |-> 0] \* no such row
Row == [isDefault : BOOLEAN, updatedAt : 1..MaxUpdates]
Stored == {a \in Addresses : address[a] # None}
Default == {a \in Stored : address[a].isDefault}

Idle == [op |-> "idle", id |-> 0, isDefault |-> FALSE]
Request == [op : {"create", "update", "remove"}, id : Addresses, isDefault : BOOLEAN] \cup {Idle}

Reads(r, op, a, isDefault) ==
    /\ request[r] = Idle
    /\ request' = [request EXCEPT ![r] = [op |-> op, id |-> a, isDefault |-> isDefault]]
    /\ overlapped' = (overlapped \/ \E s \in Requests :
         request[s] # Idle /\ "remove" \in {op, request[s].op})
    /\ UNCHANGED <<address, now>>

Done(r) == request' = [request EXCEPT ![r] = Idle] /\ UNCHANGED overlapped

\* updateMany; its updatedAt counts for rows that are not the default any more.
NoDefault ==
    [a \in Addresses |-> IF a \in Default THEN [isDefault |-> FALSE, updatedAt |-> now'] ELSE address[a]]

\* The book as it is written once a is.
WithRow(rows, a, isDefault) == [rows EXCEPT ![a] = [isDefault |-> isDefault, updatedAt |-> now']]

Writes(r, op) == request[r].op = op /\ now < MaxUpdates /\ now' = now + 1 /\ Done(r)
-----------------------------------------------------------------------------
\* The first address of a book becomes its default.
CreateRead(r, a) ==
    /\ address[a] = None /\ \A s \in Requests : request[s].id # a
    /\ \E asked \in BOOLEAN : Reads(r, "create", a, asked \/ Stored = {})

CreateWrite(r) ==
    /\ Writes(r, "create")
    /\ address' = WithRow(IF request[r].isDefault THEN NoDefault ELSE address,
                          request[r].id, request[r].isDefault)

UpdateRead(r, a) ==
    /\ a \in Stored
    /\ \E asked \in BOOLEAN : Reads(r, "update", a, asked)

UpdateWrite(r) ==
    /\ request[r].id \in Stored
    /\ Writes(r, "update")
    /\ address' = IF request[r].isDefault THEN WithRow(NoDefault, request[r].id, TRUE)
                  ELSE [address EXCEPT ![request[r].id].updatedAt = now']

RemoveRead(r, a) == a \in Stored /\ Reads(r, "remove", a, address[a].isDefault)

\* Mutant: the default goes with its address.
nobodyReplaces(rows) == {}

\* The row that was updated last, of those of the buyer; ties go either way.
replacements(rows) ==
    {a \in Addresses : rows[a] # None /\ \A b \in Addresses : rows[b].updatedAt <= rows[a].updatedAt}

RemoveWrite(r) ==
    LET left == [address EXCEPT ![request[r].id] = None]
    IN  /\ request[r].id \in Stored
        /\ Writes(r, "remove")
        /\ IF request[r].isDefault /\ replacements(left) # {}
           THEN \E a \in replacements(left) : address' = WithRow(left, a, TRUE)
           ELSE address' = left

\* The row has been removed meanwhile: Prisma throws, and nothing is written.
Gone(r) ==
    /\ request[r].op \in {"update", "remove"} /\ request[r].id \notin Stored
    /\ Done(r) /\ UNCHANGED <<address, now>>
-----------------------------------------------------------------------------
Init ==
    /\ address = [a \in Addresses |-> None] /\ now = 0
    /\ request = [r \in Requests |-> Idle] /\ overlapped = FALSE

Next == \E r \in Requests :
    \/ \E a \in Addresses : CreateRead(r, a) \/ UpdateRead(r, a) \/ RemoveRead(r, a)
    \/ CreateWrite(r) \/ UpdateWrite(r) \/ RemoveWrite(r) \/ Gone(r)

Spec == Init /\ [][Next]_vars
-----------------------------------------------------------------------------
TypeOK ==
    /\ address \in [Addresses -> Row \cup {None}]
    /\ now \in 0..MaxUpdates
    /\ request \in [Requests -> Request]
    /\ overlapped \in BOOLEAN

(* Whatever is created, made the default or removed, in any order and at   *)
(* the same time: a book with addresses has one default, which the         *)
(* checkout starts from.  Only a removal must be alone: what it overlaps   *)
(* with can leave two defaults, or none.                                   *)
OneDefault == ~overlapped /\ Stored # {} => Cardinality(Default) = 1
=============================================================================
