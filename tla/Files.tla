-------------------------------- MODULE Files --------------------------------
(***************************************************************************)
(* Uploaded files: files/files.service.ts, with the objects on the disk of *)
(* files/local-object-storage.service.ts and the rows of FileAsset.  The   *)
(* two are written one after the other, and nothing makes both atomic.     *)
(* Every upload has an object key of its own.  No code writes a status but *)
(* READY, so a row says only whose file it is.                             *)
(***************************************************************************)
EXTENDS Naturals

CONSTANTS
    Objects, \* object keys, and ids of FileAsset rows
    Users,   \* who uploads; the team of one merchant is a part of them
    Nobody,  \* the owner of a file without a row
    Operator \* a user with a role of the platform

FilesAssumption == Nobody \notin Users /\ Operator \notin Users

VARIABLES
    disk,     \* objects there are
    asset,    \* asset[k]: FileAsset.ownerId, or Nobody
    upload,   \* upload[k]: the statement of create that k is at
    uploader, \* who sent k
    team,     \* MerchantMember rows of the merchant
    used,     \* files that a product of the merchant names
    onSale,   \* whether that product, its store and its merchant are open
    broken,   \* history: uploads that a crash or the disk broke off
    unsure    \* history: rows that were written though the database said no

vars == <<disk, asset, upload, uploader, team, used, onSale, broken, unsure>>

Statements == {"new", "write", "record", "remove", "done"}
usage == <<team, used, onSale>>
-----------------------------------------------------------------------------
(* create: the object first, then its row; without a row the object goes.  *)

Moves(k, from, to) == upload[k] = from /\ upload' = [upload EXCEPT ![k] = to]

\* FILE_REQUIRED, UNSUPPORTED_FILE_TYPE and INVALID_FILE_SIZE leave no trace.
create(k, u) ==
    /\ Moves(k, "new", "write")
    /\ uploader' = [uploader EXCEPT ![k] = u]
    /\ UNCHANGED <<disk, asset, usage, broken, unsure>>

write(k) ==
    /\ Moves(k, "write", "record")
    /\ disk' = disk \cup {k}
    /\ UNCHANGED <<asset, uploader, usage, broken, unsure>>

\* A full disk: a part of the object may be there, and is not removed.
WriteFails(k) ==
    /\ Moves(k, "write", "done")
    /\ disk' \in {disk, disk \cup {k}}
    /\ broken' = broken \cup {k}
    /\ UNCHANGED <<asset, uploader, usage, unsure>>

Record(k) ==
    /\ Moves(k, "record", "done")
    /\ asset' = [asset EXCEPT ![k] = uploader[k]]
    /\ UNCHANGED <<disk, uploader, usage, broken, unsure>>

\* The row is not written, or is and the answer of the database is lost.
RecordFails(k) ==
    /\ Moves(k, "record", "remove")
    /\ \/ UNCHANGED <<asset, unsure>>
       \/ /\ asset' = [asset EXCEPT ![k] = uploader[k]]
          /\ unsure' = unsure \cup {k}
    /\ UNCHANGED <<disk, uploader, usage, broken>>

\* Mutant: the object of a row that was refused stays.
leave(k) == Moves(k, "remove", "done") /\ UNCHANGED <<disk, asset, uploader, usage, broken, unsure>>

\* Whether the object could be removed is not looked at.
remove(k) ==
    /\ Moves(k, "remove", "done")
    /\ \/ disk' = disk \ {k} /\ UNCHANGED broken
       \/ UNCHANGED disk /\ broken' = broken \cup {k}
    /\ UNCHANGED <<asset, uploader, usage, unsure>>

Crash(k) ==
    /\ upload[k] \in {"write", "record", "remove"}
    /\ upload' = [upload EXCEPT ![k] = "done"]
    /\ broken' = broken \cup {k}
    /\ UNCHANGED <<disk, asset, uploader, usage, unsure>>
-----------------------------------------------------------------------------
(* Who is let through to the object.                                       *)

download(u, k) ==
    /\ asset[k] # Nobody
    /\ u = Operator \/ u = asset[k] \/ {u, asset[k]} \subseteq team

publicDownload(k) == asset[k] # Nobody /\ onSale /\ k \in used

\* A draft may name the files of the team, as product.service.ts validates it.
validate(k) ==
    /\ asset[k] \in team
    /\ used' = used \cup {k}
    /\ UNCHANGED <<disk, asset, upload, uploader, team, onSale, broken, unsure>>

\* A product names other files, goes on sale and off again; people join and leave.
Others ==
    /\ \/ \E S \in SUBSET used : used' = S /\ UNCHANGED <<team, onSale>>
       \/ onSale' = ~onSale /\ UNCHANGED <<team, used>>
       \/ \E u \in Users :
            /\ team' = IF u \in team THEN team \ {u} ELSE team \cup {u}
            /\ UNCHANGED <<used, onSale>>
    /\ UNCHANGED <<disk, asset, upload, uploader, broken, unsure>>
-----------------------------------------------------------------------------
Init ==
    /\ disk = {} /\ broken = {} /\ unsure = {}
    /\ asset = [k \in Objects |-> Nobody]
    /\ upload = [k \in Objects |-> "new"]
    /\ uploader = [k \in Objects |-> Nobody]
    /\ team = Users /\ used = {} /\ onSale = FALSE

Next ==
    \/ \E k \in Objects :
         \/ \E u \in Users : create(k, u)
         \/ write(k) \/ WriteFails(k) \/ Record(k) \/ RecordFails(k) \/ remove(k) \/ Crash(k)
         \/ validate(k)
    \/ Others

Spec == Init /\ [][Next]_vars
-----------------------------------------------------------------------------
Streams(k) == \A u \in Users \cup {Operator} : download(u, k) \/ publicDownload(k) => k \in disk

(* Nothing goes astray: who is let through to a file finds it, unless the  *)
(* database had written the row and said no; an object without a row is    *)
(* one of an upload that is under way or was broken off; and what a        *)
(* product names is there, whoever has left the team since.                *)
NothingAstray ==
    /\ \A k \in Objects \ unsure : Streams(k)
    /\ \A k \in disk : asset[k] = Nobody => upload[k] \notin {"new", "done"} \/ k \in broken
    /\ \A k \in used : download(Operator, k)
=============================================================================
