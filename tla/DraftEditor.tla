----------------------------- MODULE DraftEditor -----------------------------
(***************************************************************************)
(* The pictures of two forms of the admin console: of a product's draft in *)
(* ProductDraftDrawer.vue, where rows are added and removed, and of a      *)
(* store, its logo and its banner, in StoreManagement.vue.  Rows are       *)
(* cleared and uploaded to, while uploads and the downloads of FilePreview *)
(* end in any order, or fail.                                              *)
(*                                                                         *)
(* A row is busy by its place in the list, and one place is remembered.    *)
(***************************************************************************)
EXTENDS FilePreview, Sequences, SequencesExt

CONSTANTS MaxPicks, MaxGenerations \* bounds: files picked; clears of a row, by its generations

DraftEditorAssumption == MaxPicks \in Nat /\ MaxGenerations \in Nat /\ IsFiniteSet(Keys)

VARIABLES
    page,           \* "draft" or "store"
    media,          \* the rows of the form, in order
    fileId,         \* fileId[k]: what will be saved for row k
    previews,       \* the state of useFilePreview
    uploadingIndex, \* the place that is shown as busy, or 0
    uploads,        \* uploads under way
    picks,          \* files picked so far: a file is named by its number
    mounted         \* the drawer is open

vars == <<page, media, fileId, previews, uploadingIndex, uploads, picks, mounted>>

Saved == MaxPicks + 1 \* the file that a row was saved with
Places == 1..Len(media)

\* The drawer opens on a saved draft, with one picture.
OpenDraft ==
    /\ page = "draft"
    /\ \E k \in Keys :
         /\ media = <<k>>
         /\ fileId = [[j \in Keys |-> NoFile] EXCEPT ![k] = Saved]

\* The page of the store, which may have a logo, or a banner.
loadStore ==
    /\ page = "store"
    /\ media = SetToSeq(Keys)
    /\ fileId \in [Keys -> {NoFile, Saved}]

\* What was saved is downloaded.
Init ==
    /\ OpenDraft \/ loadStore
    /\ previews = showFiles(Range(media), fileId)
    /\ uploadingIndex = 0 /\ uploads = {} /\ picks = 0
    /\ mounted = TRUE

\* A new row: nothing has ever been shown for it.
addMedia(k) ==
    /\ page = "draft" /\ mounted
    /\ k \notin Range(media) /\ previews.generations[k] = 0
    /\ fileId[k] = NoFile /\ \A u \in uploads : u.key # k
    /\ media' = Append(media, k)
    /\ UNCHANGED <<page, fileId, previews, uploadingIndex, uploads, picks, mounted>>

removeMedia(i) ==
    /\ page = "draft" /\ mounted
    /\ Len(media) > 1
    /\ previews' = clearPreview(previews, media[i])
    /\ media' = RemoveAt(media, i)
    /\ UNCHANGED <<page, fileId, uploadingIndex, uploads, picks, mounted>>

\* The upload control takes no clicks while it is shown as busy.
Clear(i) ==
    /\ mounted /\ uploadingIndex # i
    /\ previews.generations[media[i]] < MaxGenerations
    /\ fileId' = [fileId EXCEPT ![media[i]] = NoFile]
    /\ previews' = clearPreview(previews, media[i])
    /\ UNCHANGED <<page, media, uploadingIndex, uploads, picks, mounted>>

clearFile(i) == page = "draft" /\ Clear(i)
clearStoreImage(i) == page = "store" /\ Clear(i)

Upload(i) ==
    /\ mounted /\ uploadingIndex # i
    /\ picks < MaxPicks
    /\ picks' = picks + 1
    /\ uploadingIndex' = i
    /\ previews' = showFile(previews, media[i], picks')
    /\ uploads' = uploads \cup {[key |-> media[i], file |-> picks', previous |-> fileId[media[i]]]}
    /\ UNCHANGED <<page, media, fileId, mounted>>

registerFile(i) == page = "draft" /\ Upload(i)
uploadStoreImage(i) == page = "store" /\ Upload(i)

Uploaded(u) ==
    /\ fileId' = [fileId EXCEPT ![u.key] = u.file]
    /\ uploads' = uploads \ {u}
    /\ uploadingIndex' = 0
    /\ UNCHANGED <<page, media, previews, picks, mounted>>

UploadFailed(u) ==
    /\ fileId' = [fileId EXCEPT ![u.key] = u.previous]
    /\ previews' = showFileId(previews, u.key, u.previous)
    /\ uploads' = uploads \ {u}
    /\ uploadingIndex' = 0
    /\ UNCHANGED <<page, media, picks, mounted>>

DownloadEnds(d) ==
    /\ previews' \in {downloaded(previews, d), downloadFailed(previews, d)}
    /\ UNCHANGED <<page, media, fileId, uploadingIndex, uploads, picks, mounted>>

\* Closed, or saved: what is under way ends in a drawer that is not there.
Unmount ==
    /\ mounted
    /\ mounted' = FALSE
    /\ previews' = dispose(previews)
    /\ UNCHANGED <<page, media, fileId, uploadingIndex, uploads, picks>>

Next ==
    \/ \E k \in Keys : addMedia(k)
    \/ \E i \in Places : \/ removeMedia(i) \/ clearFile(i) \/ registerFile(i)
                        \/ clearStoreImage(i) \/ uploadStoreImage(i)
    \/ \E u \in uploads : Uploaded(u) \/ UploadFailed(u)
    \/ \E d \in previews.downloads : DownloadEnds(d)
    \/ Unmount

Spec == Init /\ [][Next]_vars
-----------------------------------------------------------------------------
(* Uploads, downloads and clicks in any order, failures and aborts that    *)
(* come too late: no row shows a picture that was asked for before another *)
(* was, and every object URL is either on the screen or revoked.           *)
PreviewsAccountedFor ==
    mounted =>
      /\ previews.live = Cardinality({k \in Keys : previews.urls[k] # NoFile})
      /\ \A k \in Keys : previews.requests[k] = 0 /\ k \notin previews.errors =>
           previews.urls[k] = previews.wanted[k]

(* The design of the previews: components revoke every owned object URL on *)
(* unmount.  (It does not hold: an upload that fails after the drawer has  *)
(* closed downloads the picture it had replaced, and nobody revokes it.)   *)
NothingLeftBehind == ~mounted => previews.live = 0
=============================================================================
