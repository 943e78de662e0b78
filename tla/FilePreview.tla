----------------------------- MODULE FilePreview -----------------------------
(***************************************************************************)
(* What the admin console shows of files, composables/useFilePreview.ts,   *)
(* as functions of its state: for each key, the object URL that is shown.  *)
(* A URL is the file it stands for; `live' counts those that were created  *)
(* and not revoked, and `wanted' remembers what was last asked for.        *)
(***************************************************************************)
EXTENDS Naturals, FiniteSets

CONSTANTS Keys \* what a file can be shown for: a row of a form, an image of a store

NoFile == 0

\* A download, of a file for a key; aborted: its request has been cancelled.
Download(key, generation, file) ==
    [key |-> key, generation |-> generation, file |-> file, aborted |-> FALSE]

NoPreviews ==
    [urls |-> [k \in Keys |-> NoFile], errors |-> {}, live |-> 0,
     requests |-> [k \in Keys |-> 0], generations |-> [k \in Keys |-> 0],
     downloads |-> {}, wanted |-> [k \in Keys |-> NoFile]]

Abort(downloads, K) ==
    {[d EXCEPT !.aborted = @ \/ d.key \in K] : d \in downloads}

cancelRequest(p, key) ==
    [p EXCEPT !.requests[key] = 0, !.downloads = Abort(@, {key})]

\* Mutant: a URL that is replaced is forgotten, not revoked.
replaceAndForget(p, key, file) ==
    [p EXCEPT !.urls[key] = file, !.errors = @ \ {key}, !.live = @ + 1]

replaceUrl(p, key, file) ==
    [p EXCEPT !.urls[key] = file, !.errors = @ \ {key},
              !.live = (IF p.urls[key] = NoFile THEN @ ELSE @ - 1) + 1]

showFile(p, key, file) ==
    [replaceUrl(cancelRequest(p, key), key, file) EXCEPT !.wanted[key] = file]

clearPreview(p, key) ==
    [cancelRequest(p, key) EXCEPT
        !.generations[key] = @ + 1, !.errors = @ \ {key}, !.urls[key] = NoFile,
        !.live = IF p.urls[key] = NoFile THEN @ ELSE @ - 1, !.wanted[key] = NoFile]

\* Up to the await; an absent file is cleared at once.
showFileId(p, key, file) ==
    LET generation == p.generations[key] + 1
    IN  IF file = NoFile THEN clearPreview(p, key)
        ELSE [cancelRequest(p, key) EXCEPT
                !.generations[key] = generation, !.requests[key] = generation,
                !.errors = @ \ {key}, !.wanted[key] = file,
                !.downloads = @ \cup {Download(key, generation, file)}]

\* The state once files have been shown for K, from the start.
showFiles(K, file) ==
    LET given == {k \in K : file[k] # NoFile}
    IN  [urls |-> [k \in Keys |-> NoFile], errors |-> {}, live |-> 0,
         requests |-> [k \in Keys |-> IF k \in given THEN 1 ELSE 0],
         generations |-> [k \in Keys |-> IF k \in K THEN 1 ELSE 0],
         downloads |-> {Download(k, 1, file[k]) : k \in given},
         wanted |-> [k \in Keys |-> IF k \in K THEN file[k] ELSE NoFile]]

isCurrent(p, d) == p.requests[d.key] = d.generation

Settled(p, d) ==
    [p EXCEPT !.downloads = @ \ {d},
              !.requests[d.key] = IF isCurrent(p, d) THEN 0 ELSE @]

\* The bytes may have come before the abort: then it cannot stop them.
downloaded(p, d) ==
    IF isCurrent(p, d) THEN replaceUrl(Settled(p, d), d.key, d.file) ELSE Settled(p, d)

downloadFailed(p, d) ==
    IF d.aborted THEN Settled(p, d) ELSE [Settled(p, d) EXCEPT !.errors = @ \cup {d.key}]

\* The component is unmounted; its downloads end later.
dispose(p) ==
    [NoPreviews EXCEPT !.live = p.live - Cardinality({k \in Keys : p.urls[k] # NoFile}),
                       !.downloads = Abort(p.downloads, Keys)]
=============================================================================
