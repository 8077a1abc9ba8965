----------------------------- MODULE MCImageAPI -----------------------------
(* Instances of ImageAPI for TLC: the requests that clients send. *)
EXTENDS ImageAPI, TLC

Creates == [op: {"CreateImage"}, image: Images, state: {"created"},
            longFilename: {FALSE}, hasCollection: {TRUE}]

Puts(states) ==
    [op: {"UpdateImage"}, image: Images, state: states,
     longFilename: {FALSE}, upload: {"path"}, sameID: {TRUE}]

NewDownloads ==
    [op: {"CreateDownload"}, image: Images, variant: Variants,
     state: {"importing"}, type: {NoType}]

DownloadPuts(states) ==
    [op: {"UpdateDownload"}, image: Images, variant: Variants,
     sameID: {TRUE}, state: states, type: {NoType}]

\* Every call, with the states that some transition leads to, and one body
\* that is refused at once.  failed_publish is left out: it differs from
\* completed only in what it refuses.
AnyClientRequests ==
    Creates \cup Puts((ImageStates \ {"created", "failed_publish"}) \cup {"other"}) \cup NewDownloads
      \cup DownloadPuts({"imported", "published", "completed", "failed"})
      \cup PublishImageRequest

\* The importer, the publisher and their callers: imported, published and
\* completed images come from the API alone.
ImporterRequests ==
    Creates \cup Puts({"uploaded", "failed_import", "deleted"}) \cup NewDownloads
      \cup DownloadPuts({"imported", "completed", "failed"})
      \cup PublishImageRequest

\* Bodies that are refused before any call, among some that are not.
InvalidRequests ==
    Creates \cup Puts({"uploaded"}) \cup NewDownloads
      \cup [op: {"CreateImage"}, image: Images, state: {"created", "uploaded", ""},
            longFilename: BOOLEAN, hasCollection: BOOLEAN]
      \cup [op: {"UpdateImage"}, image: Images, state: {"uploaded", "other"},
            longFilename: BOOLEAN, upload: {"none", "emptyPath", "path"}, sameID: BOOLEAN]
      \cup [op: {"CreateDownload"}, image: Images, variant: Variants,
            state: DownloadStates \cup {"", "other"}, type: {NoType}]
      \cup [op: {"UpdateDownload"}, image: Images, variant: Variants,
            sameID: BOOLEAN, state: {"imported", "", "other"}, type: {NoType}]

Symmetry == Permutations(Workers) \cup Permutations(Variants)
=============================================================================
