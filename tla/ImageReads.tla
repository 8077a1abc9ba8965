----------------------------- MODULE ImageReads -----------------------------
(***************************************************************************)
(* The handlers that read, among the requests of ImageLifecycle.  A read   *)
(* handler calls MongoDB once and then works on its own copy, so a read is *)
(* one step.  What it can trip over is the links of a variant: a pointer   *)
(* that the create handler sets, that every update has to keep, and that   *)
(* the rewriting of links follows without a test for nil.                  *)
(***************************************************************************)
EXTENDS ImageLifecycle

VARIABLES
    linked,                 \* the <<image, variant>> stored with links
    enableURLRewriting,     \* the configuration
    reply                   \* the answer to the last read, NoReply after an update

readVars == <<db, linked, enableURLRewriting, reply>>

\* The handler dereferences nil: net/http drops the connection, no status.
Panic == 0

Statuses == {200, 404, 500, Panic}

NoReply == [op |-> "none"]

Reply(op, i, v, status) == [op |-> op, image |-> i, variant |-> v, status |-> status]

ReadTypeOK ==
    /\ TypeOK
    /\ linked \subseteq Images \X Variants
    /\ enableURLRewriting \in BOOLEAN
    /\ \/ reply = NoReply
       \/ /\ reply.op \in {"GetImages", "GetImage", "GetDownloads", "GetDownload"}
          /\ reply.status \in Statuses

ReadInit ==
    /\ Init
    /\ linked = {}
    /\ enableURLRewriting \in BOOLEAN
    /\ reply = NoReply

-----------------------------------------------------------------------------
(* What the updates do to the links of variants                             *)

LinkNewDownload(i, v, type) ==
    /\ CreateDownload(i, v, type)
    /\ linked' = linked \cup {<<i, v>>}

\* Fault: the body of the request replaces the variant, links and all.
DropLinks(i, v, s, type) ==
    /\ UpdateDownload(i, v, s, type)
    /\ linked' = linked \ {<<i, v>>}

\* The links of the variant that the body replaces are copied to it.
KeepLinks(i, v, s, type) ==
    /\ UpdateDownload(i, v, s, type)
    /\ UNCHANGED linked

\* Neither a new image, nor the body of a PUT, nor the fields that the publish
\* handler sets touch the links of a variant.
UpdateOther(i) ==
    /\ CreateImage(i) \/ (\E s \in PutStates : UpdateImage(i, s)) \/ PublishImage(i)
    /\ UNCHANGED linked

Update ==
    /\ \E i \in Images :
          \/ UpdateOther(i)
          \/ \E v \in Variants, type \in Types \cup {NoType} : LinkNewDownload(i, v, type)
          \/ \E v \in Variants, s \in DownloadStates, type \in Types \cup {NoType} :
                KeepLinks(i, v, s, type)
    /\ reply' = NoReply
    /\ UNCHANGED enableURLRewriting

-----------------------------------------------------------------------------
(* The reads.  built: the links library could rebuild every link it was     *)
(* given, from the headers of the request; answered: MongoDB was.           *)

\* Rewriting the links of an image skips an image without links, so it fails
\* only if a link cannot be rebuilt.
RewriteImageLinks(built) == IF enableURLRewriting /\ ~built THEN 500 ELSE 200

\* Rewriting the links of the variants vs of image i, in some order: the first
\* nil or the first link that cannot be rebuilt ends the handler.
RewriteDownloadLinks(i, vs, built) ==
    IF ~enableURLRewriting \/ vs = {} THEN {200}
    ELSE (IF \E v \in vs : <<i, v>> \notin linked THEN {Panic} ELSE {})
           \cup (IF built THEN IF \A v \in vs : <<i, v>> \in linked THEN {200} ELSE {}
                 ELSE IF \E v \in vs : <<i, v>> \in linked THEN {500} ELSE {})

GetImagesStatus(answered, built) ==
    IF ~answered THEN {500}
    ELSE IF Stored = {} THEN {200}
    ELSE {RewriteImageLinks(built)}

GetImageStatus(i, answered, built) ==
    IF ~answered THEN {500}
    ELSE IF db[i] = NoImage THEN {404}
    ELSE {RewriteImageLinks(built)}

GetDownloadsStatus(i, answered, built) ==
    IF ~answered THEN {500}
    ELSE IF db[i] = NoImage THEN {404}
    ELSE RewriteDownloadLinks(i, VariantsOf(db[i]), built)

\* The links are rewritten before the handler knows that the variant exists:
\* a missing one is an empty download, whose links are nil.
GetDownloadStatus(i, v, answered, built) ==
    IF ~answered THEN {500}
    ELSE IF db[i] = NoImage THEN {404}
    ELSE IF v \notin VariantsOf(db[i]) THEN {IF enableURLRewriting THEN Panic ELSE 404}
    ELSE RewriteDownloadLinks(i, {v}, built)

Read ==
    /\ \E i \in Images, v \in Variants, answered, built \in BOOLEAN :
          \/ \E status \in GetImagesStatus(answered, built) :
                reply' = Reply("GetImages", i, v, status)
          \/ \E status \in GetImageStatus(i, answered, built) :
                reply' = Reply("GetImage", i, v, status)
          \/ \E status \in GetDownloadsStatus(i, answered, built) :
                reply' = Reply("GetDownloads", i, v, status)
          \/ \E status \in GetDownloadStatus(i, v, answered, built) :
                reply' = Reply("GetDownload", i, v, status)
    /\ UNCHANGED <<db, linked, enableURLRewriting>>

ReadNext == Update \/ Read

ReadSpec == ReadInit /\ [][ReadNext]_readVars

-----------------------------------------------------------------------------

\* Whatever was done to an image before, reading it never follows a nil
\* pointer, save for the one request of the finding below: every path that
\* stores a variant stores its links (CreateDownloadHandler) or keeps them
\* (UpdateDownloadHandler, UpdateImageHandler, PublishImageHandler), and
\* rewriteDownloadLinks relies on it.
ReadsFollowNoNil ==
    (reply # NoReply /\ reply.status = Panic) =>
        reply.op = "GetDownload" /\ reply.variant \notin VariantsOf(db[reply.image])

\* A variant that the image does not have is answered 404 (swagger.yaml,
\* responses of GET /images/{image_id}/downloads/{variant}).
MissingVariantIsNotFound ==
    (/\ reply # NoReply
     /\ reply.op = "GetDownload"
     /\ db[reply.image] # NoImage
     /\ reply.variant \notin VariantsOf(db[reply.image]))
        => reply.status \in {404, 500}
=============================================================================
