----------------------------- MODULE ImageModel -----------------------------
(***************************************************************************)
(* The models package: the states of an image and of its download          *)
(* variants, the tables of allowed transitions, the validations that the   *)
(* handlers call, and what each kind of update writes to an image.         *)
(* Every operator is pure.  Of an image the model keeps its state and, for *)
(* each variant, the variant's state and type: nothing else in a stored    *)
(* image decides which requests the API accepts.                           *)
(***************************************************************************)
CONSTANTS Variants,     \* names of download variants
          Types,        \* values of a variant's type that are not empty
          NoType,       \* the empty type
          NoDownload,   \* the variant is not a key of Image.Downloads
          NoImage       \* no document with that id

ImageStates == {"created", "uploaded", "importing", "imported", "published",
                "completed", "deleted", "failed_import", "failed_publish"}

DownloadStates == {"pending", "importing", "imported", "published",
                   "completed", "failed"}

Download == [state: DownloadStates, type: Types \cup {NoType}]

Image == [state: ImageStates, downloads: [Variants -> Download \cup {NoDownload}]]

ASSUME SentinelAssumption ==
    /\ NoType \notin Types
    /\ NoDownload \notin Download
    /\ NoImage \notin Image

NoError == "ok"

\* The errors of the apierrors package that the handlers return, and one for
\* each external service.
Errors ==
    {"ErrImageNotFound", "ErrVariantNotFound", "ErrImageFilenameTooLong",
     "ErrImageNoCollectionID", "ErrImageInvalidState", "ErrImageDownloadTypeMismatch",
     "ErrImageDownloadInvalidState", "ErrImageIDMismatch", "ErrVariantIDMismatch",
     "ErrImageAlreadyCompleted", "ErrImageStateTransitionNotAllowed",
     "ErrImageBadInitialState", "ErrImageNotImporting", "ErrImageNotPublished",
     "ErrVariantAlreadyExists", "ErrVariantStateTransitionNotAllowed",
     "ErrImageDownloadBadInitialState", "ErrImageUploadEmpty", "ErrImageUploadPathEmpty",
     "ErrMongo", "ErrKafka"}

-----------------------------------------------------------------------------
(* Transition tables                                                       *)

\* Fault: a state may follow itself, as for an update that only repeats it.
TransitionAllowedToSelf(s, target) ==
    \/ s = target
    \/ s = "created"   /\ target \in {"uploaded", "deleted"}
    \/ s = "uploaded"  /\ target \in {"importing", "failed_import", "deleted"}
    \/ s = "importing" /\ target \in {"imported", "failed_import", "deleted"}
    \/ s = "imported"  /\ target \in {"published", "deleted"}
    \/ s = "published" /\ target \in {"completed", "failed_publish", "deleted"}

TransitionAllowed(s, target) ==
    \/ s = "created"   /\ target \in {"uploaded", "deleted"}
    \/ s = "uploaded"  /\ target \in {"importing", "failed_import", "deleted"}
    \/ s = "importing" /\ target \in {"imported", "failed_import", "deleted"}
    \/ s = "imported"  /\ target \in {"published", "deleted"}
    \/ s = "published" /\ target \in {"completed", "failed_publish", "deleted"}
    \/ s \in {"completed", "failed_import", "failed_publish"} /\ target = "deleted"

\* A state that does not parse counts as created; a target that does not
\* parse is never allowed.
StateTransitionAllowed(im, target) ==
    /\ target \in ImageStates
    /\ TransitionAllowed(IF im.state \in ImageStates THEN im.state ELSE "created", target)

DownloadTransitionAllowed(s, target) ==
    \/ s = "pending"   /\ target = "importing"
    \/ s = "importing" /\ target \in {"imported", "failed"}
    \/ s = "imported"  /\ target = "published"
    \/ s = "published" /\ target = "completed"

DownloadStateTransitionAllowed(d, target) ==
    /\ target \in DownloadStates
    /\ DownloadTransitionAllowed(IF d.state \in DownloadStates THEN d.state ELSE "pending", target)

-----------------------------------------------------------------------------
(* Validations: the error each returns, NoError for nil.  A request state   *)
(* outside ImageStates (DownloadStates) stands for one that does not parse; *)
(* "" is the state that the body leaves out.                                *)

ValidateUpload(upload) ==
    CASE upload = "none"      -> "ErrImageUploadEmpty"
      [] upload = "emptyPath" -> "ErrImageUploadPathEmpty"
      [] OTHER                -> NoError

Validate(body) ==
    IF body.longFilename THEN "ErrImageFilenameTooLong"
    ELSE IF body.state \notin ImageStates THEN "ErrImageInvalidState"
    ELSE IF body.state = "uploaded" THEN ValidateUpload(body.upload)
    ELSE NoError

DownloadValidate(s) ==
    IF s \in DownloadStates \cup {""} THEN NoError ELSE "ErrImageDownloadInvalidState"

\* Completed images accept no update at all, although the table lets them be
\* deleted.
ValidateTransitionFrom(s, existing) ==
    IF s # "" /\ ~StateTransitionAllowed(existing, s)
    THEN "ErrImageStateTransitionNotAllowed"
    ELSE IF existing.state = "completed" THEN "ErrImageAlreadyCompleted"
    ELSE NoError

DownloadValidateTransitionFrom(s, type, ed) ==
    IF ~DownloadStateTransitionAllowed(ed, s) THEN "ErrVariantStateTransitionNotAllowed"
    ELSE IF type # NoType /\ ed.type # NoType /\ type # ed.type
    THEN "ErrImageDownloadTypeMismatch"
    ELSE NoError

ValidateForImage(s, im) ==
    CASE s = "importing" /\ im.state \notin {"uploaded", "importing"} -> "ErrImageNotImporting"
      [] s = "imported"  /\ im.state # "importing"  -> "ErrImageNotImporting"
      [] s = "completed" /\ im.state = "completed"  -> "ErrImageAlreadyCompleted"
      [] s = "completed" /\ im.state \notin {"completed", "published"} -> "ErrImageNotPublished"
      [] OTHER -> NoError

\* The http status that handleError chooses for an error.
StatusOf(err) ==
    CASE err \in {"ErrImageNotFound", "ErrVariantNotFound"} -> 404
      [] err \in {"ErrImageFilenameTooLong", "ErrImageNoCollectionID",
                  "ErrImageInvalidState", "ErrImageDownloadTypeMismatch",
                  "ErrImageDownloadInvalidState", "ErrImageIDMismatch",
                  "ErrVariantIDMismatch"} -> 400
      [] err \in {"ErrImageAlreadyCompleted", "ErrImageStateTransitionNotAllowed",
                  "ErrImageBadInitialState", "ErrImageNotImporting",
                  "ErrImageNotPublished", "ErrVariantAlreadyExists",
                  "ErrVariantStateTransitionNotAllowed",
                  "ErrImageDownloadBadInitialState"} -> 403
      [] OTHER -> 500

-----------------------------------------------------------------------------
(* The state of an image that follows from its variants                     *)

VariantsOf(im) == {v \in Variants : im.downloads[v] # NoDownload}

AllDownloadsOfState(im, s) ==
    /\ VariantsOf(im) # {}
    /\ \A v \in VariantsOf(im) : im.downloads[v].state = s

AnyDownloadsOfState(im, s) == \E v \in VariantsOf(im) : im.downloads[v].state = s

\* Fault: the image follows its first variant instead of its last.
UpdatedStateOfAny(im) ==
    CASE im.state = "importing" /\ AnyDownloadsOfState(im, "failed")    -> "failed_import"
      [] im.state = "importing" /\ AnyDownloadsOfState(im, "imported")  -> "imported"
      [] im.state = "published" /\ AnyDownloadsOfState(im, "completed") -> "completed"
      [] OTHER -> im.state

UpdatedState(im) ==
    CASE im.state = "importing" /\ AnyDownloadsOfState(im, "failed")    -> "failed_import"
      [] im.state = "importing" /\ AllDownloadsOfState(im, "imported")  -> "imported"
      [] im.state = "published" /\ AnyDownloadsOfState(im, "failed")    -> "failed_publish"
      [] im.state = "published" /\ AllDownloadsOfState(im, "completed") -> "completed"
      [] OTHER -> im.state

-----------------------------------------------------------------------------
(* What the handlers write.  UpsertImage and UpdateImage are $set updates:  *)
(* a field that the update leaves empty keeps its value in the store.       *)

\* Fault: the create handler does not copy the state of the request.
NewImageWithoutState == [state |-> "", downloads |-> [v \in Variants |-> NoDownload]]

NewImage == [state |-> "created", downloads |-> [v \in Variants |-> NoDownload]]

\* The body of a PUT image never carries downloads.
SetState(stored, s) == [stored EXCEPT !.state = s]

AddDownload(im, v, type) ==
    [state     |-> "importing",
     downloads |-> [im.downloads EXCEPT ![v] = [state |-> "importing", type |-> type]]]

\* Fault: the image keeps its state whatever becomes of its variants.
ReplaceDownloadOnly(im, v, s, type) ==
    [im EXCEPT !.downloads = [@ EXCEPT ![v] = [state |-> s, type |-> type]]]

ReplaceDownload(im, v, s, type) ==
    LET new == [im EXCEPT !.downloads = [@ EXCEPT ![v] = [state |-> s, type |-> type]]]
    IN  [new EXCEPT !.state = UpdatedState(new)]

\* The publish update sets the state of the variants it names and leaves
\* their type alone; a variant that the store lacks would be added.
PublishDownloads(stored, vs) ==
    [state     |-> "published",
     downloads |-> [v \in Variants |->
        IF v \in vs
        THEN [state |-> "published",
              type  |-> IF stored.downloads[v] = NoDownload
                        THEN NoType ELSE stored.downloads[v].type]
        ELSE stored.downloads[v]]]

-----------------------------------------------------------------------------
(* The checks that each handler makes on the image it read, in their order. *)

UpdateImageError(im, s) ==
    IF im = NoImage THEN "ErrImageNotFound" ELSE ValidateTransitionFrom(s, im)

\* Fault: the new variant is not validated against the state of its image.
CreateDownloadErrorAnyImage(im, v) ==
    IF im = NoImage THEN "ErrImageNotFound"
    ELSE IF im.downloads[v] # NoDownload THEN "ErrVariantAlreadyExists"
    ELSE NoError

CreateDownloadError(im, v) ==
    IF im = NoImage THEN "ErrImageNotFound"
    ELSE IF ValidateForImage("importing", im) # NoError THEN ValidateForImage("importing", im)
    ELSE IF im.downloads[v] # NoDownload THEN "ErrVariantAlreadyExists"
    ELSE NoError

\* Fault: the new variant is not validated against the one it replaces.
UpdateDownloadErrorAnyStep(im, v, s, type) ==
    IF im = NoImage THEN "ErrImageNotFound"
    ELSE IF im.downloads[v] = NoDownload THEN "ErrVariantNotFound"
    ELSE ValidateForImage(s, im)

UpdateDownloadError(im, v, s, type) ==
    IF im = NoImage THEN "ErrImageNotFound"
    ELSE IF im.downloads[v] = NoDownload THEN "ErrVariantNotFound"
    ELSE IF ValidateForImage(s, im) # NoError THEN ValidateForImage(s, im)
    ELSE DownloadValidateTransitionFrom(s, type, im.downloads[v])

\* Fault: an image may be published again, to send lost events for instance.
PublishImageErrorAgain(im) ==
    IF im = NoImage THEN "ErrImageNotFound"
    ELSE IF im.state # "published" /\ ~StateTransitionAllowed(im, "published")
    THEN "ErrImageStateTransitionNotAllowed"
    ELSE NoError

PublishImageError(im) ==
    IF im = NoImage THEN "ErrImageNotFound"
    ELSE IF ~StateTransitionAllowed(im, "published") THEN "ErrImageStateTransitionNotAllowed"
    ELSE NoError
=============================================================================
