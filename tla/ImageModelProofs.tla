-------------------------- MODULE ImageModelProofs --------------------------
(***************************************************************************)
(* Facts about the operators of ImageModel, for any variants and types:    *)
(* what each write makes of an image, and what each check lets through.    *)
(***************************************************************************)
EXTENDS ImageModel, TLAPS

\* A new image is an image (CreateImageHandler).
LEMMA NewImageType == NewImage \in Image
  BY DEF NewImage, Image, ImageStates

\* Setting the state of an image changes nothing else (UpsertImage with the
\* body of a PUT).
LEMMA SetStateType ==
  ASSUME NEW im \in Image, NEW s \in ImageStates
  PROVE  /\ SetState(im, s) \in Image
         /\ SetState(im, s).state = s
         /\ SetState(im, s).downloads = im.downloads
  BY DEF SetState, Image

\* A new variant is stored as importing and so is its image
\* (CreateDownloadHandler).
LEMMA AddDownloadType ==
  ASSUME NEW im \in Image, NEW v \in Variants, NEW type \in Types \cup {NoType}
  PROVE  /\ AddDownload(im, v, type) \in Image
         /\ AddDownload(im, v, type).state = "importing"
         /\ AddDownload(im, v, type).downloads
              = [im.downloads EXCEPT ![v] = [state |-> "importing", type |-> type]]
  BY DEF AddDownload, Image, ImageStates, Download, DownloadStates

\* The state that follows from the variants is a state.
LEMMA UpdatedStateType ==
  ASSUME NEW im \in Image
  PROVE  UpdatedState(im) \in ImageStates
  BY DEF UpdatedState, Image, ImageStates

\* An updated variant replaces the stored one, and the image gets the state
\* that follows (UpdateDownloadHandler).
LEMMA ReplaceDownloadType ==
  ASSUME NEW im \in Image, NEW v \in Variants, NEW s \in DownloadStates,
         NEW type \in Types \cup {NoType}
  PROVE  LET new == [im EXCEPT !.downloads = [@ EXCEPT ![v] = [state |-> s, type |-> type]]]
         IN  /\ ReplaceDownload(im, v, s, type) \in Image
             /\ new \in Image
             /\ ReplaceDownload(im, v, s, type).state = UpdatedState(new)
             /\ ReplaceDownload(im, v, s, type).downloads
                  = [im.downloads EXCEPT ![v] = [state |-> s, type |-> type]]
             /\ new.state = im.state
             /\ new.downloads = [im.downloads EXCEPT ![v] = [state |-> s, type |-> type]]
<1> DEFINE d   == [state |-> s, type |-> type]
           new == [im EXCEPT !.downloads = [@ EXCEPT ![v] = d]]
<1>1. d \in Download
  BY DEF Download
<1>2. [im.downloads EXCEPT ![v] = d] \in [Variants -> Download \cup {NoDownload}]
  BY <1>1 DEF Image
<1>3. /\ new \in Image
      /\ new.state = im.state
      /\ new.downloads = [im.downloads EXCEPT ![v] = d]
  BY <1>2 DEF Image
<1>4. UpdatedState(new) \in ImageStates
  BY <1>3, UpdatedStateType
<1>5. ReplaceDownload(im, v, s, type) = [new EXCEPT !.state = UpdatedState(new)]
  BY DEF ReplaceDownload
<1> HIDE DEF new
<1>6. /\ [new EXCEPT !.state = UpdatedState(new)] \in Image
      /\ [new EXCEPT !.state = UpdatedState(new)].state = UpdatedState(new)
      /\ [new EXCEPT !.state = UpdatedState(new)].downloads = new.downloads
  BY <1>3, <1>4 DEF Image
<1>7. QED
  BY <1>3, <1>5, <1>6 DEF new

\* Publication leaves an image published, with the named variants published
\* and the others as they were (PublishImageHandler).
LEMMA PublishDownloadsType ==
  ASSUME NEW im \in Image, NEW vs \in SUBSET Variants
  PROVE  /\ PublishDownloads(im, vs) \in Image
         /\ PublishDownloads(im, vs).state = "published"
         /\ \A v \in vs : /\ PublishDownloads(im, vs).downloads[v] \in Download
                          /\ PublishDownloads(im, vs).downloads[v].state = "published"
         /\ \A v \in Variants \ vs : PublishDownloads(im, vs).downloads[v] = im.downloads[v]
<1> DEFINE new(v) == [state |-> "published",
                      type  |-> IF im.downloads[v] = NoDownload
                                THEN NoType ELSE im.downloads[v].type]
<1>1. ASSUME NEW v \in Variants
      PROVE  new(v) \in Download /\ new(v).state = "published"
  BY DEF Image, Download, DownloadStates
<1>2. PublishDownloads(im, vs)
        = [state     |-> "published",
           downloads |-> [v \in Variants |-> IF v \in vs THEN new(v) ELSE im.downloads[v]]]
  BY DEF PublishDownloads
<1> HIDE DEF new
<1>3. [v \in Variants |-> IF v \in vs THEN new(v) ELSE im.downloads[v]]
        \in [Variants -> Download \cup {NoDownload}]
  BY <1>1 DEF Image
<1>4. PublishDownloads(im, vs) \in Image
  BY <1>2, <1>3 DEF Image, ImageStates
<1>5. /\ PublishDownloads(im, vs).state = "published"
      /\ \A v \in Variants : PublishDownloads(im, vs).downloads[v]
                              = IF v \in vs THEN new(v) ELSE im.downloads[v]
  BY <1>2
<1>6. QED
  BY <1>1, <1>4, <1>5

\* What a successful check says of the image it was made on.
LEMMA UpdateImageChecked ==
  ASSUME NEW im \in Image \cup {NoImage}, NEW s \in ImageStates,
         UpdateImageError(im, s) = NoError
  PROVE  /\ im \in Image
         /\ TransitionAllowed(im.state, s)
         /\ im.state # "completed"
  BY DEF UpdateImageError, ValidateTransitionFrom, StateTransitionAllowed, NoError,
         Image, ImageStates

\* A variant is new, and its image open to imports.
LEMMA CreateDownloadChecked ==
  ASSUME NEW im \in Image \cup {NoImage}, NEW v \in Variants,
         CreateDownloadError(im, v) = NoError
  PROVE  /\ im \in Image
         /\ im.state \in {"uploaded", "importing"}
         /\ im.downloads[v] = NoDownload
  BY DEF CreateDownloadError, ValidateForImage, NoError

\* A variant that is updated exists, takes a step of its table, and imports
\* or completes only in an image that is importing or published.
LEMMA UpdateDownloadChecked ==
  ASSUME NEW im \in Image \cup {NoImage}, NEW v \in Variants, NEW s, NEW type,
         UpdateDownloadError(im, v, s, type) = NoError
  PROVE  /\ im \in Image
         /\ im.downloads[v] \in Download
         /\ s \in DownloadStates
         /\ DownloadTransitionAllowed(im.downloads[v].state, s)
         /\ s = "imported" => im.state = "importing"
         /\ s = "completed" => im.state = "published"
<1>1. im \in Image /\ im.downloads[v] # NoDownload
  BY DEF UpdateDownloadError, NoError
<1>2. im.downloads[v] \in Download
  BY <1>1 DEF Image
<1>3. ValidateForImage(s, im) = NoError
  BY <1>1 DEF UpdateDownloadError, NoError
<1>4. DownloadStateTransitionAllowed(im.downloads[v], s)
  BY <1>1, <1>3 DEF UpdateDownloadError, DownloadValidateTransitionFrom, NoError
<1>5. s \in DownloadStates /\ DownloadTransitionAllowed(im.downloads[v].state, s)
  BY <1>2, <1>4 DEF DownloadStateTransitionAllowed, Download
<1>6. s = "imported" => im.state = "importing"
  BY <1>3 DEF ValidateForImage, NoError
<1>7. s = "completed" => im.state = "published"
  BY <1>3 DEF ValidateForImage, NoError
<1>8. QED
  BY <1>1, <1>2, <1>5, <1>6, <1>7

\* Only an imported image is published.
LEMMA PublishImageChecked ==
  ASSUME NEW im \in Image \cup {NoImage}, PublishImageError(im) = NoError
  PROVE  im \in Image /\ im.state = "imported"
  BY DEF PublishImageError, StateTransitionAllowed, TransitionAllowed, NoError,
         Image, ImageStates
=============================================================================
