--------------------------- MODULE ImageLifecycle ---------------------------
(***************************************************************************)
(* What the image API promises about its store: every request that changes *)
(* an image takes effect in one step, on the image as it is at that        *)
(* moment, or not at all.  ImageAPI shows the handlers to implement this.  *)
(*                                                                         *)
(* PutStates are the states that clients name in PUT /images/{id}.  The    *)
(* code accepts every state its table allows (PutStates = ImageStates).    *)
(* A client that leaves imported, published and completed to the API, as   *)
(* the import and publish calls allow it to, has fewer.                    *)
(***************************************************************************)
EXTENDS ImageModel, Naturals

CONSTANTS Images, PutStates

ASSUME PutStatesAssumption == PutStates \subseteq ImageStates

VARIABLE db     \* the images collection: the document of each id, or NoImage

vars == <<db>>

TypeOK == db \in [Images -> Image \cup {NoImage}]

Init == db = [i \in Images |-> NoImage]

-----------------------------------------------------------------------------

CreateImage(i) ==
    /\ db[i] = NoImage
    /\ db' = [db EXCEPT ![i] = NewImage]

UpdateImage(i, s) ==
    /\ UpdateImageError(db[i], s) = NoError
    /\ db' = [db EXCEPT ![i] = SetState(db[i], s)]

CreateDownload(i, v, type) ==
    /\ CreateDownloadError(db[i], v) = NoError
    /\ db' = [db EXCEPT ![i] = AddDownload(db[i], v, type)]

UpdateDownload(i, v, s, type) ==
    /\ UpdateDownloadError(db[i], v, s, type) = NoError
    /\ db' = [db EXCEPT ![i] = ReplaceDownload(db[i], v, s, type)]

PublishImage(i) ==
    /\ PublishImageError(db[i]) = NoError
    /\ db' = [db EXCEPT ![i] = PublishDownloads(db[i], VariantsOf(db[i]))]

Next ==
    \E i \in Images :
        \/ CreateImage(i)
        \/ \E s \in PutStates : UpdateImage(i, s)
        \/ \E v \in Variants, type \in Types \cup {NoType} : CreateDownload(i, v, type)
        \/ \E v \in Variants, s \in DownloadStates, type \in Types \cup {NoType} :
              UpdateDownload(i, v, s, type)
        \/ PublishImage(i)

Spec == Init /\ [][Next]_vars

-----------------------------------------------------------------------------
(* Safety, whatever states the clients put                                  *)

Stored == {i \in Images : db[i] # NoImage}

\* Every image that has not started importing has no variants, and no
\* importing image has variants that should already have moved it on: none
\* has failed, and they are not all imported.
ImportingIsUpToDate(im) ==
    /\ im.state \in {"created", "uploaded"} => VariantsOf(im) = {}
    /\ im.state = "importing" =>
          /\ ~AnyDownloadsOfState(im, "failed")
          /\ ~AllDownloadsOfState(im, "imported")

\* A variant completes only in an image that was published, and the last one
\* to complete completes the image.
PublishingIsUpToDate(im) ==
    /\ AnyDownloadsOfState(im, "completed") =>
          im.state \in {"published", "completed", "failed_publish", "deleted"}
    /\ im.state = "published" => ~AllDownloadsOfState(im, "completed")

\* The state stored in an image is never behind its variants: UpdatedState
\* was applied after every change that could have moved it (UpdatedState and
\* its callers in the update and create download handlers).
DownloadsFitState ==
    \A i \in Stored : ImportingIsUpToDate(db[i]) /\ PublishingIsUpToDate(db[i])

\* The order in which an image passes through its states.
Rank(s) ==
    CASE s = "created"   -> 0
      [] s = "uploaded"  -> 1
      [] s = "importing" -> 2
      [] s = "imported"  -> 3
      [] s \in {"failed_import", "published"} -> 4
      [] s \in {"completed", "failed_publish"} -> 5
      [] s = "deleted"   -> 6

\* No request takes an image back to an earlier state, nor out of a state of
\* the last two ranks except by deletion of a failed one, and no request
\* removes a variant that another one added.
NeverGoesBack ==
    [][\A i \in Stored :
          /\ db'[i] # NoImage
          /\ VariantsOf(db[i]) \subseteq VariantsOf(db'[i])
          /\ \/ db'[i].state = db[i].state
             \/ /\ Rank(db[i].state) < Rank(db'[i].state)
                /\ db[i].state \notin {"completed", "deleted"}]_vars

-----------------------------------------------------------------------------
(* Safety when clients leave importing, imported, published, completed and  *)
(* failed_publish to the API                                                *)

\* From the import on, the variants of an image are where its state says: an
\* import is open only while a variant is importing (or was published too
\* early, which no later update undoes), no image is published with a
\* variant that never finished its import, none is completed with a variant
\* whose publication is pending, and no sequence of download updates fails a
\* publication (the download table has no step from published to failed).
VariantsBackState ==
    \A i \in Stored :
        LET states == {db[i].downloads[v].state : v \in VariantsOf(db[i])} IN
        /\ db[i].state = "importing" => states \cap {"importing", "published"} # {}
        /\ db[i].state = "imported"  => states # {} /\ states \subseteq {"imported", "published"}
        /\ db[i].state = "published" => states # {} /\ states \subseteq {"published", "completed"}
        /\ db[i].state = "completed" => states = {"completed"}
        /\ db[i].state # "failed_publish"

\* An image enters the imported state only with all its variants imported
\* (the description of the state of a download variant in swagger.yaml).
ImportedOnlyWhenAllImported ==
    [][\A i \in Stored :
          db[i].state # "imported" /\ db'[i].state = "imported" =>
              \A v \in VariantsOf(db'[i]) : db'[i].downloads[v].state = "imported"]_vars

\* A variant changes state only along the download transition table,
\* although the publish handler does not consult it (the table and its test
\* in the models package).
DownloadsFollowTable ==
    [][\A i \in Stored : \A v \in VariantsOf(db[i]) :
          LET s == db[i].downloads[v].state
              t == db'[i].downloads[v].state
          IN  s = t \/ DownloadTransitionAllowed(s, t)]_vars
=============================================================================
