------------------------------ MODULE ImageAPI ------------------------------
(***************************************************************************)
(* The handlers of the api package that change images, as they run: many   *)
(* requests at once, in one or several instances of the service, each a    *)
(* goroutine that calls MongoDB, the image lock and the kafka producers    *)
(* one call after the other.  Every call is a step of its own, may fail,   *)
(* and may be the last one before the instance dies.                       *)
(*                                                                         *)
(* External, modelled from how the handlers use them: the lock of          *)
(* dp-mongodb (one holder per image; a lock whose holder never released it *)
(* expires in the end), MongoDB (each call is atomic; a write may take     *)
(* effect although it returns an error), and the kafka producers (Send     *)
(* queues one message in the memory of the instance, or returns an error). *)
(***************************************************************************)
EXTENDS ImageModel, Naturals

CONSTANTS Images,       \* image ids
          Workers,      \* goroutines serving requests, of any instance
          Requests,     \* the requests that clients send
          NoRequest,    \* a worker without a request
          Free,         \* no document in the lock collection for the image
          Orphan,       \* a lock whose holder will not release it
          MaxFaults     \* bound on failed calls and crashes

-----------------------------------------------------------------------------
(* Requests, after ReadJSONBody.  sameID: the id in the body is empty or    *)
(* that of the path.  hasCollection: collection_id is not empty.            *)

CreateImageRequest ==
    [op: {"CreateImage"}, image: Images, state: ImageStates \cup {"", "other"},
     longFilename: BOOLEAN, hasCollection: BOOLEAN]

UpdateImageRequest ==
    [op: {"UpdateImage"}, image: Images, state: ImageStates \cup {"", "other"},
     longFilename: BOOLEAN, upload: {"none", "emptyPath", "path"}, sameID: BOOLEAN]

CreateDownloadRequest ==
    [op: {"CreateDownload"}, image: Images, variant: Variants,
     state: DownloadStates \cup {"", "other"}, type: Types \cup {NoType}]

UpdateDownloadRequest ==
    [op: {"UpdateDownload"}, image: Images, variant: Variants, sameID: BOOLEAN,
     state: DownloadStates \cup {"", "other"}, type: Types \cup {NoType}]

PublishImageRequest == [op: {"PublishImage"}, image: Images]

Request == CreateImageRequest \cup UpdateImageRequest \cup CreateDownloadRequest
             \cup UpdateDownloadRequest \cup PublishImageRequest

ASSUME RequestAssumption ==
    /\ Requests \subseteq Request
    /\ NoRequest \notin Request

ASSUME LockAssumption == Free \notin Workers /\ Orphan \notin Workers /\ Free # Orphan

ASSUME FaultAssumption == MaxFaults \in Nat

-----------------------------------------------------------------------------

VARIABLES
    db,         \* the images collection: the document of each id, or NoImage
    lock,       \* the lock of each image: its holder, Free or Orphan
    pc,         \* the call each worker makes next
    req,        \* the request each worker serves
    seen,       \* the image its GetImage returned
    todo,       \* variants whose published event it has yet to send
    resp,       \* the error it answers with, or NoError; "" before it knows
    uploads,    \* image-uploaded events that Send queued, for each image
    publishes,  \* image-published events that it queued, for each variant of each
    faults      \* failed calls and crashes so far

vars == <<db, lock, pc, req, seen, todo, resp, uploads, publishes, faults>>

worker == <<pc, req, seen, todo, resp>>
events == <<uploads, publishes>>

PCs == {"idle", "acquire", "read", "announce", "write", "publish", "unlock", "reply"}

TypeOK ==
    /\ db \in [Images -> Image \cup {NoImage}]
    /\ lock \in [Images -> Workers \cup {Free, Orphan}]
    /\ pc \in [Workers -> PCs]
    /\ req \in [Workers -> Requests \cup {NoRequest}]
    /\ seen \in [Workers -> Image \cup {NoImage}]
    /\ todo \in [Workers -> SUBSET Variants]
    /\ resp \in [Workers -> Errors \cup {NoError, ""}]
    /\ uploads \in [Images -> Nat]
    /\ publishes \in [Images -> [Variants -> Nat]]
    /\ faults \in 0..MaxFaults

Init ==
    /\ db = [i \in Images |-> NoImage]
    /\ lock = [i \in Images |-> Free]
    /\ pc = [w \in Workers |-> "idle"]
    /\ req = [w \in Workers |-> NoRequest]
    /\ seen = [w \in Workers |-> NoImage]
    /\ todo = [w \in Workers |-> {}]
    /\ resp = [w \in Workers |-> ""]
    /\ uploads = [i \in Images |-> 0]
    /\ publishes = [i \in Images |-> [v \in Variants |-> 0]]
    /\ faults = 0

-----------------------------------------------------------------------------
(* What a handler decides from its request, and from the image it read      *)

\* The checks before any call, in the order of each handler.  A new image is
\* built without the upload of the request.
CreateImageRequestError(r) ==
    LET invalid == Validate([state |-> r.state, upload |-> "none",
                             longFilename |-> r.longFilename])
    IN  IF invalid # NoError THEN invalid
        ELSE IF r.state # "created" THEN "ErrImageBadInitialState"
        ELSE IF ~r.hasCollection THEN "ErrImageNoCollectionID"
        ELSE NoError

UpdateImageRequestError(r) ==
    IF Validate(r) # NoError THEN Validate(r)
    ELSE IF ~r.sameID THEN "ErrImageIDMismatch"
    ELSE NoError

CreateDownloadRequestError(r) ==
    IF DownloadValidate(r.state) # NoError THEN DownloadValidate(r.state)
    ELSE IF r.state # "importing" THEN "ErrImageDownloadBadInitialState"
    ELSE NoError

UpdateDownloadRequestError(r) ==
    IF ~r.sameID THEN "ErrVariantIDMismatch" ELSE DownloadValidate(r.state)

RequestError(r) ==
    CASE r.op = "CreateImage"    -> CreateImageRequestError(r)
      [] r.op = "UpdateImage"    -> UpdateImageRequestError(r)
      [] r.op = "CreateDownload" -> CreateDownloadRequestError(r)
      [] r.op = "UpdateDownload" -> UpdateDownloadRequestError(r)
      [] r.op = "PublishImage"   -> NoError

ReadError(r, im) ==
    CASE r.op = "UpdateImage"    -> UpdateImageError(im, r.state)
      [] r.op = "CreateDownload" -> CreateDownloadError(im, r.variant)
      [] r.op = "UpdateDownload" -> UpdateDownloadError(im, r.variant, r.state, r.type)
      [] r.op = "PublishImage"   -> PublishImageError(im)

\* What the store holds after the handler's write: im is the image the
\* handler read, stored the one in the store when the write arrives.
Written(r, im, stored) ==
    CASE r.op = "CreateImage"    -> NewImage
      [] r.op = "UpdateImage"    -> SetState(stored, r.state)
      [] r.op = "CreateDownload" -> AddDownload(im, r.variant, r.type)
      [] r.op = "UpdateDownload" -> ReplaceDownload(im, r.variant, r.state, r.type)
      [] r.op = "PublishImage"   -> PublishDownloads(stored, VariantsOf(im))

\* The events that a request owes after its write: one for each variant of
\* the image it read, if it publishes.
PublishEvents(r, im) == IF r.op = "PublishImage" THEN VariantsOf(im) ELSE {}

-----------------------------------------------------------------------------
(* The steps of a handler                                                   *)

Goto(w, next) == pc' = [pc EXCEPT ![w] = next]

Answer(w, err) == resp' = [resp EXCEPT ![w] = err]

Fault == faults < MaxFaults /\ faults' = faults + 1

\* The worker is done with its request.
Release(w) ==
    /\ Goto(w, "idle")
    /\ req' = [req EXCEPT ![w] = NoRequest]
    /\ seen' = [seen EXCEPT ![w] = NoImage]
    /\ todo' = [todo EXCEPT ![w] = {}]
    /\ resp' = [resp EXCEPT ![w] = ""]

\* NewID: an id that no stored image and no request in flight has.
Fresh(i) ==
    /\ db[i] = NoImage
    /\ \A u \in Workers : req[u] # NoRequest => req[u].image # i

Receive(w, r) ==
    /\ pc[w] = "idle"
    /\ r.op = "CreateImage" => Fresh(r.image)
    /\ req' = [req EXCEPT ![w] = r]
    /\ IF RequestError(r) # NoError
       THEN Goto(w, "reply") /\ Answer(w, RequestError(r))
       ELSE Goto(w, IF r.op = "CreateImage" THEN "write" ELSE "acquire") /\ UNCHANGED resp
    /\ UNCHANGED <<db, lock, seen, todo, events, faults>>

\* Fault: the handler does not wait for the lock.
AcquireWithoutWaiting(w) ==
    /\ pc[w] = "acquire"
    /\ lock' = [lock EXCEPT ![req[w].image] = w]
    /\ Goto(w, "read")
    /\ UNCHANGED <<db, req, seen, todo, resp, events, faults>>

\* AcquireImageLock blocks until the lock is free.
AcquireImageLock(w) ==
    /\ pc[w] = "acquire"
    /\ lock[req[w].image] = Free
    /\ lock' = [lock EXCEPT ![req[w].image] = w]
    /\ Goto(w, "read")
    /\ UNCHANGED <<db, req, seen, todo, resp, events, faults>>

\* The call returns an error, after which nobody knows of a lock that it may
\* have left.
AcquireImageLockFails(w) ==
    LET i == req[w].image IN
    /\ pc[w] = "acquire"
    /\ Fault
    /\ \/ UNCHANGED lock
       \/ lock[i] = Free /\ lock' = [lock EXCEPT ![i] = Orphan]
    /\ Goto(w, "reply")
    /\ Answer(w, "ErrMongo")
    /\ UNCHANGED <<db, req, seen, todo, events>>

\* Fault: the early return on an error leaves the lock in place.
GetImageKeepsLock(w) ==
    LET r == req[w]
        im == db[r.image]
    IN
    /\ pc[w] = "read"
    /\ seen' = [seen EXCEPT ![w] = im]
    /\ IF ReadError(r, im) # NoError
       THEN Goto(w, "reply") /\ Answer(w, ReadError(r, im))
       ELSE /\ Goto(w, IF r.op = "UpdateImage" /\ r.state = "uploaded"
                       THEN "announce" ELSE "write")
            /\ UNCHANGED resp
    /\ UNCHANGED <<db, lock, req, todo, events, faults>>

\* GetImage and the checks on what it returned.
GetImage(w) ==
    LET r == req[w]
        im == db[r.image]
    IN
    /\ pc[w] = "read"
    /\ seen' = [seen EXCEPT ![w] = im]
    /\ IF ReadError(r, im) # NoError
       THEN Goto(w, "unlock") /\ Answer(w, ReadError(r, im))
       ELSE /\ Goto(w, IF r.op = "UpdateImage" /\ r.state = "uploaded"
                       THEN "announce" ELSE "write")
            /\ UNCHANGED resp
    /\ UNCHANGED <<db, lock, req, todo, events, faults>>

GetImageFails(w) ==
    /\ pc[w] = "read"
    /\ Fault
    /\ Goto(w, "unlock")
    /\ Answer(w, "ErrMongo")
    /\ UNCHANGED <<db, lock, req, seen, todo, events>>

\* The image-uploaded event is queued before the image is stored as uploaded.
SendUploaded(w) ==
    /\ pc[w] = "announce"
    /\ uploads' = [uploads EXCEPT ![req[w].image] = @ + 1]
    /\ Goto(w, "write")
    /\ UNCHANGED <<db, lock, req, seen, todo, resp, publishes, faults>>

\* Fault: a failed Send is logged and the handler goes on.
SendUploadedFailsUnnoticed(w) ==
    /\ pc[w] = "announce"
    /\ Fault
    /\ Goto(w, "write")
    /\ UNCHANGED <<db, lock, req, seen, todo, resp, events>>

SendUploadedFails(w) ==
    /\ pc[w] = "announce"
    /\ Fault
    /\ Goto(w, "unlock")
    /\ Answer(w, "ErrKafka")
    /\ UNCHANGED <<db, lock, req, seen, todo, events>>

Write(w) ==
    LET i == req[w].image IN
    db' = [db EXCEPT ![i] = Written(req[w], seen[w], db[i])]

\* Creation holds no lock.
AfterWrite(r) == IF r.op = "CreateImage" THEN "reply" ELSE "unlock"

\* UpsertImage, or UpdateImage in the publish handler.
StoreImage(w) ==
    LET owed == PublishEvents(req[w], seen[w]) IN
    /\ pc[w] = "write"
    /\ Write(w)
    /\ todo' = [todo EXCEPT ![w] = owed]
    /\ IF owed # {}
       THEN Goto(w, "publish") /\ UNCHANGED resp
       ELSE Goto(w, AfterWrite(req[w])) /\ Answer(w, NoError)
    /\ UNCHANGED <<lock, req, seen, events, faults>>

\* Fault: a failed write does not keep the publish handler from sending.
StoreImageFailsUnnoticed(w) ==
    /\ pc[w] = "write"
    /\ Fault
    /\ Write(w) \/ UNCHANGED db
    /\ IF PublishEvents(req[w], seen[w]) # {}
       THEN /\ Goto(w, "publish")
            /\ todo' = [todo EXCEPT ![w] = PublishEvents(req[w], seen[w])]
            /\ UNCHANGED resp
       ELSE /\ Goto(w, AfterWrite(req[w]))
            /\ Answer(w, "ErrMongo")
            /\ UNCHANGED todo
    /\ UNCHANGED <<lock, req, seen, events>>

\* The write returns an error, with or without having taken effect.
StoreImageFails(w) ==
    /\ pc[w] = "write"
    /\ Fault
    /\ Write(w) \/ UNCHANGED db
    /\ Goto(w, AfterWrite(req[w]))
    /\ Answer(w, "ErrMongo")
    /\ UNCHANGED <<lock, req, seen, todo, events>>

\* Fault: the handler returns after the first event.
SendFirstPublished(w, v) ==
    LET i == req[w].image IN
    /\ pc[w] = "publish"
    /\ v \in todo[w]
    /\ publishes' = [publishes EXCEPT ![i][v] = @ + 1]
    /\ todo' = [todo EXCEPT ![w] = @ \ {v}]
    /\ Goto(w, "unlock")
    /\ Answer(w, NoError)
    /\ UNCHANGED <<db, lock, req, seen, uploads, faults>>

\* Events are sent in the order of a map iteration, that is in any order.
SendPublished(w, v) ==
    LET i == req[w].image IN
    /\ pc[w] = "publish"
    /\ v \in todo[w]
    /\ publishes' = [publishes EXCEPT ![i][v] = @ + 1]
    /\ todo' = [todo EXCEPT ![w] = @ \ {v}]
    /\ IF todo[w] = {v}
       THEN Goto(w, "unlock") /\ Answer(w, NoError)
       ELSE UNCHANGED <<pc, resp>>
    /\ UNCHANGED <<db, lock, req, seen, uploads, faults>>

\* Fault: the events left are lost and the handler still answers 204.
SendPublishedFailsUnnoticed(w) ==
    /\ pc[w] = "publish"
    /\ Fault
    /\ Goto(w, "unlock")
    /\ Answer(w, NoError)
    /\ UNCHANGED <<db, lock, req, seen, todo, events>>

\* The first failure ends the handler: the events left are never sent.
SendPublishedFails(w) ==
    /\ pc[w] = "publish"
    /\ Fault
    /\ Goto(w, "unlock")
    /\ Answer(w, "ErrKafka")
    /\ UNCHANGED <<db, lock, req, seen, todo, events>>

\* What becomes of the lock of w, if it still is the lock of the image.
LeaveLock(w, left) ==
    LET i == req[w].image IN
    lock' = [lock EXCEPT ![i] = IF lock[i] = w THEN left ELSE lock[i]]

\* The deferred unlockImage, the last step of a handler that has the lock.
UnlockImage(w) ==
    /\ pc[w] = "unlock"
    /\ LeaveLock(w, Free)
    /\ Release(w)
    /\ UNCHANGED <<db, events, faults>>

\* UnlockImage returns nothing: a failure goes unnoticed.
UnlockImageFails(w) ==
    /\ pc[w] = "unlock"
    /\ Fault
    /\ LeaveLock(w, Orphan)
    /\ Release(w)
    /\ UNCHANGED <<db, events>>

\* The end of a handler that never had the lock.
Reply(w) ==
    /\ pc[w] = "reply"
    /\ Release(w)
    /\ UNCHANGED <<db, lock, events, faults>>

\* The instance that serves the request dies, and nobody releases its lock.
\* The counts of events are of what was queued; ImageWorkflow has what becomes
\* of it.
Crash(w) ==
    /\ pc[w] # "idle"
    /\ Fault
    /\ lock' = [i \in Images |-> IF lock[i] = w THEN Orphan ELSE lock[i]]
    /\ Release(w)
    /\ UNCHANGED <<db, events>>

\* External: the lock library drops a lock whose holder is gone.
ExpireLock(i) ==
    /\ lock[i] = Orphan
    /\ lock' = [lock EXCEPT ![i] = Free]
    /\ UNCHANGED <<db, worker, events, faults>>

-----------------------------------------------------------------------------

\* The steps of a worker other than waiting for the lock.
Progress(w) ==
    \/ GetImage(w)
    \/ SendUploaded(w)
    \/ StoreImage(w)
    \/ \E v \in Variants : SendPublished(w, v)
    \/ UnlockImage(w)
    \/ Reply(w)

Failure(w) ==
    \/ AcquireImageLockFails(w)
    \/ GetImageFails(w)
    \/ SendUploadedFails(w)
    \/ StoreImageFails(w)
    \/ SendPublishedFails(w)
    \/ UnlockImageFails(w)
    \/ Crash(w)

Next ==
    \/ \E w \in Workers :
          \/ \E r \in Requests : Receive(w, r)
          \/ AcquireImageLock(w)
          \/ Progress(w)
          \/ Failure(w)
    \/ \E i \in Images : ExpireLock(i)

Spec == Init /\ [][Next]_vars

\* Every goroutine is scheduled, a waiter that finds the lock free again and
\* again obtains it in the end (the lock client polls), and orphaned locks
\* expire.
Fairness ==
    /\ \A w \in Workers : WF_vars(Progress(w)) /\ SF_vars(AcquireImageLock(w))
    /\ \A i \in Images : WF_vars(ExpireLock(i))

FairSpec == Spec /\ Fairness

-----------------------------------------------------------------------------
(* Safety                                                                   *)

\* No update is lost: when a handler is about to write (or to announce what
\* it will write), the store still holds the image its decision was made on,
\* and a new image meets no document (the lock around GetImage and
\* UpsertImage or UpdateImage in every updating handler).
DecisionIsCurrent ==
    \A w \in Workers : pc[w] \in {"announce", "write"} =>
        LET stored == db[req[w].image] IN
        IF req[w].op = "CreateImage" THEN stored = NoImage
        ELSE stored # NoImage /\ seen[w] = stored

\* While the publish handler sends its events, the image stays published
\* with the variants that the events name.
PublishingIsStable ==
    \A w \in Workers : pc[w] = "publish" =>
        LET stored == db[req[w].image] IN
        /\ stored # NoImage
        /\ stored.state = "published"
        /\ VariantsOf(stored) = VariantsOf(seen[w])

\* No variant is published twice, whatever fails and whoever retries
\* (PublishImageHandler refuses an image that was published before).
PublishedOnce == \A i \in Images : \A v \in Variants : publishes[i][v] <= 1

\* The static file publisher never hears of a variant of an image that is
\* not stored as published (the update comes before the events).
EventsFollowPublication ==
    \A i \in Images : \A v \in Variants : publishes[i][v] > 0 =>
        /\ db[i] # NoImage
        /\ v \in VariantsOf(db[i])
        /\ db[i].state \in {"published", "completed", "failed_publish", "deleted"}

\* An event for the importer was queued for every image that is past created:
\* Send comes before the state is stored, so no failure between the two leaves
\* an uploaded image without one (doUpdateImage).
UploadedIsAnnounced ==
    \A i \in Images : db[i] # NoImage =>
        db[i].state \in {"created", "deleted"} \/ uploads[i] > 0

\* The price of that order: an upload is announced again only after a
\* failure, once for each.
AnnouncedOncePerFault == \A i \in Images : uploads[i] <= 1 + faults

\* An importer that reacts to the event at once is not told that the image is
\* not uploaded, although the event leaves before the state is stored: its
\* request waits for the lock of the handler that sent the event.  If it is
\* told so, at least as many calls failed or crashed as events of the image
\* were queued: each was left behind by a fault of its own.
ImporterIsNotEarly ==
    \A w \in Workers :
        (/\ pc[w] = "unlock"
         /\ req[w].op = "CreateDownload"
         /\ resp[w] = "ErrImageNotImporting"
         /\ uploads[req[w].image] > 0)
        => seen[w].state # "created" \/ uploads[req[w].image] <= faults

\* A publish request that succeeds has queued one event for every variant of
\* the image (swagger.yaml, response 204 of POST /images/{image_id}/publish).
PublishReplyMeansQueued ==
    \A w \in Workers :
        (pc[w] = "unlock" /\ req[w].op = "PublishImage" /\ resp[w] = NoError) =>
            \A v \in VariantsOf(db[req[w].image]) : publishes[req[w].image][v] = 1

\* The image was published, an event of it is missing and nobody is sending.
Silent(i) ==
    /\ db[i] # NoImage
    /\ db[i].state \in {"published", "completed"}
    /\ \E v \in VariantsOf(db[i]) : publishes[i][v] = 0
    /\ \A w \in Workers : pc[w] = "publish" => req[w].image # i

\* The publish handler of the image fails or dies, at its write or while it
\* sends.
SenderFails(i) ==
    /\ faults' = faults + 1
    /\ \E w \in Workers : /\ pc[w] \in {"write", "publish"}
                          /\ pc'[w] # "publish"
                          /\ req[w].op = "PublishImage"
                          /\ req[w].image = i

\* If clients leave the published state to the publish call, events are lost
\* in one way only: the publish handler of the very image fails or dies at its
\* write or while it sends.  No other failure, and no race with another
\* request, leaves a publication with an event unsent (PublishImageHandler
\* returns at the first error, and a retry is refused).
LostOnlyByItsSender ==
    [][\A i \in Images : (~Silent(i) /\ Silent(i)') => SenderFails(i)]_vars

\* The states that the clients name in PUT /images/{id}.
ClientPutStates ==
    {s \in ImageStates : \E r \in Requests : r.op = "UpdateImage" /\ r.state = s}

\* The handlers implement the atomic lifecycle: each request takes effect at
\* its write, on the image as it then is, and no image gets a state that
\* neither a client named nor the lifecycle gives it.
Lifecycle == INSTANCE ImageLifecycle WITH PutStates <- ClientPutStates

ImplementsLifecycle == Lifecycle!Spec

\* What a rejected body is answered with: a body with an invalid parameter is
\* a bad request (swagger.yaml, response 400 of PUT /images/{image_id}).
InvalidBodyIsBadRequest ==
    \A w \in Workers :
        (req[w] # NoRequest /\ req[w].op = "UpdateImage" /\ Validate(req[w]) # NoError)
            => StatusOf(resp[w]) = 400

-----------------------------------------------------------------------------
(* Liveness                                                                 *)

\* Every request is answered or dies with its instance: no path through a
\* handler keeps the lock, so no waiter waits for ever (the deferred unlock
\* on every early return).
RequestsAnswered == \A w \in Workers : pc[w] # "idle" ~> pc[w] = "idle"
=============================================================================
