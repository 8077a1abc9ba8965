------------------------- MODULE ImageEventsProofs -------------------------
(***************************************************************************)
(* The events of the handlers, for any number of images, variants and      *)
(* workers, any requests and any number of faults: an upload is announced  *)
(* before it is stored, a variant is published once and only from an       *)
(* image that is stored as published, and a publish request that succeeds  *)
(* has sent all its events.                                                *)
(***************************************************************************)
EXTENDS ImageAPIProofs

Past == {"published", "completed", "failed_publish", "deleted"}

InPublication == {"published", "completed"}

-----------------------------------------------------------------------------
(* What a write does to the part of an image that its events are about      *)

\* An image only follows its variants from importing and from published.
LEMMA UpdatedStateSteps ==
  ASSUME NEW im \in Image
  PROVE  /\ im.state \notin {"importing", "published"} => UpdatedState(im) = im.state
         /\ im.state = "published" => UpdatedState(im) \in Past
         /\ UpdatedState(im) = "created" => im.state = "created"
         /\ UpdatedState(im) \in InPublication => im.state \in InPublication
  BY DEF UpdatedState, Past, InPublication

\* An update of a variant removes none, and moves its image only from
\* importing or from published.
LEMMA ReplaceSteps ==
  ASSUME NEW im \in Image, NEW v \in Variants, NEW s \in DownloadStates,
         NEW type \in Types \cup {NoType}, im.downloads[v] \in Download
  PROVE  /\ VariantsOf(ReplaceDownload(im, v, s, type)) = VariantsOf(im)
         /\ im.state \notin {"importing", "published"} =>
               ReplaceDownload(im, v, s, type).state = im.state
         /\ im.state = "published" => ReplaceDownload(im, v, s, type).state \in Past
         /\ ReplaceDownload(im, v, s, type).state = "created" => im.state = "created"
         /\ ReplaceDownload(im, v, s, type).state \in InPublication =>
               im.state \in InPublication
<1> DEFINE d   == [state |-> s, type |-> type]
           mid == [im EXCEPT !.downloads = [@ EXCEPT ![v] = d]]
           new == ReplaceDownload(im, v, s, type)
<1>1. /\ mid \in Image
      /\ mid.state = im.state
      /\ mid.downloads = [im.downloads EXCEPT ![v] = d]
      /\ new.state = UpdatedState(mid)
      /\ new.downloads = [im.downloads EXCEPT ![v] = d]
  BY ReplaceDownloadType
<1>2. d \in Download
  BY DEF Download
<1> HIDE DEF d, mid, new
<1>3. VariantsOf(new) = VariantsOf(im)
  BY <1>1, <1>2, SentinelAssumption DEF VariantsOf, Image
<1>4. /\ im.state \notin {"importing", "published"} => new.state = im.state
      /\ im.state = "published" => new.state \in Past
      /\ new.state = "created" => im.state = "created"
      /\ new.state \in InPublication => im.state \in InPublication
  BY <1>1, UpdatedStateSteps
<1>5. QED
  BY <1>3, <1>4 DEF new

\* An image past publication stays there, with its variants.
LEMMA WriteKeepsPast ==
  ASSUME NEW r \in Requests, RequestError(r) = NoError, r.op # "CreateImage",
         NEW im \in Image, ReadError(r, im) = NoError, im.state \in Past
  PROVE  /\ r.op # "PublishImage"
         /\ Written(r, im, im).state \in Past
         /\ VariantsOf(Written(r, im, im)) = VariantsOf(im)
<1>1. CASE r.op = "UpdateImage"
  <2>1. r.state \in ImageStates
    BY <1>1, PutStateValid
  <2>2. TransitionAllowed(im.state, r.state)
    BY <1>1, <2>1, ReadErrorValue, UpdateImageChecked
  <2>3. r.state \in Past
    BY <2>2 DEF TransitionAllowed, Past
  <2>4. /\ SetState(im, r.state).state = r.state
        /\ SetState(im, r.state).downloads = im.downloads
    BY <2>1, SetStateType
  <2>5. Written(r, im, im) = SetState(im, r.state)
    BY <1>1, WrittenValue
  <2>6. QED
    BY <1>1, <2>3, <2>4, <2>5 DEF VariantsOf
<1>2. CASE r.op = "CreateDownload"
  BY <1>2, RequestFields, ReadErrorValue, CreateDownloadChecked DEF Past
<1>3. CASE r.op = "UpdateDownload"
  <2>1. r.variant \in Variants /\ r.type \in Types \cup {NoType}
    BY <1>3, RequestFields
  <2>2. UpdateDownloadError(im, r.variant, r.state, r.type) = NoError
    BY <1>3, ReadErrorValue
  <2>3. im.downloads[r.variant] \in Download /\ r.state \in DownloadStates
    BY <2>1, <2>2, UpdateDownloadChecked
  <2>4. Written(r, im, im) = ReplaceDownload(im, r.variant, r.state, r.type)
    BY <1>3, WrittenValue
  <2>5. QED
    BY <1>3, <2>1, <2>3, <2>4, ReplaceSteps DEF Past
<1>4. CASE r.op = "PublishImage"
  BY <1>4, ReadErrorValue, PublishImageChecked DEF Past
<1>5. QED
  BY <1>1, <1>2, <1>3, <1>4, RequestFields

\* Publication starts from an image that was not published, and leaves it
\* published with its variants.
LEMMA WritePublishes ==
  ASSUME NEW r \in Requests, r.op = "PublishImage",
         NEW im \in Image, ReadError(r, im) = NoError
  PROVE  /\ im.state \notin Past
         /\ Written(r, im, im).state = "published"
         /\ VariantsOf(Written(r, im, im)) = VariantsOf(im)
<1> DEFINE new == PublishDownloads(im, VariantsOf(im))
<1>1. im.state \notin Past
  BY ReadErrorValue, PublishImageChecked DEF Past
<1>2. VariantsOf(im) \in SUBSET Variants
  BY DEF VariantsOf
<1>3. /\ new.state = "published"
      /\ \A v \in VariantsOf(im) : new.downloads[v] \in Download
      /\ \A v \in Variants \ VariantsOf(im) : new.downloads[v] = im.downloads[v]
  BY <1>2, PublishDownloadsType
<1>4. Written(r, im, im) = new
  BY WrittenValue
<1> HIDE DEF new
<1>5. VariantsOf(new) = VariantsOf(im)
  BY <1>2, <1>3, SentinelAssumption DEF VariantsOf
<1>6. QED
  BY <1>1, <1>3, <1>4, <1>5

\* The only way past created, other than to be deleted, is to be uploaded.
LEMMA WriteUploads ==
  ASSUME NEW r \in Requests, RequestError(r) = NoError, r.op # "CreateImage",
         NEW im \in Image, ReadError(r, im) = NoError,
         im.state \in {"created", "deleted"}
  PROVE  \/ Written(r, im, im).state \in {"created", "deleted"}
         \/ r.op = "UpdateImage" /\ r.state = "uploaded"
<1>1. CASE r.op = "UpdateImage"
  <2>1. r.state \in ImageStates
    BY <1>1, PutStateValid
  <2>2. TransitionAllowed(im.state, r.state)
    BY <1>1, <2>1, ReadErrorValue, UpdateImageChecked
  <2>3. r.state \in {"uploaded", "deleted"}
    BY <2>2 DEF TransitionAllowed
  <2>4. SetState(im, r.state).state = r.state
    BY <2>1, SetStateType
  <2>5. Written(r, im, im) = SetState(im, r.state)
    BY <1>1, WrittenValue
  <2>6. QED
    BY <1>1, <2>3, <2>4, <2>5
<1>2. CASE r.op = "CreateDownload"
  BY <1>2, RequestFields, ReadErrorValue, CreateDownloadChecked
<1>3. CASE r.op = "UpdateDownload"
  <2>1. r.variant \in Variants /\ r.type \in Types \cup {NoType}
    BY <1>3, RequestFields
  <2>2. UpdateDownloadError(im, r.variant, r.state, r.type) = NoError
    BY <1>3, ReadErrorValue
  <2>3. im.downloads[r.variant] \in Download /\ r.state \in DownloadStates
    BY <2>1, <2>2, UpdateDownloadChecked
  <2>4. Written(r, im, im) = ReplaceDownload(im, r.variant, r.state, r.type)
    BY <1>3, WrittenValue
  <2>5. QED
    BY <2>1, <2>3, <2>4, ReplaceSteps
<1>4. CASE r.op = "PublishImage"
  BY <1>4, ReadErrorValue, PublishImageChecked
<1>5. QED
  BY <1>1, <1>2, <1>3, <1>4, RequestFields

-----------------------------------------------------------------------------
(* Uploads are announced                                                    *)

\* An upload that is about to be stored has been announced.
Announced(w) ==
    (pc[w] = "write" /\ req[w].op = "UpdateImage" /\ req[w].state = "uploaded")
        => uploads[req[w].image] > 0

AnnouncedInv == UploadedIsAnnounced /\ \A w \in Workers : Announced(w)

\* What a worker is given back to do when it is released, without the values
\* of an idle worker.
LEMMA Released ==
  ASSUME TypeOK, NEW w \in Workers, Release(w)
  PROVE  /\ pc'[w] = "idle"
         /\ \A u \in Workers \ {w} :
               /\ pc'[u] = pc[u] /\ req'[u] = req[u] /\ seen'[u] = seen[u]
               /\ todo'[u] = todo[u] /\ resp'[u] = resp[u]
<1>1. PICK e : resp' = [resp EXCEPT ![w] = e]
  BY Zenon DEF Release
<1>2. PICK R : resp \in [Workers -> R]
  BY Zenon DEF TypeOK
<1>3. /\ pc' = [pc EXCEPT ![w] = "idle"]
      /\ req' = [req EXCEPT ![w] = NoRequest]
      /\ seen' = [seen EXCEPT ![w] = NoImage]
      /\ todo' = [todo EXCEPT ![w] = {}]
  BY Zenon DEF Release, Goto
<1>4. /\ pc \in [Workers -> PCs]
      /\ req \in [Workers -> Requests \cup {NoRequest}]
      /\ seen \in [Workers -> Image \cup {NoImage}]
      /\ todo \in [Workers -> SUBSET Variants]
  BY Zenon DEF TypeOK
<1>5. QED
  BY <1>1, <1>2, <1>3, <1>4

\* A write meets an announced image or stores an announced upload.
LEMMA WriteAnnounced ==
  ASSUME IInv, AnnouncedInv, NEW w \in Workers, pc[w] = "write", Write(w),
         uploads' = uploads
  PROVE  UploadedIsAnnounced'
<1> DEFINE r == req[w]
           stored == db[r.image]
<1>1. /\ r \in Requests /\ r.image \in Images
      /\ RequestError(r) = NoError
  BY StoredType DEF IInv, RequestFits
<1>2. db' = [db EXCEPT ![r.image] = Written(r, seen[w], stored)]
  BY DEF Write
<1>3. db \in [Images -> Image \cup {NoImage}]
  BY DEF IInv, TypeOK
<1>4. /\ r.op # "CreateImage" =>
            stored # NoImage /\ seen[w] = stored /\ ReadError(r, stored) = NoError
      /\ r.op = "UpdateImage" /\ r.state = "uploaded" => uploads[r.image] > 0
  BY DEF IInv, DecisionInv, Decided, Creating, AnnouncedInv, Announced
<1>5. stored # NoImage => stored.state \in {"created", "deleted"} \/ uploads[r.image] > 0
  BY <1>1 DEF AnnouncedInv, UploadedIsAnnounced
<1> HIDE DEF r
<1>6. db'[r.image].state \in {"created", "deleted"} \/ uploads[r.image] > 0
  <2>1. db'[r.image] = Written(r, seen[w], stored)
    BY <1>1, <1>2, <1>3
  <2>2. CASE r.op = "CreateImage"
    BY <2>1, <2>2, WrittenValue DEF NewImage
  <2>3. CASE r.op # "CreateImage"
    <3>1. stored \in Image /\ db'[r.image] = Written(r, stored, stored)
      BY <1>1, <1>3, <1>4, <2>1, <2>3
    <3>2. QED
      BY <1>1, <1>4, <1>5, <2>3, <3>1, WriteUploads
  <2>4. QED
    BY <2>2, <2>3
<1>7. ASSUME NEW i \in Images, i # r.image PROVE db'[i] = db[i]
  BY <1>2, <1>3, <1>7
<1>8. QED
  BY <1>1, <1>6, <1>7 DEF AnnouncedInv, UploadedIsAnnounced

\* The event leaves before the write, and only the write stores the upload.
LEMMA AnnouncedStep ==
  ASSUME IInv, AnnouncedInv, [Next]_vars
  PROVE  AnnouncedInv'
<1>0. /\ TypeOK
      /\ \A w \in Workers : Announced(w)
      /\ \A w \in Workers : pc[w] # "idle" => req[w].image \in Images
  BY RequestFields DEF IInv, RequestFits, AnnouncedInv
<1>1. /\ pc \in [Workers -> PCs]
      /\ req \in [Workers -> Requests \cup {NoRequest}]
      /\ uploads \in [Images -> Nat]
  BY <1>0 DEF TypeOK
<1>2. ASSUME UNCHANGED <<db, uploads>>,
             NEW w \in Workers, Announced(w)',
             \A u \in Workers \ {w} : pc'[u] = pc[u] /\ req'[u] = req[u]
      PROVE  AnnouncedInv'
  BY <1>0, <1>2 DEF AnnouncedInv, UploadedIsAnnounced, Announced
<1>3. ASSUME NEW w \in Workers, NEW r \in Requests, Receive(w, r) PROVE AnnouncedInv'
  BY <1>1, <1>2, <1>3 DEF Receive, Goto, Announced, events
<1>4. ASSUME NEW w \in Workers, AcquireImageLock(w) PROVE AnnouncedInv'
  BY <1>1, <1>2, <1>4 DEF AcquireImageLock, Goto, Announced, events
<1>5. ASSUME NEW w \in Workers, GetImage(w) PROVE AnnouncedInv'
  BY <1>1, <1>2, <1>5 DEF GetImage, Goto, Announced, events
<1>6. ASSUME NEW w \in Workers, SendUploaded(w) PROVE AnnouncedInv'
  <2>1. /\ req[w].image \in Images
        /\ uploads' = [uploads EXCEPT ![req[w].image] = @ + 1]
        /\ pc' = [pc EXCEPT ![w] = "write"]
        /\ UNCHANGED <<db, req>>
    BY <1>0, <1>6 DEF SendUploaded, Goto
  <2>2. /\ uploads'[req[w].image] > 0
        /\ \A i \in Images : uploads[i] > 0 => uploads'[i] > 0
    BY <1>1, <2>1
  <2>3. UploadedIsAnnounced'
    BY <2>1, <2>2 DEF AnnouncedInv, UploadedIsAnnounced
  <2>4. \A u \in Workers : Announced(u)'
    BY <1>0, <1>1, <2>1, <2>2 DEF Announced
  <2>5. QED
    BY <2>3, <2>4 DEF AnnouncedInv
<1>7. ASSUME NEW w \in Workers, StoreImage(w) \/ StoreImageFails(w) PROVE AnnouncedInv'
  <2>1. /\ pc[w] = "write" /\ pc'[w] # "write"
        /\ \A u \in Workers \ {w} : pc'[u] = pc[u]
        /\ UNCHANGED <<req, uploads>>
        /\ Write(w) \/ db' = db
    BY <1>1, <1>7 DEF StoreImage, StoreImageFails, Goto, AfterWrite, events
  <2>2. \A u \in Workers : Announced(u)'
    BY <1>0, <2>1 DEF Announced
  <2>3. UploadedIsAnnounced'
    BY <2>1, WriteAnnounced DEF AnnouncedInv, UploadedIsAnnounced
  <2>4. QED
    BY <2>2, <2>3 DEF AnnouncedInv
<1>8. ASSUME NEW w \in Workers, NEW v \in Variants, SendPublished(w, v) PROVE AnnouncedInv'
  BY <1>1, <1>2, <1>8 DEF SendPublished, Goto, Announced
<1>9. ASSUME NEW w \in Workers,
             \/ AcquireImageLockFails(w) \/ GetImageFails(w)
             \/ SendUploadedFails(w) \/ SendPublishedFails(w)
      PROVE  AnnouncedInv'
  BY <1>1, <1>2, <1>9
     DEF AcquireImageLockFails, GetImageFails, SendUploadedFails, SendPublishedFails,
         Goto, Announced, events
<1>10. ASSUME NEW w \in Workers,
              UnlockImage(w) \/ UnlockImageFails(w) \/ Reply(w) \/ Crash(w)
       PROVE  AnnouncedInv'
  <2>1. Release(w) /\ UNCHANGED <<db, uploads>>
    BY <1>10 DEF UnlockImage, UnlockImageFails, Reply, Crash, events
  <2>2. QED
    BY <1>0, <1>2, <2>1, Released DEF Announced
<1>11. ASSUME NEW i \in Images, ExpireLock(i) PROVE AnnouncedInv'
  BY <1>11 DEF ExpireLock, worker, events, AnnouncedInv, UploadedIsAnnounced, Announced
<1>12. CASE UNCHANGED vars
  BY <1>12 DEF vars, worker, events, AnnouncedInv, UploadedIsAnnounced, Announced
<1>13. QED
  BY <1>3, <1>4, <1>5, <1>6, <1>7, <1>8, <1>9, <1>10, <1>11, <1>12
     DEF Next, Progress, Failure

\* An event was queued for every image that is past created, whatever failed.
THEOREM UploadsAnnounced == Spec => []UploadedIsAnnounced
<1>1. Init => AnnouncedInv
  BY DEF Init, AnnouncedInv, UploadedIsAnnounced, Announced
<1>2. IInv /\ AnnouncedInv /\ [Next]_vars => AnnouncedInv'
  BY AnnouncedStep
<1>3. AnnouncedInv => UploadedIsAnnounced
  BY DEF AnnouncedInv
<1>4. QED
  BY <1>1, <1>2, <1>3, Invariance, PTL DEF Spec

-----------------------------------------------------------------------------
(* Publications                                                             *)

\* While a publish handler sends, the image stays published with its
\* variants, and of each variant the event is either owed or sent once.
Publishing(w) ==
    pc[w] = "publish" =>
        LET i == req[w].image IN
        /\ db[i] # NoImage
        /\ db[i].state = "published"
        /\ VariantsOf(db[i]) = VariantsOf(seen[w])
        /\ todo[w] \subseteq VariantsOf(db[i])
        /\ \A v \in VariantsOf(db[i]) : publishes[i][v] = IF v \in todo[w] THEN 0 ELSE 1

\* A publish request that succeeds has sent the events of all variants.
Queued(w) ==
    (pc[w] = "unlock" /\ req[w].op = "PublishImage" /\ resp[w] = NoError) =>
        LET i == req[w].image IN
        /\ db[i] # NoImage
        /\ \A v \in VariantsOf(db[i]) : publishes[i][v] = 1

\* An event that was sent is the only one of its variant, and its image is
\* past publication.
Sent(i) ==
    \A v \in Variants :
        \/ publishes[i][v] = 0
        \/ /\ publishes[i][v] = 1
           /\ db[i] # NoImage
           /\ v \in VariantsOf(db[i])
           /\ db[i].state \in Past

PublishInv ==
    /\ \A w \in Workers : Publishing(w) /\ Queued(w)
    /\ \A i \in Images : Sent(i)

\* What a step of w leaves alone: the other workers, the images but the one it
\* writes, and the events but those of the image whose lock it has.
Confined(w) ==
    /\ \A u \in Workers \ {w} :
          /\ pc'[u] = pc[u] /\ req'[u] = req[u] /\ seen'[u] = seen[u]
          /\ todo'[u] = todo[u] /\ resp'[u] = resp[u]
    /\ Stores(w)
    /\ \/ publishes' = publishes
       \/ /\ HasLock(w)
          /\ db' = db
          /\ \A i \in Images : i # req[w].image => publishes'[i] = publishes[i]

\* Two workers with a lock have different images.
LEMMA LockedApart ==
  ASSUME IInv, NEW w \in Workers, HasLock(w), NEW u \in Workers \ {w}, HasLock(u)
  PROVE  req[u].image # req[w].image /\ req[u].image \in Images
<1>1. HoldsOwn(w) /\ HoldsOwn(u)
  BY DEF IInv, LockInv
<1>2. req[w].image \in Images /\ req[u].image \in Images
  BY RequestFields DEF IInv, RequestFits, HasLock
<1>3. QED
  BY <1>1, <1>2 DEF HoldsOwn

\* Only the holder of its lock changes an image that is stored.
LEMMA LockedStays ==
  ASSUME IInv, NEW w \in Workers, Stores(w), NEW u \in Workers \ {w}, HasLock(u),
         db[req[u].image] # NoImage
  PROVE  db'[req[u].image] = db[req[u].image]
<1>1. CASE db' = db
  BY <1>1
<1>2. CASE pc[w] = "write" /\ Write(w)
  <2>1. req[u].image \in Images
    BY RequestFields DEF IInv, RequestFits, HasLock
  <2>2. CASE Creating(w)
    <3>1. db[req[w].image] = NoImage
      BY <1>2, <2>2 DEF IInv, DecisionInv, Decided
    <3>2. QED
      BY <1>2, <2>1, <3>1 DEF Write, IInv, TypeOK
  <2>3. CASE ~Creating(w)
    <3>1. req[u].image # req[w].image
      BY <1>2, <2>3, LockedApart DEF HasLock
    <3>2. QED
      BY <1>2, <2>1, <3>1 DEF Write, IInv, TypeOK
  <2>4. QED
    BY <2>2, <2>3
<1>3. QED
  BY <1>1, <1>2 DEF Stores

\* The promises of the other workers outlast a confined step.
LEMMA OthersKeepPublishing ==
  ASSUME IInv, PublishInv, NEW w \in Workers, Confined(w), NEW u \in Workers \ {w}
  PROVE  Publishing(u)' /\ Queued(u)'
<1> DEFINE i == req[u].image
           Promises == /\ pc[u] \in {"publish", "unlock"}
                       /\ db[i] # NoImage
<1>1. Publishing(u) /\ Queued(u)
  BY DEF PublishInv
<1>2. /\ pc'[u] = pc[u] /\ req'[u] = req[u] /\ seen'[u] = seen[u]
      /\ todo'[u] = todo[u] /\ resp'[u] = resp[u]
  BY DEF Confined
<1>3. ASSUME Promises PROVE publishes'[i] = publishes[i] /\ db'[i] = db[i]
  <2>1. HasLock(u)
    BY <1>3 DEF HasLock
  <2>2. publishes'[i] = publishes[i]
    BY <2>1, LockedApart DEF Confined
  <2>3. db'[i] = db[i]
    BY <1>3, <2>1, LockedStays DEF Confined
  <2>4. QED
    BY <2>2, <2>3
<1>4. Publishing(u)'
  BY <1>1, <1>2, <1>3 DEF Publishing
<1>5. Queued(u)'
  BY <1>1, <1>2, <1>3 DEF Queued
<1>6. QED
  BY <1>4, <1>5

\* Events that were sent stay justified by whatever is written after them.
LEMMA WriteSent ==
  ASSUME IInv, PublishInv, NEW w \in Workers, pc[w] = "write", Write(w),
         publishes' = publishes
  PROVE  \A i \in Images : Sent(i)'
<1> DEFINE r == req[w]
           stored == db[r.image]
<1>1. /\ r \in Requests /\ r.image \in Images
      /\ RequestError(r) = NoError
  BY StoredType DEF IInv, RequestFits
<1>2. db' = [db EXCEPT ![r.image] = Written(r, seen[w], stored)]
  BY DEF Write
<1>3. db \in [Images -> Image \cup {NoImage}]
  BY DEF IInv, TypeOK
<1>4. /\ r.op = "CreateImage" => stored = NoImage
      /\ r.op # "CreateImage" =>
            stored # NoImage /\ seen[w] = stored /\ ReadError(r, stored) = NoError
  BY DEF IInv, DecisionInv, Decided, Creating
<1>5. \A i \in Images : Sent(i)
  BY DEF PublishInv
<1>6. Written(r, seen[w], stored) \in Image
  BY StoredType
<1> HIDE DEF r
<1>7. /\ db'[r.image] = Written(r, seen[w], stored)
      /\ \A i \in Images : i # r.image => db'[i] = db[i]
  BY <1>1, <1>2, <1>3
<1>8. ASSUME NEW i \in Images, i = r.image PROVE Sent(i)'
  <2>1. Sent(i)
    BY <1>5
  <2>2. CASE stored = NoImage \/ stored.state \notin Past
    BY <1>8, <2>1, <2>2 DEF Sent
  <2>3. CASE stored # NoImage /\ stored.state \in Past
    <3>1. stored \in Image /\ r.op # "CreateImage" /\ ReadError(r, stored) = NoError
      BY <1>1, <1>3, <1>4, <2>3
    <3>2. db'[i] = Written(r, stored, stored)
      BY <1>4, <1>7, <1>8, <3>1
    <3>3. db'[i].state \in Past /\ VariantsOf(db'[i]) = VariantsOf(stored)
      BY <1>1, <2>3, <3>1, <3>2, WriteKeepsPast
    <3>4. db'[i] # NoImage
      BY <1>6, <1>7, <1>8, SentinelAssumption
    <3>5. QED
      BY <1>8, <2>1, <3>3, <3>4 DEF Sent
  <2>4. QED
    BY <2>2, <2>3
<1>9. ASSUME NEW i \in Images, i # r.image PROVE Sent(i)'
  BY <1>5, <1>7, <1>9 DEF Sent
<1>10. QED
  BY <1>8, <1>9

\* The write of a publish handler owes an event for every variant, and none
\* of them was sent before.
LEMMA WriteOwes ==
  ASSUME IInv, PublishInv, NEW w \in Workers, pc[w] = "write", Write(w),
         req[w].op = "PublishImage"
  PROVE  LET i == req[w].image IN
         /\ db'[i] # NoImage
         /\ db'[i].state = "published"
         /\ VariantsOf(db'[i]) = VariantsOf(seen[w])
         /\ \A v \in Variants : publishes[i][v] = 0
<1> DEFINE r == req[w]
           stored == db[r.image]
<1>1. r \in Requests /\ r.image \in Images
  BY StoredType
<1>2. db' = [db EXCEPT ![r.image] = Written(r, seen[w], stored)]
  BY DEF Write
<1>3. db \in [Images -> Image \cup {NoImage}]
  BY DEF IInv, TypeOK
<1>4. stored # NoImage /\ seen[w] = stored /\ ReadError(r, stored) = NoError
  BY DEF IInv, DecisionInv, Decided, Creating
<1>5. stored \in Image
  BY <1>1, <1>3, <1>4
<1>6. Written(r, seen[w], stored) \in Image /\ r.op = "PublishImage"
  BY StoredType
<1>7. Sent(r.image)
  BY <1>1 DEF PublishInv
<1> HIDE DEF r
<1>8. db'[r.image] = Written(r, stored, stored)
  BY <1>1, <1>2, <1>3, <1>4
<1>9. /\ stored.state \notin Past
      /\ db'[r.image].state = "published"
      /\ VariantsOf(db'[r.image]) = VariantsOf(stored)
  BY <1>1, <1>4, <1>5, <1>6, <1>8, WritePublishes
<1>10. db'[r.image] # NoImage
  BY <1>4, <1>6, <1>8, SentinelAssumption
<1>11. \A v \in Variants : publishes[r.image][v] = 0
  BY <1>7, <1>9 DEF Sent
<1>12. QED
  BY <1>4, <1>9, <1>10, <1>11 DEF r

\* The step of a worker that sends nothing and does not write: it must only
\* not enter the sending, nor leave it with success.
LEMMA QuietPublishing ==
  ASSUME IInv, PublishInv, NEW w \in Workers, Confined(w),
         UNCHANGED <<db, publishes>>, Publishing(w)', Queued(w)'
  PROVE  PublishInv'
<1>1. \A u \in Workers \ {w} : Publishing(u)' /\ Queued(u)'
  BY OthersKeepPublishing
<1>2. \A i \in Images : Sent(i)'
  BY DEF PublishInv, Sent
<1>3. QED
  BY <1>1, <1>2 DEF PublishInv

\* The write: an event is owed for each variant of a published image.
LEMMA WritePublishing ==
  ASSUME IInv, PublishInv, NEW w \in Workers, StoreImage(w) \/ StoreImageFails(w)
  PROVE  PublishInv'
<1>0. /\ pc \in [Workers -> PCs]
      /\ todo \in [Workers -> SUBSET Variants]
      /\ resp \in [Workers -> Answers \cup {""}]
  BY Zenon DEF IInv, TypeOK, Answers
<1>1. PICK e, t, c :
         /\ resp' = [resp EXCEPT ![w] = e] \/ resp' = resp
         /\ todo' = [todo EXCEPT ![w] = t] \/ todo' = todo
         /\ pc' = [pc EXCEPT ![w] = c]
  <2>1. CASE StoreImage(w)
    BY <2>1, Zenon DEF StoreImage, Goto, Answer
  <2>2. CASE StoreImageFails(w)
    BY <2>2, Zenon DEF StoreImageFails, Goto, Answer
  <2>3. QED
    BY <2>1, <2>2
<1>2. PICK R : resp \in [Workers -> R]
  BY <1>0, Zenon
<1>3. /\ pc[w] = "write"
      /\ Write(w) \/ db' = db
      /\ UNCHANGED <<req, seen, publishes>>
  BY DEF StoreImage, StoreImageFails, events
<1>4. Confined(w)
  <2>1. \A u \in Workers \ {w} : pc'[u] = pc[u] /\ todo'[u] = todo[u] /\ resp'[u] = resp[u]
    BY <1>0, <1>1, <1>2
  <2>2. QED
    BY <1>3, <2>1 DEF Confined, Stores
<1>5. \A i \in Images : Sent(i)'
  <2>1. CASE db' = db
    BY <1>3, <2>1 DEF PublishInv, Sent
  <2>2. QED
    BY <1>3, <2>1, WriteSent
<1>6. VariantsOf(seen[w]) \subseteq Variants
  BY DEF VariantsOf
<1>7. CASE StoreImage(w) /\ req[w].op = "PublishImage"
  <2>1. Write(w)
    BY <1>7 DEF StoreImage
  <2>2. /\ db'[req[w].image] # NoImage
        /\ db'[req[w].image].state = "published"
        /\ VariantsOf(db'[req[w].image]) = VariantsOf(seen[w])
        /\ \A v \in Variants : publishes[req[w].image][v] = 0
    BY <1>3, <1>7, <2>1, WriteOwes
  <2>3. /\ todo'[w] = VariantsOf(seen[w])
        /\ pc'[w] = "unlock" => VariantsOf(seen[w]) = {}
    BY <1>0, <1>7 DEF StoreImage, PublishEvents, Goto
  <2>4. Publishing(w)'
    BY <1>3, <1>6, <2>2, <2>3 DEF Publishing
  <2>5. Queued(w)'
    BY <1>3, <2>2, <2>3 DEF Queued
  <2>6. QED
    BY <1>4, <1>5, <2>4, <2>5, OthersKeepPublishing DEF PublishInv
<1>8. CASE ~(StoreImage(w) /\ req[w].op = "PublishImage")
  <2>1. pc'[w] \in {"unlock", "reply"}
    BY <1>0, <1>8 DEF StoreImage, StoreImageFails, PublishEvents, AfterWrite, Goto
  <2>2. req[w].op = "PublishImage" => resp'[w] # NoError
    <3>1. ASSUME req[w].op = "PublishImage" PROVE resp' = [resp EXCEPT ![w] = "ErrMongo"]
      BY <1>8, <3>1 DEF StoreImageFails, Answer
    <3>2. QED
      BY <1>2, <3>1 DEF NoError
  <2>3. Publishing(w)' /\ Queued(w)'
    BY <1>3, <2>1, <2>2 DEF Publishing, Queued
  <2>4. QED
    BY <1>4, <1>5, <2>3, OthersKeepPublishing DEF PublishInv
<1>9. QED
  BY <1>7, <1>8

\* One event: its variant is no longer owed.
LEMMA SendPublishing ==
  ASSUME IInv, PublishInv, NEW w \in Workers, NEW v \in Variants, SendPublished(w, v)
  PROVE  PublishInv'
<1> DEFINE i == req[w].image
<1>0. /\ pc \in [Workers -> PCs]
      /\ todo \in [Workers -> SUBSET Variants]
      /\ publishes \in [Images -> [Variants -> Nat]]
  BY Zenon DEF IInv, TypeOK
<1>1. PICK e : resp' = [resp EXCEPT ![w] = e] \/ resp' = resp
  BY Zenon DEF SendPublished, Answer
<1>2. PICK R : resp \in [Workers -> R]
  BY Zenon DEF IInv, TypeOK
<1>3. /\ pc[w] = "publish"
      /\ v \in todo[w]
      /\ publishes' = [publishes EXCEPT ![i][v] = publishes[i][v] + 1]
      /\ todo' = [todo EXCEPT ![w] = todo[w] \ {v}]
      /\ UNCHANGED <<db, req, seen>>
  BY DEF SendPublished
<1>4. IF todo[w] = {v} THEN pc' = [pc EXCEPT ![w] = "unlock"] ELSE pc' = pc
  BY DEF SendPublished, Goto
<1>5. i \in Images
  BY <1>3, RequestFields DEF IInv, RequestFits
<1>6. /\ publishes'[i][v] = publishes[i][v] + 1
      /\ \A u \in Variants : u # v => publishes'[i][u] = publishes[i][u]
      /\ \A j \in Images : j # i => publishes'[j] = publishes[j]
  BY <1>0, <1>3, <1>5
<1>7. Publishing(w)
  BY DEF PublishInv
<1>8. /\ db[i] # NoImage /\ db[i].state = "published"
      /\ VariantsOf(db[i]) = VariantsOf(seen[w])
      /\ todo[w] \subseteq VariantsOf(db[i])
      /\ \A u \in VariantsOf(db[i]) : publishes[i][u] = IF u \in todo[w] THEN 0 ELSE 1
      /\ VariantsOf(db[i]) \subseteq Variants
  BY <1>3, <1>7 DEF Publishing, VariantsOf
<1>9. \A u \in VariantsOf(db[i]) :
         publishes'[i][u] = IF u \in todo[w] \ {v} THEN 0 ELSE 1
  BY <1>3, <1>6, <1>8
<1>10. todo'[w] = todo[w] \ {v}
  BY <1>0, <1>3
<1>11. Publishing(w)'
  BY <1>3, <1>8, <1>9, <1>10 DEF Publishing
<1>12. Queued(w)'
  BY <1>0, <1>3, <1>4, <1>8, <1>9 DEF Queued
<1>13. Confined(w)
  <2>1. \A u \in Workers \ {w} : pc'[u] = pc[u] /\ todo'[u] = todo[u] /\ resp'[u] = resp[u]
    BY <1>0, <1>1, <1>2, <1>3, <1>4
  <2>2. QED
    BY <1>3, <1>6, <2>1 DEF Confined, Stores, HasLock
<1>14. ASSUME NEW j \in Images PROVE Sent(j)'
  <2>1. Sent(j)
    BY DEF PublishInv
  <2>2. CASE j # i
    BY <1>3, <1>6, <2>1, <2>2 DEF Sent
  <2>3. CASE j = i
    BY <1>3, <1>6, <1>8, <1>9, <2>1, <2>3 DEF Sent, Past
  <2>4. QED
    BY <2>2, <2>3
<1>15. QED
  BY <1>11, <1>12, <1>13, <1>14, OthersKeepPublishing DEF PublishInv

\* The invariant of the publications is inductive.
LEMMA PublishStep ==
  ASSUME IInv, PublishInv, [Next]_vars
  PROVE  PublishInv'
<1>0. /\ TypeOK
      /\ pc \in [Workers -> PCs]
      /\ req \in [Workers -> Requests \cup {NoRequest}]
      /\ seen \in [Workers -> Image \cup {NoImage}]
  BY Zenon DEF IInv, TypeOK
<1>1. PICK R : resp \in [Workers -> R]
  BY <1>0, Zenon DEF TypeOK
<1>2. ASSUME NEW w \in Workers,
             \A u \in Workers \ {w} :
                /\ pc'[u] = pc[u] /\ req'[u] = req[u] /\ seen'[u] = seen[u]
                /\ todo'[u] = todo[u] /\ resp'[u] = resp[u],
             UNCHANGED <<db, publishes>>,
             pc'[w] # "publish",
             pc'[w] = "unlock" => resp'[w] # NoError
      PROVE  PublishInv'
  <2>1. Confined(w)
    BY <1>2 DEF Confined, Stores
  <2>2. Publishing(w)' /\ Queued(w)'
    BY <1>2 DEF Publishing, Queued
  <2>3. QED
    BY <1>2, <2>1, <2>2, QuietPublishing
<1>3. ASSUME NEW w \in Workers, NEW r \in Requests, Receive(w, r) PROVE PublishInv'
  BY <1>0, <1>1, <1>2, <1>3 DEF Receive, Goto, Answer, events
<1>4. ASSUME NEW w \in Workers, AcquireImageLock(w) \/ SendUploaded(w) PROVE PublishInv'
  BY <1>0, <1>2, <1>4 DEF AcquireImageLock, SendUploaded, Goto, events
<1>5. ASSUME NEW w \in Workers, GetImage(w) PROVE PublishInv'
  BY <1>0, <1>1, <1>2, <1>5 DEF GetImage, Goto, Answer, events
<1>6. ASSUME NEW w \in Workers,
             \/ AcquireImageLockFails(w) \/ GetImageFails(w)
             \/ SendUploadedFails(w) \/ SendPublishedFails(w)
      PROVE  PublishInv'
  BY <1>0, <1>1, <1>2, <1>6
     DEF AcquireImageLockFails, GetImageFails, SendUploadedFails, SendPublishedFails,
         Goto, Answer, events, NoError
<1>7. ASSUME NEW w \in Workers,
             UnlockImage(w) \/ UnlockImageFails(w) \/ Reply(w) \/ Crash(w)
      PROVE  PublishInv'
  <2>1. Release(w) /\ UNCHANGED <<db, publishes>>
    BY <1>7 DEF UnlockImage, UnlockImageFails, Reply, Crash, events
  <2>2. QED
    BY <1>0, <1>2, <2>1, Released
<1>8. ASSUME UNCHANGED <<db, publishes, pc, req, seen, todo, resp>> PROVE PublishInv'
  BY <1>8 DEF PublishInv, Publishing, Queued, Sent
<1>9. ASSUME NEW i \in Images, ExpireLock(i) PROVE PublishInv'
  BY <1>8, <1>9 DEF ExpireLock, worker, events
<1>10. CASE UNCHANGED vars
  BY <1>8, <1>10 DEF vars
<1>11. QED
  BY <1>3, <1>4, <1>5, <1>6, <1>7, <1>9, <1>10, WritePublishing, SendPublishing
     DEF Next, Progress, Failure

\* So it holds throughout.
LEMMA PublishInvariance == Spec => []PublishInv
<1>1. Init => PublishInv
  <2> SUFFICES ASSUME Init PROVE PublishInv
    OBVIOUS
  <2>1. /\ pc = [w \in Workers |-> "idle"]
        /\ publishes = [i \in Images |-> [v \in Variants |-> 0]]
    BY Zenon DEF Init
  <2>2. \A w \in Workers : Publishing(w) /\ Queued(w)
    BY <2>1 DEF Publishing, Queued
  <2>3. \A i \in Images : Sent(i)
    BY <2>1 DEF Sent
  <2>4. QED
    BY <2>2, <2>3 DEF PublishInv
<1>2. IInv /\ PublishInv /\ [Next]_vars => PublishInv'
  BY PublishStep
<1>3. QED
  BY <1>1, <1>2, Invariance, PTL DEF Spec

\* While events go out, nobody takes the image out of publication or changes
\* which variants it has.
THEOREM PublishingStable == Spec => []PublishingIsStable
<1>1. PublishInv => PublishingIsStable
  BY DEF PublishInv, Publishing, PublishingIsStable
<1>2. QED
  BY <1>1, PublishInvariance, PTL

\* No variant is published twice, whatever fails and whoever retries.
THEOREM NeverPublishedTwice == Spec => []PublishedOnce
<1>1. PublishInv => PublishedOnce
  BY DEF PublishInv, Sent, PublishedOnce
<1>2. QED
  BY <1>1, PublishInvariance, PTL

\* No event of a publication runs ahead of the stored image.
THEOREM StoredBeforeSent == Spec => []EventsFollowPublication
<1>1. PublishInv => EventsFollowPublication
  BY DEF PublishInv, Sent, EventsFollowPublication, Past
<1>2. QED
  BY <1>1, PublishInvariance, PTL

\* A publish request that is answered 204 has queued every event.
THEOREM RepliesAreTrue == Spec => []PublishReplyMeansQueued
<1>1. PublishInv => PublishReplyMeansQueued
  BY DEF PublishInv, Queued, PublishReplyMeansQueued
<1>2. QED
  BY <1>1, PublishInvariance, PTL

-----------------------------------------------------------------------------
(* Repeated announcements are charged to faults                             *)

\* The upload that is stored was decided on a created image, and no write
\* makes an image created again.
LEMMA WriteLeavesCreated ==
  ASSUME NEW r \in Requests, RequestError(r) = NoError, r.op # "CreateImage",
         NEW im \in Image, ReadError(r, im) = NoError
  PROVE  /\ r.op = "UpdateImage" /\ r.state = "uploaded" => im.state = "created"
         /\ Written(r, im, im).state = "created" =>
               im.state = "created" /\ ~(r.op = "UpdateImage" /\ r.state = "uploaded")
<1>1. CASE r.op = "UpdateImage"
  <2>1. r.state \in ImageStates
    BY <1>1, PutStateValid
  <2>2. TransitionAllowed(im.state, r.state)
    BY <1>1, <2>1, ReadErrorValue, UpdateImageChecked
  <2>3. r.state # "created" /\ (r.state = "uploaded" => im.state = "created")
    BY <2>2 DEF TransitionAllowed
  <2>4. SetState(im, r.state).state = r.state
    BY <2>1, SetStateType
  <2>5. Written(r, im, im) = SetState(im, r.state)
    BY <1>1, WrittenValue
  <2>6. QED
    BY <2>3, <2>4, <2>5
<1>2. CASE r.op = "CreateDownload"
  <2>1. r.variant \in Variants /\ r.type \in Types \cup {NoType}
    BY <1>2, RequestFields
  <2>2. AddDownload(im, r.variant, r.type).state = "importing"
    BY DEF AddDownload
  <2>3. Written(r, im, im) = AddDownload(im, r.variant, r.type)
    BY <1>2, WrittenValue
  <2>4. QED
    BY <1>2, <2>2, <2>3
<1>3. CASE r.op = "UpdateDownload"
  <2>1. r.variant \in Variants /\ r.type \in Types \cup {NoType}
    BY <1>3, RequestFields
  <2>2. UpdateDownloadError(im, r.variant, r.state, r.type) = NoError
    BY <1>3, ReadErrorValue
  <2>3. im.downloads[r.variant] \in Download /\ r.state \in DownloadStates
    BY <2>1, <2>2, UpdateDownloadChecked
  <2>4. Written(r, im, im) = ReplaceDownload(im, r.variant, r.state, r.type)
    BY <1>3, WrittenValue
  <2>5. Written(r, im, im).state = "created" => im.state = "created"
    BY <2>1, <2>3, <2>4, ReplaceSteps
  <2>6. QED
    BY <1>3, <2>5
<1>4. CASE r.op = "PublishImage"
  BY <1>4, WritePublishes
<1>5. QED
  BY <1>1, <1>2, <1>3, <1>4, RequestFields

StoresUpload(w) ==
    pc[w] = "write" /\ req[w].op = "UpdateImage" /\ req[w].state = "uploaded"

\* The image may still be announced without a fault: it is not stored as
\* uploaded, and nobody is about to store it so.
Announceable(i) ==
    /\ db[i] = NoImage \/ db[i].state = "created"
    /\ \A w \in Workers : StoresUpload(w) => req[w].image # i

\* All announcements of an image but one are paid for, and all of them as
\* long as it can be announced again.
Charged(i) == uploads[i] <= IF Announceable(i) THEN faults ELSE faults + 1

ChargedInv == \A i \in Images : Charged(i)

\* The counts are numbers.
LEMMA Counts ==
  ASSUME TypeOK
  PROVE  /\ uploads \in [Images -> Nat]
         /\ publishes \in [Images -> [Variants -> Nat]]
         /\ faults \in Nat
<1>1. uploads \in [Images -> Nat] /\ publishes \in [Images -> [Variants -> Nat]]
  BY Zenon DEF TypeOK
<1>2. faults \in 0..MaxFaults
  BY Zenon DEF TypeOK
<1>3. QED
  BY <1>1, <1>2, FaultAssumption

\* A fault pays for whatever the step does to the image.
LEMMA FaultCharges ==
  ASSUME TypeOK, ChargedInv, UNCHANGED uploads, faults' = faults + 1
  PROVE  ChargedInv'
  BY Counts DEF ChargedInv, Charged

\* Without one, an image must not become announceable.
LEMMA QuietCharged ==
  ASSUME TypeOK, ChargedInv, UNCHANGED uploads, faults' = faults,
         \A i \in Images : Announceable(i)' => Announceable(i)
  PROVE  ChargedInv'
  BY Counts DEF ChargedInv, Charged

\* No step of a handler but the sending of an announcement needs a charge.
LEMMA ChargedStep ==
  ASSUME IInv, ChargedInv, [Next]_vars
  PROVE  ChargedInv'
<1>0. /\ TypeOK
      /\ \A w \in Workers : pc[w] # "idle" => req[w].image \in Images
  BY RequestFields DEF IInv, RequestFits
<1>1. /\ pc \in [Workers -> PCs]
      /\ req \in [Workers -> Requests \cup {NoRequest}]
      /\ uploads \in [Images -> Nat]
      /\ faults \in Nat
      /\ db \in [Images -> Image \cup {NoImage}]
  BY <1>0, Counts DEF TypeOK
<1>2. ASSUME NEW w \in Workers, pc[w] # "write", UNCHANGED <<db, uploads, faults>>,
             \A u \in Workers \ {w} : pc'[u] = pc[u] /\ req'[u] = req[u]
      PROVE  ChargedInv'
  BY <1>0, <1>2, QuietCharged DEF Announceable, StoresUpload
<1>3. ASSUME Fault, UNCHANGED uploads PROVE ChargedInv'
  BY <1>0, <1>3, FaultCharges DEF Fault
<1>4. ASSUME NEW w \in Workers, NEW r \in Requests, Receive(w, r) PROVE ChargedInv'
  BY <1>1, <1>2, <1>4 DEF Receive, Goto, events
<1>5. ASSUME NEW w \in Workers, AcquireImageLock(w) PROVE ChargedInv'
  BY <1>1, <1>2, <1>5 DEF AcquireImageLock, Goto, events
<1>6. ASSUME NEW w \in Workers, GetImage(w) PROVE ChargedInv'
  BY <1>1, <1>2, <1>6 DEF GetImage, Goto, events
<1>7. ASSUME NEW w \in Workers, SendUploaded(w) PROVE ChargedInv'
  <2> DEFINE i == req[w].image
  <2>1. /\ i \in Images
        /\ pc[w] = "announce"
        /\ uploads' = [uploads EXCEPT ![i] = uploads[i] + 1]
        /\ pc' = [pc EXCEPT ![w] = "write"]
        /\ UNCHANGED <<db, req, faults>>
    BY <1>0, <1>7 DEF SendUploaded, Goto
  <2>2. /\ req[w].op = "UpdateImage" /\ req[w].state = "uploaded"
        /\ db[i].state = "created"
        /\ \A u \in Workers : StoresUpload(u) => req[u].image # i
    <3>1. /\ req[w] \in Requests /\ RequestError(req[w]) = NoError
          /\ req[w].op = "UpdateImage" /\ req[w].state = "uploaded"
      BY <2>1 DEF IInv, RequestFits
    <3>2. db[i] \in Image /\ ReadError(req[w], db[i]) = NoError
      BY <1>1, <2>1, <3>1 DEF IInv, DecisionInv, Decided, Creating
    <3>3. db[i].state = "created"
      BY <3>1, <3>2, WriteLeavesCreated
    <3>4. \A u \in Workers : StoresUpload(u) => req[u].image # i
      BY <2>1, WritesAlone DEF StoresUpload
    <3>5. QED
      BY <3>1, <3>3, <3>4
  <2>3. Announceable(i) /\ ~Announceable(i)'
    BY <1>1, <2>1, <2>2 DEF Announceable, StoresUpload
  <2>4. Charged(i)'
    BY <1>1, <2>1, <2>3 DEF ChargedInv, Charged
  <2>5. ASSUME NEW j \in Images, j # i PROVE Charged(j)'
    <3>1. Announceable(j)' => Announceable(j)
      BY <1>1, <2>1, <2>5 DEF Announceable, StoresUpload
    <3>2. QED
      BY <1>1, <2>1, <2>5, <3>1 DEF ChargedInv, Charged
  <2>6. ASSUME NEW j \in Images PROVE Charged(j)'
    <3>1. CASE j = i
      BY <2>1, <2>4, <3>1 DEF Charged, Announceable, StoresUpload
    <3>2. QED
      BY <2>5, <3>1
  <2>7. QED
    BY <2>6 DEF ChargedInv
<1>8. ASSUME NEW w \in Workers, StoreImage(w) PROVE ChargedInv'
  <2> DEFINE r == req[w]
             i == r.image
             im == db[i]
  <2>1. /\ pc[w] = "write"
        /\ Write(w)
        /\ \A u \in Workers \ {w} : pc'[u] = pc[u]
        /\ UNCHANGED <<req, uploads, faults>>
    BY <1>1, <1>8 DEF StoreImage, Goto, events
  <2>2. r \in Requests /\ i \in Images /\ RequestError(r) = NoError
    BY <1>0, <2>1 DEF IInv, RequestFits
  <2>3. /\ r.op = "CreateImage" => im = NoImage
        /\ r.op # "CreateImage" =>
              /\ im \in Image /\ seen[w] = im /\ ReadError(r, im) = NoError
    BY <1>1, <2>1, <2>2 DEF IInv, DecisionInv, Decided, Creating
  <2>4. /\ db'[i] = Written(r, seen[w], im)
        /\ \A j \in Images : j # i => db'[j] = db[j]
    BY <1>1, <2>1, <2>2 DEF Write
  <2>5. db'[i] # NoImage
    BY <2>1, <2>4, StoredType, SentinelAssumption
  <2>6. ASSUME Announceable(i)' PROVE Announceable(i)
    <3>1. db'[i].state = "created"
      BY <2>1, <2>5, <2>6 DEF Announceable
    <3>2. CASE r.op = "CreateImage"
      BY <2>1, <2>3, <2>6, <3>2 DEF Announceable, StoresUpload
    <3>3. CASE r.op # "CreateImage"
      <4>1. im.state = "created" /\ ~StoresUpload(w)
        BY <2>2, <2>3, <2>4, <3>1, <3>3, WriteLeavesCreated DEF StoresUpload
      <4>2. QED
        BY <2>1, <2>6, <4>1 DEF Announceable, StoresUpload
    <3>4. QED
      BY <3>2, <3>3
  <2>7. ASSUME NEW j \in Images, j # i, Announceable(j)' PROVE Announceable(j)
    BY <2>1, <2>4, <2>7 DEF Announceable, StoresUpload
  <2>8. QED
    BY <1>0, <2>1, <2>6, <2>7, QuietCharged
<1>9. ASSUME NEW w \in Workers, NEW v \in Variants, SendPublished(w, v) PROVE ChargedInv'
  BY <1>1, <1>2, <1>9 DEF SendPublished, Goto
<1>10. ASSUME NEW w \in Workers, Failure(w) PROVE ChargedInv'
  BY <1>3, <1>10
     DEF Failure, AcquireImageLockFails, GetImageFails, SendUploadedFails, StoreImageFails,
         SendPublishedFails, UnlockImageFails, Crash, events
<1>11. ASSUME NEW w \in Workers, UnlockImage(w) \/ Reply(w) PROVE ChargedInv'
  <2>1. pc[w] # "write" /\ Release(w) /\ UNCHANGED <<db, uploads, faults>>
    BY <1>11 DEF UnlockImage, Reply, events
  <2>2. QED
    BY <1>0, <1>2, <2>1, Released
<1>12. ASSUME UNCHANGED <<db, pc, req, uploads, faults>> PROVE ChargedInv'
  BY <1>12 DEF ChargedInv, Charged, Announceable, StoresUpload
<1>13. ASSUME NEW i \in Images, ExpireLock(i) PROVE ChargedInv'
  BY <1>12, <1>13 DEF ExpireLock, worker, events
<1>14. CASE UNCHANGED vars
  BY <1>12, <1>14 DEF vars
<1>15. QED
  BY <1>4, <1>5, <1>6, <1>7, <1>8, <1>9, <1>10, <1>11, <1>13, <1>14 DEF Next, Progress

\* At the start nothing is announced.
LEMMA InitCharged ==
  ASSUME Init
  PROVE  ChargedInv
<1>1. \A i \in Images : uploads[i] = 0
  BY DEF Init
<1>2. faults = 0
  BY DEF Init
<1>3. QED
  BY <1>1, <1>2 DEF ChargedInv, Charged

\* An upload is announced again only after a failure, once for each.
THEOREM AnnouncedAgainAfterFaults == Spec => []AnnouncedOncePerFault
<1>1. Init => ChargedInv
  BY InitCharged
<1>2. IInv /\ ChargedInv /\ [Next]_vars => ChargedInv'
  BY ChargedStep
<1>3. IInv /\ ChargedInv => AnnouncedOncePerFault
  <2> SUFFICES ASSUME IInv, ChargedInv, NEW i \in Images PROVE uploads[i] <= 1 + faults
    BY DEF AnnouncedOncePerFault
  <2>1. uploads[i] \in Nat /\ faults \in Nat
    BY Counts DEF IInv
  <2>2. QED
    BY <2>1 DEF ChargedInv, Charged
<1>4. QED
  BY <1>1, <1>2, <1>3, Invariance, PTL DEF Spec

-----------------------------------------------------------------------------
(* The importer may answer at once                                          *)

\* A refused variant was refused because of the image that is still stored.
Refused(w) ==
    (pc[w] = "unlock" /\ req[w].op = "CreateDownload" /\ resp[w] = "ErrImageNotImporting") =>
        /\ db[req[w].image] # NoImage
        /\ seen[w] = db[req[w].image]

RefusedInv == \A w \in Workers : Refused(w)

\* A missing image is not refused for its state.
LEMMA RefusedExists ==
  ASSUME NEW r, r.op = "CreateDownload", NEW im,
         ReadError(r, im) = "ErrImageNotImporting"
  PROVE  im # NoImage
  BY ReadErrorValue DEF CreateDownloadError

\* The step of one worker keeps the refusals of the others: it does not write
\* an image whose lock another one has.
LEMMA RefusedStep ==
  ASSUME IInv, RefusedInv, [Next]_vars
  PROVE  RefusedInv'
<1>0. /\ TypeOK
      /\ pc \in [Workers -> PCs]
      /\ req \in [Workers -> Requests \cup {NoRequest}]
      /\ seen \in [Workers -> Image \cup {NoImage}]
  BY Zenon DEF IInv, TypeOK
<1>1. PICK R : resp \in [Workers -> R]
  BY <1>0, Zenon DEF TypeOK
<1>2. ASSUME NEW w \in Workers, Summary(w), Refused(w)',
             \A u \in Workers \ {w} : resp'[u] = resp[u]
      PROVE  RefusedInv'
  <2> SUFFICES ASSUME NEW u \in Workers, u # w PROVE Refused(u)'
    BY <1>2 DEF RefusedInv
  <2>1. Refused(u)
    BY DEF RefusedInv
  <2>2. pc'[u] = pc[u] /\ req'[u] = req[u] /\ seen'[u] = seen[u] /\ resp'[u] = resp[u]
    BY <1>2 DEF Summary, OthersStay
  <2>3. (pc[u] = "unlock" /\ db[req[u].image] # NoImage)
           => db'[req[u].image] = db[req[u].image]
    BY <1>2, LockedStays DEF Summary, HasLock
  <2>4. QED
    BY <2>1, <2>2, <2>3 DEF Refused
<1>3. ASSUME NEW w \in Workers, NEW r \in Requests, Receive(w, r) PROVE RefusedInv'
  <2>1. Refused(w)' /\ \A u \in Workers \ {w} : resp'[u] = resp[u]
    BY <1>0, <1>1, <1>3 DEF Receive, Goto, Answer, Refused
  <2>2. QED
    BY <1>2, <1>3, <2>1, WorkerSummary
<1>4. ASSUME NEW w \in Workers, AcquireImageLock(w) PROVE RefusedInv'
  <2>1. Refused(w)' /\ \A u \in Workers \ {w} : resp'[u] = resp[u]
    BY <1>0, <1>1, <1>4 DEF AcquireImageLock, Goto, Refused
  <2>2. QED
    BY <1>2, <1>4, <2>1, WorkerSummary
<1>5. ASSUME NEW w \in Workers, Progress(w) PROVE RefusedInv'
  <2>1. CASE GetImage(w)
    <3>1. /\ seen'[w] = db[req[w].image]
          /\ pc'[w] = "unlock" => resp'[w] = ReadError(req[w], db[req[w].image])
          /\ UNCHANGED <<db, req>>
          /\ \A u \in Workers \ {w} : resp'[u] = resp[u]
      BY <1>0, <1>1, <2>1 DEF GetImage, Goto, Answer
    <3>2. Refused(w)'
      BY <3>1, RefusedExists DEF Refused
    <3>3. QED
      BY <1>2, <1>5, <3>1, <3>2, WorkerSummary
  <2>2. CASE SendUploaded(w)
    <3>1. Refused(w)' /\ \A u \in Workers \ {w} : resp'[u] = resp[u]
      BY <1>0, <1>1, <2>2 DEF SendUploaded, Goto, Refused
    <3>2. QED
      BY <1>2, <1>5, <3>1, WorkerSummary
  <2>3. CASE StoreImage(w)
    <3>1. /\ pc'[w] = "unlock" => resp'[w] = NoError
          /\ \A u \in Workers \ {w} : resp'[u] = resp[u]
      BY <1>0, <1>1, <2>3 DEF StoreImage, Goto, Answer
    <3>2. QED
      BY <1>2, <1>5, <3>1, WorkerSummary DEF Refused, NoError
  <2>4. CASE \E v \in Variants : SendPublished(w, v)
    <3>1. /\ pc'[w] = "unlock" => resp'[w] = NoError
          /\ \A u \in Workers \ {w} : resp'[u] = resp[u]
      BY <1>0, <1>1, <2>4 DEF SendPublished, Goto, Answer
    <3>2. QED
      BY <1>2, <1>5, <3>1, WorkerSummary DEF Refused, NoError
  <2>5. CASE UnlockImage(w) \/ Reply(w)
    <3>1. Refused(w)' /\ \A u \in Workers \ {w} : resp'[u] = resp[u]
      BY <1>0, <2>5, Released DEF UnlockImage, Reply, Refused
    <3>2. QED
      BY <1>2, <1>5, <3>1, WorkerSummary
  <2>6. QED
    BY <1>5, <2>1, <2>2, <2>3, <2>4, <2>5 DEF Progress
<1>6. ASSUME NEW w \in Workers, Failure(w) PROVE RefusedInv'
  <2>1. CASE Crash(w) \/ UnlockImageFails(w)
    <3>1. Refused(w)' /\ \A u \in Workers \ {w} : resp'[u] = resp[u]
      BY <1>0, <2>1, Released DEF Crash, UnlockImageFails, Refused
    <3>2. QED
      BY <1>2, <1>6, <3>1, WorkerSummary
  <2>2. CASE ~(Crash(w) \/ UnlockImageFails(w))
    <3>1. PICK e \in {"ErrMongo", "ErrKafka"} : resp' = [resp EXCEPT ![w] = e]
      BY <1>6, <2>2
         DEF Failure, AcquireImageLockFails, GetImageFails, SendUploadedFails,
             StoreImageFails, SendPublishedFails, Answer
    <3>2. resp'[w] # "ErrImageNotImporting" /\ \A u \in Workers \ {w} : resp'[u] = resp[u]
      BY <1>1, <3>1
    <3>3. QED
      BY <1>2, <1>6, <3>2, WorkerSummary DEF Refused
  <2>3. QED
    BY <2>1, <2>2
<1>7. ASSUME UNCHANGED <<db, pc, req, seen, resp>> PROVE RefusedInv'
  BY <1>7 DEF RefusedInv, Refused
<1>8. ASSUME NEW i \in Images, ExpireLock(i) PROVE RefusedInv'
  BY <1>7, <1>8 DEF ExpireLock, worker
<1>9. CASE UNCHANGED vars
  BY <1>7, <1>9 DEF vars
<1>10. QED
  BY <1>3, <1>4, <1>5, <1>6, <1>8, <1>9 DEF Next

\* An importer that reacts at once to the event of an upload meets the uploaded
\* image: the worker that sent it still has the lock.  If the importer meets
\* the created image, each event of the image is charged to a fault of its own.
THEOREM ImporterWaitsForUpload == Spec => []ImporterIsNotEarly
<1>1. Init => ChargedInv /\ RefusedInv
  <2> SUFFICES ASSUME Init PROVE ChargedInv /\ RefusedInv
    OBVIOUS
  <2>1. ChargedInv
    BY InitCharged
  <2>2. \A w \in Workers : pc[w] = "idle"
    BY DEF Init
  <2>3. QED
    BY <2>1, <2>2 DEF RefusedInv, Refused
<1>2. IInv /\ ChargedInv /\ RefusedInv /\ [Next]_vars => ChargedInv' /\ RefusedInv'
  BY ChargedStep, RefusedStep
<1>3. IInv /\ ChargedInv /\ RefusedInv => ImporterIsNotEarly
  <2> SUFFICES ASSUME IInv, ChargedInv, RefusedInv, NEW w \in Workers,
                      pc[w] = "unlock", req[w].op = "CreateDownload",
                      resp[w] = "ErrImageNotImporting", uploads[req[w].image] > 0,
                      seen[w].state = "created"
               PROVE  uploads[req[w].image] <= faults
    BY DEF ImporterIsNotEarly
  <2> DEFINE i == req[w].image
  <2>1. i \in Images
    BY RequestFields DEF IInv, RequestFits
  <2>2. db[i] # NoImage /\ db[i].state = "created"
    BY DEF RefusedInv, Refused
  <2>3. ASSUME NEW u \in Workers, StoresUpload(u) PROVE req[u].image # i
    BY <2>3, LockedApart DEF HasLock, StoresUpload, Creating
  <2>4. Announceable(i)
    BY <2>2, <2>3 DEF Announceable
  <2>5. uploads[i] \in Nat /\ faults \in Nat
    BY <2>1, Counts DEF IInv
  <2>6. QED
    BY <2>1, <2>4, <2>5 DEF ChargedInv, Charged
<1>4. QED
  BY <1>1, <1>2, <1>3, Invariance, PTL DEF Spec

-----------------------------------------------------------------------------
(* Publications are silenced only by their own handler                       *)

\* Clients leave the published state to the publish call.
PublishedByPublishCall ==
    \A r \in Requests : r.op = "UpdateImage" => r.state # "published"

\* Then no other write takes an image into publication.
LEMMA WriteBegins ==
  ASSUME NEW r \in Requests, RequestError(r) = NoError,
         r.op \notin {"CreateImage", "PublishImage"},
         r.op = "UpdateImage" => r.state # "published",
         NEW im \in Image, ReadError(r, im) = NoError,
         Written(r, im, im).state \in InPublication
  PROVE  im.state \in InPublication
<1>1. CASE r.op = "UpdateImage"
  <2>1. r.state \in ImageStates
    BY <1>1, PutStateValid
  <2>2. TransitionAllowed(im.state, r.state)
    BY <1>1, <2>1, ReadErrorValue, UpdateImageChecked
  <2>3. SetState(im, r.state).state = r.state
    BY <2>1, SetStateType
  <2>4. Written(r, im, im) = SetState(im, r.state)
    BY <1>1, WrittenValue
  <2>5. r.state = "completed"
    BY <1>1, <2>3, <2>4 DEF InPublication
  <2>6. QED
    BY <2>2, <2>5 DEF TransitionAllowed, InPublication
<1>2. CASE r.op = "CreateDownload"
  <2>1. AddDownload(im, r.variant, r.type).state = "importing"
    BY DEF AddDownload
  <2>2. Written(r, im, im) = AddDownload(im, r.variant, r.type)
    BY <1>2, WrittenValue
  <2>3. QED
    BY <2>1, <2>2 DEF InPublication
<1>3. CASE r.op = "UpdateDownload"
  <2>1. r.variant \in Variants /\ r.type \in Types \cup {NoType}
    BY <1>3, RequestFields
  <2>2. UpdateDownloadError(im, r.variant, r.state, r.type) = NoError
    BY <1>3, ReadErrorValue
  <2>3. im.downloads[r.variant] \in Download /\ r.state \in DownloadStates
    BY <2>1, <2>2, UpdateDownloadChecked
  <2>4. Written(r, im, im) = ReplaceDownload(im, r.variant, r.state, r.type)
    BY <1>3, WrittenValue
  <2>5. QED
    BY <2>1, <2>3, <2>4, ReplaceSteps
<1>4. QED
  BY <1>1, <1>2, <1>3, RequestFields


\* A step of a worker that is not sending the events of an image silences it
\* only by a write.
LEMMA QuietSilence ==
  ASSUME NEW w \in Workers, NEW i \in Images, UNCHANGED <<db, publishes>>,
         \A u \in Workers \ {w} : pc'[u] = pc[u] /\ req'[u] = req[u],
         pc[w] = "publish" => req[w].image # i,
         Silent(i)'
  PROVE  Silent(i)
  BY DEF Silent

\* A write that leaves an event missing is that of the publish handler, which
\* owes the event.
LEMMA StoreSilence ==
  ASSUME PublishedByPublishCall, IInv, NEW w \in Workers, NEW i \in Images,
         pc[w] = "write", Write(w), UNCHANGED publishes,
         \A u \in Workers \ {w} : pc'[u] = pc[u] /\ req'[u] = req[u],
         Silent(i)', ~Silent(i)
  PROVE  /\ req[w].op = "PublishImage" /\ req[w].image = i
         /\ PublishEvents(req[w], seen[w]) # {}
<1> DEFINE r == req[w]
           im == db[i]
<1>1. db \in [Images -> Image \cup {NoImage}]
  BY Zenon DEF IInv, TypeOK
<1>2. r \in Requests /\ r.image \in Images /\ RequestError(r) = NoError
  BY RequestFields DEF IInv, RequestFits
<1>3. \A u \in Workers : pc[u] = "publish" => req[u].image # i
  BY DEF Silent
<1>4. ~(/\ db[i] # NoImage
        /\ db[i].state \in InPublication
        /\ \E v \in VariantsOf(db[i]) : publishes[i][v] = 0)
  BY <1>3 DEF Silent, InPublication
<1>5. /\ db'[i] # NoImage
      /\ db'[i].state \in InPublication
      /\ \E v \in VariantsOf(db'[i]) : publishes[i][v] = 0
  BY DEF Silent, InPublication
<1>6. r.image = i
  BY <1>1, <1>2, <1>4, <1>5 DEF Write
<1>7. r.op # "CreateImage" => /\ im \in Image /\ im # NoImage /\ seen[w] = im
                              /\ ReadError(r, im) = NoError
  BY <1>1, <1>2, <1>6 DEF IInv, DecisionInv, Decided, Creating
<1>8. db'[i] = Written(r, seen[w], im)
  BY <1>1, <1>2, <1>6 DEF Write
<1>9. r.op # "CreateImage"
  <2>1. NewImage.state = "created"
    BY DEF NewImage
  <2>2. QED
    BY <1>5, <1>8, <2>1, WrittenValue DEF InPublication
<1>10. db'[i] = Written(r, im, im)
  BY <1>7, <1>8, <1>9
<1>11. r.op = "PublishImage"
  <2> SUFFICES ASSUME r.op # "PublishImage" PROVE FALSE
    OBVIOUS
  <2>1. r.op = "UpdateImage" => r.state # "published"
    BY <1>2 DEF PublishedByPublishCall
  <2>2. im.state \in InPublication
    BY <1>2, <1>5, <1>7, <1>9, <1>10, <2>1, WriteBegins
  <2>3. VariantsOf(db'[i]) = VariantsOf(im)
    BY <1>2, <1>7, <1>9, <1>10, <2>2, WriteKeepsPast DEF InPublication, Past
  <2>4. QED
    BY <1>4, <1>5, <1>7, <1>9, <2>2, <2>3
<1>12. VariantsOf(db'[i]) = VariantsOf(seen[w])
  BY <1>2, <1>7, <1>9, <1>10, <1>11, WritePublishes
<1>13. PublishEvents(r, seen[w]) # {}
  BY <1>5, <1>11, <1>12 DEF PublishEvents
<1>14. QED
  BY <1>6, <1>11, <1>13

\* The last event leaves nothing owed.
LEMMA SendSilence ==
  ASSUME IInv, PublishInv, NEW w \in Workers, NEW v \in Variants, SendPublished(w, v),
         NEW i \in Images, Silent(i)'
  PROVE  Silent(i)
<1>0. /\ pc \in [Workers -> PCs]
      /\ publishes \in [Images -> [Variants -> Nat]]
  BY Zenon DEF IInv, TypeOK
<1>1. /\ pc[w] = "publish"
      /\ publishes' = [publishes EXCEPT ![req[w].image][v] = publishes[req[w].image][v] + 1]
      /\ UNCHANGED <<db, req>>
      /\ pc' = IF todo[w] = {v} THEN [pc EXCEPT ![w] = "unlock"] ELSE pc
  BY DEF SendPublished, Goto
<1>2. CASE req[w].image # i
  <2>1. publishes'[i] = publishes[i]
    BY <1>0, <1>1, <1>2
  <2>2. \A u \in Workers : (pc[u] = "publish" /\ req[u].image = i) => pc'[u] = pc[u]
    BY <1>0, <1>1, <1>2
  <2>3. QED
    BY <1>1, <2>1, <2>2 DEF Silent
<1>3. CASE req[w].image = i /\ todo[w] # {v}
  BY <1>1, <1>3 DEF Silent
<1>4. CASE req[w].image = i /\ todo[w] = {v}
  <2>1. \A u \in VariantsOf(db[i]) : publishes[i][u] = IF u \in todo[w] THEN 0 ELSE 1
    BY <1>1, <1>4 DEF PublishInv, Publishing
  <2>2. \A u \in VariantsOf(db[i]) : u \in Variants
    BY DEF VariantsOf
  <2>3. \A u \in VariantsOf(db[i]) : publishes'[i][u] = 1
    BY <1>0, <1>1, <1>4, <2>1, <2>2
  <2>4. QED
    BY <1>1, <2>3 DEF Silent
<1>5. QED
  BY <1>2, <1>3, <1>4

\* No step silences an image but a failure of its sender.
LEMMA SilenceStep ==
  ASSUME PublishedByPublishCall, IInv, PublishInv, Next, NEW i \in Images,
         ~Silent(i), Silent(i)'
  PROVE  SenderFails(i)
<1>0. /\ TypeOK
      /\ pc \in [Workers -> PCs]
      /\ req \in [Workers -> Requests \cup {NoRequest}]
  BY Zenon DEF IInv, TypeOK
<1>1. ASSUME NEW w \in Workers, UNCHANGED <<db, publishes>>,
             \A u \in Workers \ {w} : pc'[u] = pc[u] /\ req'[u] = req[u],
             pc[w] = "publish" => req[w].image # i
      PROVE  FALSE
  BY <1>1, QuietSilence
<1>2. ASSUME NEW w \in Workers, NEW r \in Requests, Receive(w, r) PROVE FALSE
  BY <1>0, <1>1, <1>2 DEF Receive, Goto, events
<1>3. ASSUME NEW w \in Workers,
             \/ AcquireImageLock(w) \/ GetImage(w) \/ SendUploaded(w)
             \/ AcquireImageLockFails(w) \/ GetImageFails(w) \/ SendUploadedFails(w)
      PROVE  FALSE
  BY <1>0, <1>1, <1>3
     DEF AcquireImageLock, GetImage, SendUploaded, AcquireImageLockFails, GetImageFails,
         SendUploadedFails, Goto, events
<1>4. ASSUME NEW w \in Workers, UnlockImage(w) \/ Reply(w) \/ UnlockImageFails(w) PROVE FALSE
  <2>1. pc[w] # "publish" /\ Release(w) /\ UNCHANGED <<db, publishes>>
    BY <1>4 DEF UnlockImage, Reply, UnlockImageFails, events
  <2>2. QED
    BY <1>0, <1>1, <2>1, Released
<1>5. ASSUME NEW w \in Workers, StoreImage(w) PROVE FALSE
  <2>1. /\ pc[w] = "write" /\ Write(w)
        /\ UNCHANGED <<req, publishes>>
        /\ \A u \in Workers \ {w} : pc'[u] = pc[u] /\ req'[u] = req[u]
    BY <1>0, <1>5 DEF StoreImage, Goto, events
  <2>2. req[w].image = i /\ PublishEvents(req[w], seen[w]) # {}
    BY <2>1, StoreSilence
  <2>3. pc'[w] = "publish" /\ req'[w].image = i
    BY <1>0, <1>5, <2>1, <2>2 DEF StoreImage, Goto
  <2>4. QED
    BY <2>3 DEF Silent
<1>6. ASSUME NEW w \in Workers, StoreImageFails(w) PROVE SenderFails(i)
  <2>1. /\ pc[w] = "write"
        /\ Write(w) \/ UNCHANGED db
        /\ UNCHANGED <<req, publishes>>
        /\ faults' = faults + 1
        /\ pc'[w] # "publish"
        /\ \A u \in Workers \ {w} : pc'[u] = pc[u] /\ req'[u] = req[u]
    BY <1>0, <1>6 DEF StoreImageFails, Goto, AfterWrite, events, Fault
  <2>2. Write(w)
    BY <1>1, <2>1
  <2>3. req[w].op = "PublishImage" /\ req[w].image = i
    BY <2>1, <2>2, StoreSilence
  <2>4. QED
    BY <2>1, <2>3 DEF SenderFails
<1>7. ASSUME NEW w \in Workers, NEW v \in Variants, SendPublished(w, v) PROVE FALSE
  BY <1>7, SendSilence
<1>8. ASSUME NEW w \in Workers, SendPublishedFails(w) \/ Crash(w) PROVE SenderFails(i)
  <2>1. /\ UNCHANGED <<db, publishes>>
        /\ faults' = faults + 1
        /\ pc'[w] # "publish"
        /\ \A u \in Workers \ {w} : pc'[u] = pc[u] /\ req'[u] = req[u]
    <3>1. CASE SendPublishedFails(w)
      BY <1>0, <3>1 DEF SendPublishedFails, Goto, events, Fault
    <3>2. CASE Crash(w)
      BY <1>0, <3>2, Released DEF Crash, events, Fault
    <3>3. QED
      BY <1>8, <3>1, <3>2
  <2>2. pc[w] = "publish" /\ req[w].image = i
    BY <1>1, <2>1
  <2>3. req[w].op = "PublishImage"
    BY <2>2 DEF IInv, RequestFits
  <2>4. QED
    BY <2>1, <2>2, <2>3 DEF SenderFails
<1>9. ASSUME NEW j \in Images, ExpireLock(j) PROVE FALSE
  BY <1>9 DEF ExpireLock, worker, events, Silent
<1>10. QED
  BY <1>2, <1>3, <1>4, <1>5, <1>6, <1>7, <1>8, <1>9 DEF Next, Progress, Failure

\* With clients that leave the published state to the publish call, no race
\* and no failure but that of its own publish handler leaves a publication with
\* an event unsent.
THEOREM EventsLostByTheirSender ==
  ASSUME PublishedByPublishCall
  PROVE  Spec => LostOnlyByItsSender
<1> DEFINE Step == \A i \in Images : (~Silent(i) /\ Silent(i)') => SenderFails(i)
<1>1. IInv /\ PublishInv /\ [Next]_vars => [Step]_vars
  BY PublishedByPublishCall, SilenceStep
<1>2. QED
  BY <1>1, Invariance, PublishInvariance, PTL DEF Spec, LostOnlyByItsSender
=============================================================================
