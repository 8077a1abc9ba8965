----------------------- MODULE ImageLockExpiryProofs -----------------------
(***************************************************************************)
(* What the handlers promise although a lock may expire under its holder   *)
(* and a write may arrive late, for any number of images, variants and     *)
(* workers, any requests and any number of faults: the store keeps its     *)
(* types, every upload was announced, and each repeated event is paid for  *)
(* by a fault of its own.  None of it rests on the lock.                   *)
(***************************************************************************)
EXTENDS ImageLockExpiry, ImageEventsProofs, FiniteSets, FiniteSetTheorems

-----------------------------------------------------------------------------
(* The invariant                                                            *)

Upload(r) == r.op = "UpdateImage" /\ r.state = "uploaded"

\* No variant is added to an image that is still created.
Bare(im) == im.state = "created" => VariantsOf(im) = {}

\* Uploaded, or beyond, was announced.
Warranted(i, im) == im.state \in {"created", "deleted"} \/ uploads[i] > 0

\* The write of request r was decided on image im, which an earlier state of
\* the store held; a creation was decided on its absence, which lasts.
Grounded(r, im) ==
    /\ r \in Requests
    /\ RequestError(r) = NoError
    /\ IF r.op = "CreateImage" THEN db[r.image] = NoImage
       ELSE /\ db[r.image] # NoImage
            /\ im \in Image
            /\ ReadError(r, im) = NoError
            /\ Bare(im)
            /\ Warranted(r.image, im)

\* It may be stored.
Pending(r, im) == Grounded(r, im) /\ (Upload(r) => uploads[r.image] > 0)

Ready(w) ==
    /\ pc[w] = "announce" => Grounded(req[w], seen[w])
    /\ pc[w] = "write" => Pending(req[w], seen[w])

\* What the store holds of an image, if anything.
Sound(i) == db[i] # NoImage => Bare(db[i]) /\ Warranted(i, db[i])

\* A creation that is late, and the only one of its image.
LateCreation(m) == m.req.op = "CreateImage"

SoleCreation ==
    /\ FreshInv
    /\ \A w \in Workers, m \in late :
          (Inserting(w) /\ LateCreation(m)) => req[w].image # m.req.image
    /\ \A m, n \in late :
          (LateCreation(m) /\ LateCreation(n) /\ m.req.image = n.req.image) => m = n

LooseInv ==
    /\ LooseTypeOK
    /\ \A w \in Workers : RequestFits(w) /\ Ready(w)
    /\ \A m \in late : Pending(m.req, m.seen)
    /\ \A i \in Images : Sound(i)
    /\ SoleCreation

-----------------------------------------------------------------------------
(* What a write makes of an image that is not the one it was decided on     *)

\* The state that a write leaves follows from the image that was read.
LEMMA WrittenState ==
  ASSUME NEW r \in Requests, RequestError(r) = NoError, r.op # "CreateImage",
         NEW im \in Image, ReadError(r, im) = NoError, NEW stored \in Image
  PROVE  /\ Written(r, im, stored) \in Image
         /\ Written(r, im, stored).state = Written(r, im, im).state
<1>1. CASE r.op = "UpdateImage"
  <2>1. r.state \in ImageStates
    BY <1>1, PutStateValid
  <2>2. \A s \in Image : /\ SetState(s, r.state) \in Image
                         /\ SetState(s, r.state).state = r.state
    BY <2>1, SetStateType
  <2>3. \A s \in Image : Written(r, im, s) = SetState(s, r.state)
    BY <1>1, WrittenValue
  <2>4. QED
    BY <2>2, <2>3
<1>2. CASE r.op \in {"CreateDownload", "UpdateDownload"}
  <2>1. Written(r, im, stored) = Written(r, im, im)
    BY <1>2, WrittenValue
  <2>2. QED
    BY <1>2, <2>1, WrittenType
<1>3. CASE r.op = "PublishImage"
  <2>1. VariantsOf(im) \in SUBSET Variants
    BY DEF VariantsOf
  <2>2. \A s \in Image : /\ PublishDownloads(s, VariantsOf(im)) \in Image
                         /\ PublishDownloads(s, VariantsOf(im)).state = "published"
    BY <2>1, PublishDownloadsType
  <2>3. \A s \in Image : Written(r, im, s) = PublishDownloads(s, VariantsOf(im))
    BY <1>3, WrittenValue
  <2>4. QED
    BY <2>2, <2>3
<1>4. QED
  BY <1>1, <1>2, <1>3, RequestFields

\* No write makes an image created again: a variant is updated only in an
\* image that has one.
LEMMA NeverCreatedAgain ==
  ASSUME NEW r \in Requests, RequestError(r) = NoError, r.op # "CreateImage",
         NEW im \in Image, ReadError(r, im) = NoError, Bare(im)
  PROVE  Written(r, im, im).state # "created"
<1> SUFFICES ASSUME Written(r, im, im).state = "created" PROVE FALSE
  OBVIOUS
<1>1. im.state = "created" /\ VariantsOf(im) = {}
  BY WriteLeavesCreated DEF Bare
<1>2. CASE r.op = "UpdateImage"
  <2>1. r.state \in ImageStates
    BY <1>2, PutStateValid
  <2>2. TransitionAllowed(im.state, r.state)
    BY <1>2, <2>1, ReadErrorValue, UpdateImageChecked
  <2>3. Written(r, im, im).state = r.state
    BY <1>2, <2>1, WrittenValue, SetStateType
  <2>4. QED
    BY <2>2, <2>3 DEF TransitionAllowed
<1>3. CASE r.op = "CreateDownload"
  <2>1. r.variant \in Variants
    BY <1>3, RequestFields
  <2>2. QED
    BY <1>1, <1>3, <2>1, ReadErrorValue, CreateDownloadChecked
<1>4. CASE r.op = "UpdateDownload"
  <2>1. r.variant \in Variants
    BY <1>4, RequestFields
  <2>2. im.downloads[r.variant] \in Download
    BY <1>4, <2>1, ReadErrorValue, UpdateDownloadChecked
  <2>3. r.variant \in VariantsOf(im)
    BY <2>1, <2>2, SentinelAssumption DEF VariantsOf
  <2>4. QED
    BY <1>1, <2>3
<1>5. CASE r.op = "PublishImage"
  BY <1>1, <1>5, ReadErrorValue, PublishImageChecked
<1>6. QED
  BY <1>2, <1>3, <1>4, <1>5, RequestFields

\* A new image has no variants.
LEMMA NewImageBare ==
  /\ NewImage \in Image
  /\ NewImage.state = "created"
  /\ VariantsOf(NewImage) = {}
  BY NewImageType DEF NewImage, VariantsOf

\* A pending write leaves a sound image, created only if it creates it, and
\* past publication if it was decided on such an image.
LEMMA PendingWrite ==
  ASSUME db \in [Images -> Image \cup {NoImage}],
         NEW r, NEW im, Pending(r, im),
         NEW new, new = Written(r, im, db[r.image])
  PROVE  /\ r.image \in Images
         /\ new \in Image /\ new # NoImage
         /\ Bare(new)
         /\ Warranted(r.image, new)
         /\ r.op = "CreateImage" => db[r.image] = NoImage
         /\ r.op # "CreateImage" => /\ db[r.image] # NoImage
                                    /\ new.state # "created"
                                    /\ im.state \in Past => new.state \in Past
         /\ r.op = "PublishImage" => new.state \in Past
<1>1. r \in Requests /\ RequestError(r) = NoError /\ r.image \in Images
  BY RequestFields DEF Pending, Grounded
<1>2. CASE r.op = "CreateImage"
  <2>1. new = NewImage
    BY <1>2, WrittenValue
  <2>2. db[r.image] = NoImage
    BY <1>2 DEF Pending, Grounded
  <2>3. QED
    BY <1>1, <1>2, <2>1, <2>2, NewImageBare, SentinelAssumption DEF Bare, Warranted
<1>3. CASE r.op # "CreateImage"
  <2>1. /\ db[r.image] \in Image /\ db[r.image] # NoImage
        /\ im \in Image
        /\ ReadError(r, im) = NoError
        /\ Bare(im)
        /\ Warranted(r.image, im)
        /\ Upload(r) => uploads[r.image] > 0
    BY <1>1, <1>3 DEF Pending, Grounded
  <2>2. new \in Image /\ new.state = Written(r, im, im).state
    BY <1>1, <1>3, <2>1, WrittenState
  <2>3. new.state # "created"
    BY <1>1, <1>3, <2>1, <2>2, NeverCreatedAgain
  <2>4. Warranted(r.image, new)
    BY <1>1, <1>3, <2>1, <2>2, WriteUploads DEF Warranted, Upload
  <2>5. im.state \in Past => new.state \in Past
    BY <1>1, <1>3, <2>1, <2>2, WriteKeepsPast
  <2>6. r.op = "PublishImage" => new.state \in Past
    BY <1>1, <2>1, <2>2, WritePublishes DEF Past
  <2>7. QED
    BY <1>1, <1>3, <2>1, <2>2, <2>3, <2>4, <2>5, <2>6, SentinelAssumption DEF Bare
<1>4. QED
  BY <1>2, <1>3

-----------------------------------------------------------------------------
(* The invariant is inductive                                               *)

\* What is announced stays announced.
Announces == \A i \in Images : uploads[i] > 0 => uploads'[i] > 0

\* A decision stays grounded while its image stays there, or stays away.
LEMMA GroundedStays ==
  ASSUME NEW r, NEW im, Grounded(r, im), Announces,
         r.op = "CreateImage" => db'[r.image] = NoImage,
         r.op # "CreateImage" => db'[r.image] # NoImage
  PROVE  Grounded(r, im)' /\ (Pending(r, im) => Pending(r, im)')
<1>1. r.image \in Images
  BY RequestFields DEF Grounded
<1>2. Grounded(r, im)'
  BY <1>1 DEF Grounded, Warranted, Announces
<1>3. QED
  BY <1>1, <1>2 DEF Pending, Announces

\* A pending write leaves sound images, removes none and adds none but the
\* one it creates.
LEMMA StoreSound ==
  ASSUME LooseInv, NEW r, NEW im, Pending(r, im), Announces,
         db' = [db EXCEPT ![r.image] = Written(r, im, db[r.image])]
  PROVE  \A i \in Images :
            /\ Sound(i)'
            /\ db[i] # NoImage => db'[i] # NoImage
            /\ (i # r.image \/ r.op # "CreateImage") => (db[i] = NoImage => db'[i] = NoImage)
<1>1. db \in [Images -> Image \cup {NoImage}] /\ \A i \in Images : Sound(i)
  BY Zenon DEF LooseInv, LooseTypeOK, TypeOK
<1> DEFINE new == Written(r, im, db[r.image])
<1>2. /\ r.image \in Images
      /\ new # NoImage
      /\ Bare(new)
      /\ Warranted(r.image, new)
      /\ r.op # "CreateImage" => db[r.image] # NoImage
  BY <1>1, PendingWrite
<1> HIDE DEF new
<1>3. db'[r.image] = new /\ \A i \in Images : i # r.image => db'[i] = db[i]
  BY <1>1, <1>2 DEF new
<1>4. ASSUME NEW i \in Images PROVE Sound(i)'
  <2>1. CASE i = r.image
    BY <1>2, <1>3, <2>1 DEF Sound, Warranted, Announces, Bare
  <2>2. CASE i # r.image
    BY <1>1, <1>3, <2>2 DEF Sound, Warranted, Announces, Bare
  <2>3. QED
    BY <2>1, <2>2
<1>5. QED
  BY <1>2, <1>3, <1>4

WorkerStep(w) ==
    \/ \E r \in Requests : Receive(w, r)
    \/ AcquireImageLock(w)
    \/ Progress(w)
    \/ Failure(w)

\* What a step of a worker does besides: only three actions lead to a write,
\* and only one announces.
LooseSummary(w) ==
    /\ OthersStay(w)
    /\ RequestFits(w)'
    /\ Stores(w)
    /\ uploads' = uploads \/ SendUploaded(w)
    /\ pc'[w] \in {"announce", "write"} =>
          (\E r \in Requests : Receive(w, r)) \/ GetImage(w) \/ SendUploaded(w)

\* Every action of a worker is of that kind, whoever has the lock.
LEMMA WorkerSteps ==
  ASSUME TypeOK, NEW w \in Workers, RequestFits(w), WorkerStep(w)
  PROVE  LooseSummary(w)
<1>0. /\ pc \in [Workers -> PCs]
      /\ req \in [Workers -> Requests \cup {NoRequest}]
      /\ seen \in [Workers -> Image \cup {NoImage}]
      /\ RequestFits(w)
  BY Zenon DEF TypeOK
<1> HIDE DEF TypeOK
<1> USE DEF LooseSummary, OthersStay, Stores, RequestFits, Creating, Goto, Release, events
<1>1. ASSUME NEW r \in Requests, Receive(w, r) PROVE LooseSummary(w)
  BY <1>0, <1>1 DEF Receive
<1>2. ASSUME AcquireImageLock(w) PROVE LooseSummary(w)
  BY <1>0, <1>2 DEF AcquireImageLock
<1>3. ASSUME GetImage(w) PROVE LooseSummary(w)
  BY <1>0, <1>3 DEF GetImage
<1>4. ASSUME SendUploaded(w) PROVE LooseSummary(w)
  BY <1>0, <1>4 DEF SendUploaded
<1>5. ASSUME StoreImage(w) PROVE LooseSummary(w)
  BY <1>0, <1>5 DEF StoreImage, AfterWrite, PublishEvents
<1>6. ASSUME NEW v \in Variants, SendPublished(w, v) PROVE LooseSummary(w)
  BY <1>0, <1>6 DEF SendPublished
<1>7. ASSUME UnlockImage(w) PROVE LooseSummary(w)
  BY <1>0, <1>7 DEF UnlockImage
<1>8. ASSUME Reply(w) PROVE LooseSummary(w)
  BY <1>0, <1>8 DEF Reply
<1>9. ASSUME AcquireImageLockFails(w) PROVE LooseSummary(w)
  BY <1>0, <1>9 DEF AcquireImageLockFails
<1>10. ASSUME GetImageFails(w) PROVE LooseSummary(w)
  BY <1>0, <1>10 DEF GetImageFails
<1>11. ASSUME SendUploadedFails(w) PROVE LooseSummary(w)
  BY <1>0, <1>11 DEF SendUploadedFails
<1>12. ASSUME StoreImageFails(w) PROVE LooseSummary(w)
  BY <1>0, <1>12 DEF StoreImageFails, AfterWrite, PublishEvents
<1>13. ASSUME SendPublishedFails(w) PROVE LooseSummary(w)
  BY <1>0, <1>13 DEF SendPublishedFails
<1>14. ASSUME UnlockImageFails(w) PROVE LooseSummary(w)
  BY <1>0, <1>14 DEF UnlockImageFails
<1>15. ASSUME Crash(w) PROVE LooseSummary(w)
  BY <1>0, <1>15 DEF Crash
<1>16. QED
  BY <1>1, <1>2, <1>3, <1>4, <1>5, <1>6, <1>7, <1>8, <1>9, <1>10, <1>11, <1>12, <1>13,
     <1>14, <1>15 DEF WorkerStep, Progress, Failure

\* Announcements are never taken back.
LEMMA WorkerAnnounces ==
  ASSUME TypeOK, NEW w \in Workers, uploads' = uploads \/ SendUploaded(w)
  PROVE  Announces
<1>1. uploads \in [Images -> Nat]
  BY Counts
<1>2. CASE uploads' = uploads
  BY <1>2 DEF Announces
<1>3. CASE SendUploaded(w)
  <2>1. uploads' = [uploads EXCEPT ![req[w].image] = @ + 1]
    BY <1>3 DEF SendUploaded
  <2>2. QED
    BY <1>1, <2>1 DEF Announces
<1>4. QED
  BY <1>2, <1>3

\* A worker that comes to its write has made its decision.
LEMMA WorkerReady ==
  ASSUME LooseInv, NEW w \in Workers, LooseSummary(w)
  PROVE  Ready(w)'
<1>0. /\ TypeOK
      /\ pc \in [Workers -> PCs]
      /\ req \in [Workers -> Requests \cup {NoRequest}]
      /\ seen \in [Workers -> Image \cup {NoImage}]
      /\ db \in [Images -> Image \cup {NoImage}]
      /\ RequestFits(w) /\ Ready(w)
      /\ \A i \in Images : Sound(i)
  BY Zenon DEF LooseInv, LooseTypeOK, TypeOK
<1>1. ASSUME NEW r \in Requests, Receive(w, r) PROVE Ready(w)'
  <2>1. /\ req'[w] = r
        /\ pc'[w] # "announce"
        /\ pc'[w] = "write" => /\ r.op = "CreateImage" /\ db'[r.image] = NoImage
                               /\ RequestError(r) = NoError
    BY <1>0, <1>1 DEF Receive, Goto, Fresh
  <2>2. QED
    BY <2>1 DEF Ready, Pending, Grounded, Upload
<1>2. ASSUME GetImage(w) PROVE Ready(w)'
  <2> DEFINE r == req[w]
             im == db[r.image]
  <2>1. /\ r \in Requests /\ r.image \in Images /\ r.op # "CreateImage"
        /\ RequestError(r) = NoError
    BY <1>0, <1>2, RequestFields DEF GetImage, RequestFits, Creating
  <2>2. /\ req'[w] = r /\ seen'[w] = im /\ db' = db /\ uploads' = uploads
        /\ pc'[w] \in {"announce", "write"} => ReadError(r, im) = NoError
        /\ pc'[w] = "write" => ~Upload(r)
    BY <1>0, <1>2 DEF GetImage, Goto, events, Upload
  <2>3. ReadError(r, im) = NoError => im # NoImage
    BY <2>1, MissingImage
  <2>4. im # NoImage => im \in Image /\ Bare(im) /\ Warranted(r.image, im)
    BY <1>0, <2>1 DEF Sound
  <2>5. Warranted(r.image, im)' <=> Warranted(r.image, im)
    BY <2>2 DEF Warranted
  <2> HIDE DEF r
  <2>6. pc'[w] \in {"announce", "write"} => Grounded(r, im) /\ Grounded(req[w], seen[w])'
    BY <2>1, <2>2, <2>3, <2>4, <2>5 DEF Grounded, Warranted
  <2>7. QED
    BY <2>2, <2>6 DEF Ready, Pending
<1>3. ASSUME SendUploaded(w) PROVE Ready(w)'
  <2>1. Announces
    BY <1>0, <1>3, WorkerAnnounces
  <2>2. /\ pc[w] = "announce"
        /\ uploads' = [uploads EXCEPT ![req[w].image] = uploads[req[w].image] + 1]
        /\ pc'[w] = "write"
        /\ UNCHANGED <<db, req, seen>>
    BY <1>0, <1>3 DEF SendUploaded, Goto
  <2>3. Grounded(req[w], seen[w]) /\ req[w].op = "UpdateImage" /\ req[w].image \in Images
    BY <1>0, <2>2, RequestFields DEF Ready, RequestFits
  <2>4. Grounded(req[w], seen[w])'
    <3>1. db[req[w].image] # NoImage
      BY <2>3 DEF Grounded
    <3>2. QED
      BY <2>1, <2>2, <2>3, <3>1, GroundedStays
  <2>5. uploads'[req[w].image] > 0
    BY <1>0, <2>2, <2>3, Counts
  <2>6. QED
    BY <2>2, <2>4, <2>5 DEF Ready, Pending
<1>4. CASE pc'[w] \notin {"announce", "write"}
  BY <1>4 DEF Ready
<1>5. QED
  BY <1>1, <1>2, <1>3, <1>4 DEF LooseSummary

\* What the store is changed to meets the decisions of the other workers and
\* of the late writes.
DecisionsStay(w) ==
    /\ \A u \in Workers \ {w} : pc[u] \in {"announce", "write"} =>
          /\ Creating(u) => db'[req[u].image] = NoImage
          /\ ~Creating(u) => db'[req[u].image] # NoImage
    /\ \A m \in late :
          /\ LateCreation(m) => db'[m.req.image] = NoImage
          /\ ~LateCreation(m) => db'[m.req.image] # NoImage

\* A worker writes no image that another one, or a late write, will create.
LEMMA WorkerStores ==
  ASSUME LooseInv, NEW w \in Workers, Stores(w), Announces
  PROVE  DecisionsStay(w) /\ \A i \in Images : Sound(i)'
<1>0. /\ \A u \in Workers : RequestFits(u) /\ Ready(u)
      /\ \A m \in late : Pending(m.req, m.seen)
      /\ \A i \in Images : Sound(i)
      /\ SoleCreation
  BY Zenon DEF LooseInv
<1>1. ASSUME NEW u \in Workers, pc[u] \in {"announce", "write"}
      PROVE  /\ Grounded(req[u], seen[u])
             /\ req[u].image \in Images
             /\ Creating(u) => Inserting(u) /\ db[req[u].image] = NoImage
             /\ ~Creating(u) => db[req[u].image] # NoImage
  <2>1. Grounded(req[u], seen[u])
    BY <1>0, <1>1 DEF Ready, Pending
  <2>2. QED
    BY <1>0, <1>1, <2>1, RequestFields DEF Grounded, RequestFits, Inserting, Creating
<1>2. ASSUME NEW m \in late
      PROVE  /\ m.req.image \in Images
             /\ LateCreation(m) => db[m.req.image] = NoImage
             /\ ~LateCreation(m) => db[m.req.image] # NoImage
  BY <1>0, RequestFields DEF Pending, Grounded, LateCreation
<1>3. CASE db' = db
  BY <1>0, <1>1, <1>2, <1>3 DEF DecisionsStay, Sound, Warranted, Announces, Bare
<1>4. CASE pc[w] = "write" /\ Write(w)
  <2>1. Pending(req[w], seen[w])
    BY <1>0, <1>4 DEF Ready
  <2>2. db' = [db EXCEPT ![req[w].image] = Written(req[w], seen[w], db[req[w].image])]
    BY <1>4 DEF Write
  <2>3. \A i \in Images :
           /\ Sound(i)'
           /\ db[i] # NoImage => db'[i] # NoImage
           /\ (i # req[w].image \/ ~Creating(w)) => (db[i] = NoImage => db'[i] = NoImage)
    BY <2>1, <2>2, StoreSound DEF Creating
  <2>4. \A u \in Workers \ {w} :
           pc[u] \in {"announce", "write"} /\ Creating(u) /\ Creating(w)
             => req[u].image # req[w].image
    BY <1>0, <1>1, <1>4 DEF SoleCreation, FreshInv, Inserting
  <2>5. \A m \in late : LateCreation(m) /\ Creating(w) => m.req.image # req[w].image
    BY <1>0, <1>4 DEF SoleCreation, Inserting
  <2>6. QED
    BY <1>1, <1>2, <2>3, <2>4, <2>5 DEF DecisionsStay
<1>5. QED
  BY <1>3, <1>4 DEF Stores

\* A worker that comes to create an image is the only one to create it.
LEMMA WorkerCreates ==
  ASSUME LooseInv, NEW w \in Workers, LooseSummary(w), NewIDsAreNew, late' = late
  PROVE  SoleCreation'
<1>0. /\ TypeOK
      /\ \A u \in Workers : RequestFits(u)
      /\ SoleCreation
      /\ OthersStay(w)
  BY Zenon DEF LooseInv, LooseTypeOK, LooseSummary
<1>1. \A u \in Workers \ {w} : (Inserting(u)' <=> Inserting(u)) /\ req'[u] = req[u]
  BY <1>0 DEF OthersStay, Inserting, Creating
<1>2. ASSUME Inserting(w)'
      PROVE  /\ \A u \in Workers \ {w} : Inserting(u) => req[u].image # req'[w].image
             /\ \A m \in late : LateCreation(m) => req'[w].image # m.req.image
  <2>1. CASE \E r \in Requests : Receive(w, r)
    <3>1. PICK r \in Requests : Receive(w, r)
      BY <2>1
    <3>2. req \in [Workers -> Requests \cup {NoRequest}] /\ r # NoRequest
      BY <1>0, RequestFields, Zenon DEF TypeOK
    <3>3. pc[w] = "idle" /\ req'[w] = r /\ r.op = "CreateImage" /\ Fresh(r.image)
      BY <1>2, <3>1, <3>2 DEF Receive, Inserting, Creating
    <3>4. \A u \in Workers : Inserting(u) => req[u] # NoRequest
      BY <1>0, RequestFields DEF RequestFits, Inserting
    <3>5. \A m \in late : req'[w].image # m.req.image
      BY <3>2, <3>3 DEF NewIDsAreNew
    <3>6. QED
      BY <3>3, <3>4, <3>5 DEF Fresh
  <2>2. CASE GetImage(w) \/ SendUploaded(w)
    <3>1. ~Creating(w) /\ req' = req
      BY <1>0, <2>2 DEF GetImage, SendUploaded, RequestFits
    <3>2. QED
      BY <1>2, <3>1 DEF Inserting, Creating
  <2>3. QED
    BY <1>2, <2>1, <2>2 DEF LooseSummary, Inserting
<1>3. FreshInv'
  BY <1>0, <1>1, <1>2 DEF SoleCreation, FreshInv
<1>4. (\A u \in Workers, m \in late :
         (Inserting(u) /\ LateCreation(m)) => req[u].image # m.req.image)'
  BY <1>0, <1>1, <1>2 DEF SoleCreation, LateCreation
<1>5. QED
  BY <1>0, <1>3, <1>4 DEF SoleCreation, LateCreation

\* A pending write would store an image.
LEMMA LooseStorable ==
  ASSUME LooseInv
  PROVE  \A w \in Workers : RequestFits(w) /\ Storable(w)
<1> SUFFICES ASSUME NEW w \in Workers, pc[w] = "write"
             PROVE  Written(req[w], seen[w], db[req[w].image]) \in Image
  BY DEF LooseInv, Storable
<1>1. Pending(req[w], seen[w]) /\ db \in [Images -> Image \cup {NoImage}]
  BY DEF LooseInv, LooseTypeOK, TypeOK, Ready
<1>2. QED
  BY <1>1, PendingWrite

\* The decisions of the other workers stay grounded.
LEMMA OthersReady ==
  ASSUME LooseInv, NEW w \in Workers, OthersStay(w), Stores(w), Announces
  PROVE  /\ \A u \in Workers \ {w} : RequestFits(u)' /\ Ready(u)'
         /\ \A m \in late : Pending(m.req, m.seen)'
         /\ \A i \in Images : Sound(i)'
<1>1. DecisionsStay(w) /\ \A i \in Images : Sound(i)'
  BY WorkerStores
<1>2. ASSUME NEW u \in Workers \ {w} PROVE RequestFits(u)' /\ Ready(u)'
  <2>1. RequestFits(u) /\ Ready(u)
    BY DEF LooseInv
  <2>2. pc'[u] = pc[u] /\ req'[u] = req[u] /\ seen'[u] = seen[u]
    BY DEF OthersStay
  <2>3. RequestFits(u)'
    BY <2>1, <2>2 DEF RequestFits, Creating
  <2>4. ASSUME pc[u] \in {"announce", "write"}
        PROVE  /\ Grounded(req[u], seen[u])'
               /\ pc[u] = "write" => Pending(req[u], seen[u])'
    <3>1. Grounded(req[u], seen[u]) /\ (pc[u] = "write" => Pending(req[u], seen[u]))
      BY <2>1, <2>4 DEF Ready, Pending
    <3>2. /\ req[u].op = "CreateImage" => db'[req[u].image] = NoImage
          /\ req[u].op # "CreateImage" => db'[req[u].image] # NoImage
      BY <1>1, <2>4 DEF DecisionsStay, Creating
    <3>3. \A r, im : r = req[u] /\ im = seen[u] =>
             /\ Grounded(r, im)'
             /\ pc[u] = "write" => Pending(r, im)'
      BY <3>1, <3>2, GroundedStays
    <3>4. QED
      BY <2>2, <3>3 DEF Grounded, Pending, Warranted
  <2>5. QED
    BY <2>2, <2>3, <2>4 DEF Ready
<1>3. ASSUME NEW m \in late PROVE Pending(m.req, m.seen)'
  <2>1. Pending(m.req, m.seen) /\ Grounded(m.req, m.seen)
    BY DEF LooseInv, Pending
  <2>2. QED
    BY <1>1, <2>1, GroundedStays DEF DecisionsStay, LateCreation
<1>4. QED
  BY <1>1, <1>2, <1>3

\* The steps of a worker keep the invariant.
LEMMA LooseWorkerStep ==
  ASSUME LooseInv, NEW w \in Workers, WorkerStep(w), TypeOK', NewIDsAreNew, late' = late
  PROVE  LooseInv'
<1>1. TypeOK /\ RequestFits(w)
  BY DEF LooseInv, LooseTypeOK
<1>2. LooseSummary(w)
  BY <1>1, WorkerSteps
<1>3. OthersStay(w) /\ Stores(w) /\ RequestFits(w)' /\ Announces
  BY <1>1, <1>2, WorkerAnnounces DEF LooseSummary
<1>4. Ready(w)' /\ SoleCreation'
  BY <1>2, WorkerReady, WorkerCreates
<1>5. LooseTypeOK'
  BY DEF LooseInv, LooseTypeOK
<1>6. QED
  BY <1>3, <1>4, <1>5, OthersReady DEF LooseInv

\* A handler that gives up on its write leaves it to be decided as it was.
LEMMA TimeoutStep ==
  ASSUME LooseInv, NEW w \in Workers, StoreImageTimesOut(w)
  PROVE  LooseInv'
<1> DEFINE m == [req |-> req[w], seen |-> seen[w], fault |-> faults + 1]
           rest == AfterWrite(req[w])
<1>0. /\ TypeOK /\ late \subseteq LateWrite
      /\ pc \in [Workers -> PCs]
      /\ resp \in [Workers -> Errors \cup {NoError, ""}]
      /\ req \in [Workers -> Requests \cup {NoRequest}]
      /\ seen \in [Workers -> Image \cup {NoImage}]
      /\ faults \in 0..MaxFaults
      /\ RequestFits(w) /\ Ready(w)
      /\ SoleCreation
  BY Zenon DEF LooseInv, LooseTypeOK, TypeOK
<1>1. /\ pc[w] = "write"
      /\ Fault
      /\ late' = late \cup {m}
      /\ pc' = [pc EXCEPT ![w] = rest]
      /\ resp' = [resp EXCEPT ![w] = "ErrMongo"]
      /\ UNCHANGED <<db, lock, req, seen, todo, uploads, publishes>>
  BY DEF StoreImageTimesOut, Goto, Answer, Fault, events
<1>2. rest \in {"reply", "unlock"} /\ (rest = "unlock" => ~Creating(w))
  BY DEF AfterWrite, Creating
<1>3. /\ m.req = req[w] /\ m.seen = seen[w]
      /\ Pending(req[w], seen[w])
      /\ req[w] \in Requests
      /\ LateCreation(m) <=> Inserting(w)
  BY <1>0, <1>1 DEF Ready, Pending, Grounded, LateCreation, Inserting, Creating
<1>4. m \in LateWrite
  <2>1. faults + 1 \in 1..MaxFaults
    <3>1. faults \in 0..MaxFaults /\ faults < MaxFaults
      BY <1>0, <1>1, Zenon DEF Fault
    <3>2. QED
      BY <3>1, FaultAssumption
  <2>2. QED
    BY <1>0, <1>3, <2>1 DEF LateWrite
<1> HIDE DEF m, rest
<1>5. faults' \in 0..MaxFaults
  BY <1>0, <1>1, FaultType
<1>6. pc' \in [Workers -> PCs] /\ resp' \in [Workers -> Errors \cup {NoError, ""}]
  BY <1>0, <1>1, <1>2 DEF PCs, Errors
<1>7. LooseTypeOK'
  <2>1. TypeOK'
    BY <1>0, <1>1, <1>5, <1>6 DEF TypeOK
  <2>2. QED
    BY <1>0, <1>1, <1>4, <2>1 DEF LooseTypeOK
<1>8. OthersStay(w) /\ Stores(w) /\ Announces
  BY <1>0, <1>1 DEF OthersStay, Stores, Announces
<1>9. /\ \A u \in Workers \ {w} : RequestFits(u)' /\ Ready(u)'
      /\ \A n \in late : Pending(n.req, n.seen)'
      /\ \A i \in Images : Sound(i)'
  BY <1>8, OthersReady
<1>10. RequestFits(w)' /\ Ready(w)'
  BY <1>0, <1>1, <1>2 DEF RequestFits, Ready, Creating
<1>11. ASSUME NEW n, n = m PROVE Pending(n.req, n.seen)'
  BY <1>1, <1>3, <1>11 DEF Pending, Grounded, Warranted
<1>12. SoleCreation'
  <2>1. ~Inserting(w)'
    BY <1>0, <1>1, <1>2 DEF Inserting
  <2>2. \A u \in Workers \ {w} : (Inserting(u)' <=> Inserting(u)) /\ req'[u] = req[u]
    BY <1>8 DEF OthersStay, Inserting, Creating
  <2>3. FreshInv'
    BY <1>0, <2>1, <2>2 DEF SoleCreation, FreshInv
  <2>4. ASSUME NEW u \in Workers, NEW n \in late', Inserting(u)', LateCreation(n)
        PROVE  req'[u].image # n.req.image
    <3>1. u # w /\ Inserting(u) /\ req'[u] = req[u]
      BY <2>1, <2>2, <2>4
    <3>2. n \in late \/ n = m
      BY <1>1
    <3>3. CASE n \in late
      BY <1>0, <2>4, <3>1, <3>3 DEF SoleCreation
    <3>4. CASE n = m
      BY <1>0, <1>3, <2>4, <3>1, <3>4 DEF SoleCreation, FreshInv
    <3>5. QED
      BY <3>2, <3>3, <3>4
  <2>5. ASSUME NEW n \in late', NEW o \in late', LateCreation(n), LateCreation(o),
               n.req.image = o.req.image
        PROVE  n = o
    <3>1. (n \in late \/ n = m) /\ (o \in late \/ o = m)
      BY <1>1
    <3>2. QED
      BY <1>0, <1>3, <2>5, <3>1 DEF SoleCreation
  <2>6. QED
    BY <2>3, <2>4, <2>5 DEF SoleCreation, LateCreation
<1>13. QED
  BY <1>1, <1>7, <1>9, <1>10, <1>11, <1>12 DEF LooseInv

\* A late write is stored as a pending one.
LEMMA LateStep ==
  ASSUME LooseInv, NEW m \in late, DeliverLate(m)
  PROVE  LooseInv'
<1> DEFINE r == m.req
<1>0. /\ TypeOK /\ late \subseteq LateWrite
      /\ db \in [Images -> Image \cup {NoImage}]
      /\ \A u \in Workers : RequestFits(u) /\ Ready(u)
      /\ \A n \in late : Pending(n.req, n.seen)
      /\ SoleCreation
  BY Zenon DEF LooseInv, LooseTypeOK, TypeOK
<1>1. /\ db' = [db EXCEPT ![r.image] = Written(r, m.seen, db[r.image])]
      /\ late' = late \ {m}
      /\ UNCHANGED <<lock, pc, req, seen, todo, resp, uploads, publishes, faults>>
  BY DEF DeliverLate, worker, events
<1>2. Pending(r, m.seen) /\ Announces
  BY <1>0, <1>1 DEF Announces
<1>3. r.image \in Images /\ Written(r, m.seen, db[r.image]) \in Image
  BY <1>0, <1>2, PendingWrite
<1>4. LooseTypeOK'
  <2>1. db' \in [Images -> Image \cup {NoImage}]
    BY <1>0, <1>1, <1>3
  <2>2. TypeOK'
    BY <1>0, <1>1, <2>1 DEF TypeOK
  <2>3. QED
    BY <1>0, <1>1, <2>2 DEF LooseTypeOK
<1>5. \A i \in Images :
         /\ Sound(i)'
         /\ db[i] # NoImage => db'[i] # NoImage
         /\ (i # r.image \/ ~LateCreation(m)) => (db[i] = NoImage => db'[i] = NoImage)
  BY <1>1, <1>2, StoreSound DEF LateCreation
<1>6. ASSUME NEW s, NEW im, Grounded(s, im),
             s.op = "CreateImage" /\ LateCreation(m) => s.image # r.image
      PROVE  Grounded(s, im)' /\ (Pending(s, im) => Pending(s, im)')
  <2>1. s.image \in Images
    BY <1>6, RequestFields DEF Grounded
  <2>2. IF s.op = "CreateImage" THEN db'[s.image] = NoImage ELSE db'[s.image] # NoImage
    BY <1>5, <1>6, <2>1 DEF Grounded
  <2>3. QED
    BY <1>2, <1>6, <2>2, GroundedStays
<1>7. ASSUME NEW u \in Workers PROVE RequestFits(u)' /\ Ready(u)'
  <2>1. RequestFits(u)'
    BY <1>0, <1>1 DEF RequestFits, Creating
  <2>2. pc[u] \in {"announce", "write"} /\ req[u].op = "CreateImage" => Inserting(u)
    BY <1>0 DEF RequestFits, Inserting, Creating
  <2>3. Ready(u)'
    <3>1. ASSUME pc[u] \in {"announce", "write"}
          PROVE  /\ Grounded(req[u], seen[u])'
                 /\ pc[u] = "write" => Pending(req[u], seen[u])'
      <4>1. Grounded(req[u], seen[u]) /\ (pc[u] = "write" => Pending(req[u], seen[u]))
        BY <1>0, <3>1 DEF Ready, Pending
      <4>2. req[u].op = "CreateImage" /\ LateCreation(m) => req[u].image # r.image
        BY <1>0, <2>2, <3>1 DEF SoleCreation
      <4>3. \A s, im : s = req[u] /\ im = seen[u] =>
               /\ Grounded(s, im)'
               /\ pc[u] = "write" => Pending(s, im)'
        BY <1>6, <4>1, <4>2
      <4>4. QED
        BY <1>1, <4>3 DEF Grounded, Pending, Warranted
    <3>2. QED
      BY <1>1, <3>1 DEF Ready
  <2>4. QED
    BY <2>1, <2>3
<1>8. ASSUME NEW n \in late' PROVE Pending(n.req, n.seen)'
  <2>1. n \in late /\ n # m /\ Pending(n.req, n.seen) /\ Grounded(n.req, n.seen)
    BY <1>0, <1>1 DEF Pending
  <2>2. n.req.op = "CreateImage" /\ LateCreation(m) => n.req.image # r.image
    BY <1>0, <2>1 DEF SoleCreation, LateCreation
  <2>3. QED
    BY <1>6, <2>1, <2>2
<1>9. SoleCreation'
  BY <1>0, <1>1 DEF SoleCreation, FreshInv, Inserting, Creating, LateCreation
<1>10. QED
  BY <1>4, <1>5, <1>7, <1>8, <1>9 DEF LooseInv

\* The invariant does not speak of locks.
LEMMA LockOnlyStep ==
  ASSUME LooseInv, TypeOK',
         UNCHANGED <<db, pc, req, seen, todo, resp, uploads, publishes, late>>
  PROVE  LooseInv'
<1>1. /\ LooseTypeOK'
      /\ (\A w \in Workers : RequestFits(w) /\ Ready(w))'
  BY DEF LooseInv, LooseTypeOK, RequestFits, Ready, Creating, Pending, Grounded, Warranted
<1>2. (\A m \in late : Pending(m.req, m.seen))'
  BY DEF LooseInv, Pending, Grounded, Warranted
<1>3. (\A i \in Images : Sound(i))' /\ SoleCreation'
  BY DEF LooseInv, Sound, Bare, Warranted, SoleCreation, FreshInv, Inserting, Creating
<1>4. QED
  BY <1>1, <1>2, <1>3 DEF LooseInv

\* Every step keeps the invariant.
LEMMA LooseStep ==
  ASSUME LooseInv, [LooseNext]_looseVars
  PROVE  LooseInv'
<1>0. TypeOK /\ \A w \in Workers : RequestFits(w) /\ Storable(w)
  BY LooseStorable DEF LooseInv, LooseTypeOK
<1>1. CASE Next /\ NewIDsAreNew /\ UNCHANGED late
  <2>1. TypeOK'
    BY <1>0, <1>1, TypeStep
  <2>2. ASSUME NEW w \in Workers, WorkerStep(w) PROVE LooseInv'
    BY <1>1, <2>1, <2>2, LooseWorkerStep
  <2>3. ASSUME NEW i \in Images, ExpireLock(i) PROVE LooseInv'
    <3>1. UNCHANGED <<db, pc, req, seen, todo, resp, uploads, publishes>>
      BY <2>3 DEF ExpireLock, worker, events
    <3>2. QED
      BY <1>1, <2>1, <3>1, LockOnlyStep
  <2>4. QED
    BY <1>1, <2>2, <2>3 DEF Next, WorkerStep
<1>2. ASSUME NEW i \in Images, ExpireHeldLock(i) PROVE LooseInv'
  <2>1. UNCHANGED <<db, pc, req, seen, todo, resp, uploads, publishes, late>>
    BY <1>2 DEF ExpireHeldLock, worker, events
  <2>2. /\ Fault
        /\ lock' = [lock EXCEPT ![i] = Free]
    BY <1>2 DEF ExpireHeldLock
  <2>3. /\ lock \in [Images -> Workers \cup {Free, Orphan}]
        /\ faults \in 0..MaxFaults
    BY <1>0, Zenon DEF TypeOK
  <2>4. lock' \in [Images -> Workers \cup {Free, Orphan}] /\ faults' \in 0..MaxFaults
    BY <2>2, <2>3, FaultType
  <2>5. TypeOK'
    BY <1>0, <2>1, <2>4 DEF TypeOK
  <2>6. QED
    BY <2>1, <2>5, LockOnlyStep
<1>3. ASSUME UNCHANGED looseVars PROVE LooseInv'
  <2>1. UNCHANGED <<db, pc, req, seen, todo, resp, uploads, publishes, late, lock, faults>>
    BY <1>3 DEF looseVars, vars
  <2>2. TypeOK'
    BY <1>0, <2>1 DEF TypeOK
  <2>3. QED
    BY <2>1, <2>2, LockOnlyStep
<1>4. QED
  BY <1>1, <1>2, <1>3, TimeoutStep, LateStep DEF LooseNext

\* At the start there is no image, no request and no late write.
LEMMA LooseStart ==
  ASSUME LooseInit
  PROVE  LooseInv
<1>1. /\ TypeOK /\ late = {}
      /\ \A w \in Workers : pc[w] = "idle"
      /\ \A i \in Images : db[i] = NoImage
  <2>1. TypeOK
    BY InitInv DEF LooseInit, IInv
  <2>2. QED
    BY <2>1 DEF LooseInit, Init
<1>2. QED
  BY <1>1 DEF LooseInv, LooseTypeOK, RequestFits, Ready, Sound, SoleCreation, FreshInv,
              Inserting

\* The invariant holds whatever becomes of the locks and the writes.
THEOREM LooseInvariance == LooseSpec => []LooseInv
  BY LooseStart, LooseStep, PTL DEF LooseSpec

\* The store keeps its types, whoever writes to it in the end.
THEOREM LooseTypes == LooseSpec => []LooseTypeOK
<1>1. LooseInv => LooseTypeOK
  BY DEF LooseInv
<1>2. QED
  BY <1>1, LooseInvariance, PTL

\* An event was queued for every image that is past created, even if the
\* handler that queued it has lost its lock or its write comes late.
THEOREM LooseUploadsAnnounced == LooseSpec => []UploadedIsAnnounced
<1>1. LooseInv => UploadedIsAnnounced
  BY DEF LooseInv, Sound, Warranted, UploadedIsAnnounced
<1>2. QED
  BY <1>1, LooseInvariance, PTL

-----------------------------------------------------------------------------
(* Accounts                                                                 *)

\* n events were sent, those in S may each send one more, c is 1 if another
\* may yet come to send one, and f faults pay for all but one of them.
Balanced(n, S, c, f) == IsFiniteSet(S) /\ n + Cardinality(S) + c <= 1 + f

\* A subset is finite, and smaller for every element that it lacks.
LEMMA Fewer ==
  ASSUME NEW S, IsFiniteSet(S), NEW T, T \subseteq S
  PROVE  /\ IsFiniteSet(T)
         /\ Cardinality(S) \in Nat /\ Cardinality(T) \in Nat
         /\ Cardinality(T) <= Cardinality(S)
         /\ \A x \in S \ T : Cardinality(T) + 1 <= Cardinality(S)
<1>1. /\ IsFiniteSet(T)
      /\ Cardinality(S) \in Nat /\ Cardinality(T) \in Nat
      /\ Cardinality(T) <= Cardinality(S)
  BY FS_Subset, FS_CardinalityType
<1>2. ASSUME NEW x \in S \ T PROVE Cardinality(T) + 1 <= Cardinality(S)
  <2>1. T \subseteq S \ {x}
    BY <1>2
  <2>2. IsFiniteSet(S \ {x}) /\ Cardinality(S \ {x}) = Cardinality(S) - 1
    BY <1>2, FS_RemoveElement
  <2>3. Cardinality(T) <= Cardinality(S \ {x})
    BY <2>1, <2>2, FS_Subset
  <2>4. QED
    BY <1>1, <2>2, <2>3
<1>3. QED
  BY <1>1, <1>2

\* One element more is at most one more.
LEMMA OneMore ==
  ASSUME NEW S, IsFiniteSet(S), NEW x, NEW T, T \subseteq S \cup {x}
  PROVE  /\ IsFiniteSet(T)
         /\ Cardinality(S) \in Nat /\ Cardinality(T) \in Nat
         /\ Cardinality(T) <= Cardinality(S) + 1
<1>1. /\ IsFiniteSet(S \cup {x})
      /\ Cardinality(S \cup {x}) = Cardinality(S) \/ Cardinality(S \cup {x}) = Cardinality(S) + 1
  BY FS_AddElement
<1>2. IsFiniteSet(T) /\ Cardinality(T) <= Cardinality(S \cup {x})
  BY <1>1, FS_Subset
<1>3. Cardinality(S) \in Nat /\ Cardinality(T) \in Nat
  BY <1>2, FS_CardinalityType
<1>4. QED
  BY <1>1, <1>2, <1>3

\* Nothing is sent, and nobody comes to send.
LEMMA BalanceKept ==
  ASSUME NEW n \in Nat, NEW f \in Nat, NEW c \in {0, 1}, NEW d \in {0, 1}, NEW S, NEW T,
         Balanced(n, S, c, f), T \subseteq S, c = 0 => d = 0
  PROVE  Balanced(n, T, d, f)
  BY Fewer DEF Balanced

\* A fault lets one more come, or reopens the chance.
LEMMA BalanceByFault ==
  ASSUME NEW n \in Nat, NEW f \in Nat, NEW c \in {0, 1}, NEW d \in {0, 1}, NEW S, NEW T,
         Balanced(n, S, c, f), NEW x,
         T \subseteq S \/ (T \subseteq S \cup {x} /\ (c = 0 => d = 0))
  PROVE  Balanced(n, T, d, f + 1)
<1>1. CASE T \subseteq S
  BY <1>1, Fewer DEF Balanced
<1>2. CASE T \subseteq S \cup {x} /\ (c = 0 => d = 0)
  BY <1>2, OneMore DEF Balanced
<1>3. QED
  BY <1>1, <1>2

\* What is sent was accounted for, as one of S or as the chance.
LEMMA BalanceSent ==
  ASSUME NEW n \in Nat, NEW f \in Nat, NEW c \in {0, 1}, NEW d \in {0, 1}, NEW S, NEW T,
         Balanced(n, S, c, f), T \subseteq S,
         \/ (\E x \in S : x \notin T) /\ (c = 0 => d = 0)
         \/ c = 1 /\ d = 0
  PROVE  Balanced(n + 1, T, d, f)
<1>1. CASE (\E x \in S : x \notin T) /\ (c = 0 => d = 0)
  BY <1>1, Fewer DEF Balanced
<1>2. CASE c = 1 /\ d = 0
  BY <1>2, Fewer DEF Balanced
<1>3. QED
  BY <1>1, <1>2

\* One of S gives the chance back, or takes it.
LEMMA BalanceMoved ==
  ASSUME NEW n \in Nat, NEW f \in Nat, NEW c \in {0, 1}, NEW d \in {0, 1}, NEW S, NEW T,
         Balanced(n, S, c, f), NEW x,
         \/ T \subseteq S /\ x \in S \ T
         \/ T \subseteq S \cup {x} /\ c = 1 /\ d = 0
  PROVE  Balanced(n, T, d, f)
<1>1. CASE T \subseteq S /\ x \in S \ T
  <2>1. IsFiniteSet(T) /\ Cardinality(S) \in Nat /\ Cardinality(T) \in Nat
        /\ Cardinality(T) + 1 <= Cardinality(S)
    BY <1>1, Fewer DEF Balanced
  <2>2. QED
    BY <2>1 DEF Balanced
<1>2. CASE T \subseteq S \cup {x} /\ c = 1 /\ d = 0
  BY <1>2, OneMore DEF Balanced
<1>3. QED
  BY <1>1, <1>2

-----------------------------------------------------------------------------
(* Repeated announcements                                                   *)

\* Handlers that will announce, or may, without the lock.
Strays(i) ==
    {w \in Workers : pc[w] \in {"read", "announce"} /\ req[w].image = i /\ lock[i] # w}

\* The image may be announced by the holder of its lock: it is about to, or
\* the image is not uploaded yet and the holder is not storing it so.
Chance(i) ==
    \/ \E w \in Workers : pc[w] = "announce" /\ req[w].image = i /\ lock[i] = w
    \/ /\ db[i] = NoImage \/ db[i].state = "created"
       /\ \A w \in Workers : StoresUpload(w) /\ req[w].image = i => lock[i] # w

ChanceCount(i) == IF Chance(i) THEN 1 ELSE 0

Announcements(i) == Balanced(uploads[i], Strays(i), ChanceCount(i), faults)

AnnouncementsInv == \A i \in Images : Announcements(i)

\* A step of a worker does not touch the locks that others have, and only
\* with the lock does it come to read.
LockSummary(w) ==
    /\ \A i \in Images, u \in Workers \ {w} : lock'[i] = u <=> lock[i] = u
    /\ pc'[w] \in {"read", "announce"} => AcquireImageLock(w) \/ GetImage(w)
    /\ faults' = faults + 1 \/ faults' = faults
    /\ faults' = faults => UNCHANGED db \/ StoreImage(w)
    /\ faults' = faults /\ pc[w] = "write" => StoreImage(w)

\* Every action of a worker is of that kind.
LEMMA WorkerLocks ==
  ASSUME TypeOK, NEW w \in Workers, RequestFits(w), WorkerStep(w)
  PROVE  LockSummary(w)
<1>0. /\ pc \in [Workers -> PCs]
      /\ req \in [Workers -> Requests \cup {NoRequest}]
      /\ lock \in [Images -> Workers \cup {Free, Orphan}]
      /\ faults \in Nat
      /\ RequestFits(w)
      /\ Free \notin Workers /\ Orphan \notin Workers
      /\ pc[w] # "idle" => req[w].image \in Images
  BY Counts, LockAssumption, RequestFields, Zenon DEF TypeOK, RequestFits
<1> HIDE DEF TypeOK
<1> USE DEF LockSummary, Goto, Release, Fault
<1>1. ASSUME NEW r \in Requests, Receive(w, r) PROVE LockSummary(w)
  BY <1>0, <1>1 DEF Receive
<1>2. ASSUME AcquireImageLock(w) PROVE LockSummary(w)
  BY <1>0, <1>2 DEF AcquireImageLock
<1>3. ASSUME GetImage(w) PROVE LockSummary(w)
  BY <1>0, <1>3 DEF GetImage
<1>4. ASSUME SendUploaded(w) PROVE LockSummary(w)
  BY <1>0, <1>4 DEF SendUploaded
<1>5. ASSUME StoreImage(w) PROVE LockSummary(w)
  BY <1>0, <1>5 DEF StoreImage, AfterWrite
<1>6. ASSUME NEW v \in Variants, SendPublished(w, v) PROVE LockSummary(w)
  BY <1>0, <1>6 DEF SendPublished
<1>7. ASSUME UnlockImage(w) \/ UnlockImageFails(w) PROVE LockSummary(w)
  <2>1. /\ pc' = [pc EXCEPT ![w] = "idle"]
        /\ db' = db
        /\ pc[w] = "unlock"
        /\ faults' = faults \/ faults' = faults + 1
    BY <1>7 DEF UnlockImage, UnlockImageFails
  <2>2. PICK left \in {Free, Orphan} : LeaveLock(w, left)
    BY <1>7 DEF UnlockImage, UnlockImageFails
  <2>3. \A i \in Images, u \in Workers \ {w} : lock'[i] = u <=> lock[i] = u
    BY <1>0, <2>2 DEF LeaveLock
  <2>4. QED
    BY <1>0, <2>1, <2>3
<1>8. ASSUME Reply(w) PROVE LockSummary(w)
  BY <1>0, <1>8 DEF Reply
<1>9. ASSUME AcquireImageLockFails(w) PROVE LockSummary(w)
  BY <1>0, <1>9 DEF AcquireImageLockFails
<1>10. ASSUME GetImageFails(w) PROVE LockSummary(w)
  BY <1>0, <1>10 DEF GetImageFails
<1>11. ASSUME SendUploadedFails(w) PROVE LockSummary(w)
  BY <1>0, <1>11 DEF SendUploadedFails
<1>12. ASSUME StoreImageFails(w) PROVE LockSummary(w)
  BY <1>0, <1>12 DEF StoreImageFails, AfterWrite
<1>13. ASSUME SendPublishedFails(w) PROVE LockSummary(w)
  BY <1>0, <1>13 DEF SendPublishedFails
<1>14. ASSUME Crash(w) PROVE LockSummary(w)
  <2>1. /\ pc' = [pc EXCEPT ![w] = "idle"]
        /\ lock' = [i \in Images |-> IF lock[i] = w THEN Orphan ELSE lock[i]]
        /\ faults' = faults + 1
    BY <1>14 DEF Crash
  <2>2. \A i \in Images, u \in Workers \ {w} : lock'[i] = u <=> lock[i] = u
    BY <1>0, <2>1
  <2>3. QED
    BY <1>0, <2>1, <2>2
<1>15. QED
  BY <1>1, <1>2, <1>3, <1>4, <1>5, <1>6, <1>7, <1>8, <1>9, <1>10, <1>11, <1>12, <1>13,
     <1>14 DEF WorkerStep, Progress, Failure

\* No step of a worker adds to those without the lock: who comes to read has
\* just obtained it.
LEMMA WorkerStrays ==
  ASSUME TypeOK, NEW w \in Workers, OthersStay(w), LockSummary(w), NEW i \in Images
  PROVE  Strays(i)' \subseteq Strays(i)
<1> SUFFICES ASSUME NEW u \in Workers, pc'[u] \in {"read", "announce"},
                    req'[u].image = i, lock'[i] # u
             PROVE  pc[u] \in {"read", "announce"} /\ req[u].image = i /\ lock[i] # u
  BY DEF Strays
<1>1. CASE u # w
  BY <1>1 DEF OthersStay, LockSummary
<1>2. CASE u = w
  <2>1. lock \in [Images -> Workers \cup {Free, Orphan}]
    BY Zenon DEF TypeOK
  <2>2. CASE AcquireImageLock(w)
    BY <1>2, <2>1, <2>2 DEF AcquireImageLock
  <2>3. CASE GetImage(w)
    BY <1>2, <2>3 DEF GetImage
  <2>4. QED
    BY <1>2, <2>2, <2>3 DEF LockSummary
<1>3. QED
  BY <1>1, <1>2

\* A write that creates an image meets none, and no other one leaves an image
\* created.
LEMMA StoreLeavesCreated ==
  ASSUME LooseInv, NEW r, NEW im, Pending(r, im),
         db' = [db EXCEPT ![r.image] = Written(r, im, db[r.image])],
         NEW i \in Images, db'[i] = NoImage \/ db'[i].state = "created"
  PROVE  /\ db[i] = NoImage \/ db[i].state = "created"
         /\ i = r.image => r.op = "CreateImage"
<1>1. db \in [Images -> Image \cup {NoImage}]
  BY Zenon DEF LooseInv, LooseTypeOK, TypeOK
<1>2. CASE i # r.image
  BY <1>1, <1>2
<1>3. CASE i = r.image
  <2>1. db'[i] = Written(r, im, db[r.image])
    BY <1>1, <1>3
  <2>2. QED
    BY <1>1, <1>3, <2>1, PendingWrite
<1>4. QED
  BY <1>2, <1>3

\* Without a fault a worker leaves no chance of an announcement that was not
\* there before.
LEMMA WorkerChance ==
  ASSUME LooseInv, NEW w \in Workers, LooseSummary(w), LockSummary(w),
         faults' = faults, NEW i \in Images, Chance(i)', ~SendUploaded(w)
  PROVE  Chance(i)
<1>0. /\ TypeOK
      /\ RequestFits(w) /\ Ready(w)
      /\ pc \in [Workers -> PCs]
      /\ db \in [Images -> Image \cup {NoImage}]
      /\ OthersStay(w)
  BY Zenon DEF LooseInv, LooseTypeOK, TypeOK, LooseSummary
<1>1. ASSUME NEW u \in Workers, pc'[u] = "announce", req'[u].image = i, lock'[i] = u
      PROVE  Chance(i)
  <2>1. CASE u # w
    BY <1>0, <1>1, <2>1 DEF OthersStay, LockSummary, Chance
  <2>2. CASE u = w
    <3>1. ~AcquireImageLock(w)
      BY <1>0, <1>1, <2>2 DEF AcquireImageLock, Goto
    <3>2. GetImage(w)
      BY <1>1, <2>2, <3>1 DEF LockSummary
    <3>3. /\ pc[w] = "read" /\ req' = req /\ lock' = lock
          /\ ReadError(req[w], db[req[w].image]) = NoError
          /\ Upload(req[w])
      BY <1>0, <1>1, <2>2, <3>2 DEF GetImage, Goto, Upload
    <3>4. /\ req[w] \in Requests /\ RequestError(req[w]) = NoError
          /\ req[w].image = i /\ lock[i] = w
      BY <1>0, <1>1, <2>2, <3>3 DEF RequestFits
    <3>5. db[i] \in Image
      BY <1>0, <3>3, <3>4, MissingImage DEF Upload
    <3>6. db[i].state = "created"
      BY <3>3, <3>4, <3>5, WriteLeavesCreated DEF Upload
    <3>7. QED
      BY <3>3, <3>4, <3>6 DEF Chance, StoresUpload
  <2>3. QED
    BY <2>1, <2>2
<1>2. ASSUME db'[i] = NoImage \/ db'[i].state = "created",
             \A u \in Workers : StoresUpload(u)' /\ req'[u].image = i => lock'[i] # u
      PROVE  Chance(i)
  <2>1. StoreImage(w) => /\ Pending(req[w], seen[w])
                         /\ db' = [db EXCEPT ![req[w].image] =
                                      Written(req[w], seen[w], db[req[w].image])]
    BY <1>0 DEF StoreImage, Write, Ready
  <2>2. db[i] = NoImage \/ db[i].state = "created"
    <3>1. CASE StoreImage(w)
      BY <1>2, <2>1, <3>1, StoreLeavesCreated
    <3>2. CASE ~StoreImage(w)
      BY <1>2, <3>2 DEF LockSummary
    <3>3. QED
      BY <3>1, <3>2
  <2>3. ASSUME NEW u \in Workers, StoresUpload(u), req[u].image = i, lock[i] = u
        PROVE  FALSE
    <3>1. CASE u # w
      BY <1>0, <1>2, <2>3, <3>1 DEF OthersStay, LockSummary, StoresUpload
    <3>2. CASE u = w
      <4>1. StoreImage(w)
        BY <2>3, <3>2 DEF StoresUpload, LockSummary
      <4>2. req[w].op = "CreateImage"
        BY <1>2, <2>1, <2>3, <3>2, <4>1, StoreLeavesCreated
      <4>3. QED
        BY <2>3, <3>2, <4>2 DEF StoresUpload
    <3>3. QED
      BY <3>1, <3>2
  <2>4. QED
    BY <2>2, <2>3 DEF Chance
<1>3. QED
  BY <1>1, <1>2 DEF Chance

\* Nothing is announced, nobody comes to announce, and no chance opens.
LEMMA AnnouncementsKept ==
  ASSUME TypeOK, NEW i \in Images, Announcements(i), uploads'[i] = uploads[i],
         faults' = faults, Strays(i)' \subseteq Strays(i), Chance(i)' => Chance(i)
  PROVE  Announcements(i)'
<1>1. uploads[i] \in Nat /\ faults \in Nat
  BY Counts
<1>2. ChanceCount(i) \in {0, 1} /\ ChanceCount(i)' \in {0, 1}
  BY DEF ChanceCount
<1>3. ChanceCount(i) = 0 => ChanceCount(i)' = 0
  BY DEF ChanceCount
<1>4. Balanced(uploads[i], Strays(i), ChanceCount(i), faults)
  BY DEF Announcements
<1>5. Balanced(uploads[i], Strays(i)', ChanceCount(i)', faults)
  BY <1>1, <1>2, <1>3, <1>4, BalanceKept
<1>6. QED
  BY <1>5 DEF Announcements

\* A fault pays for what it leads to.
LEMMA AnnouncementsByFault ==
  ASSUME TypeOK, NEW i \in Images, Announcements(i), uploads'[i] = uploads[i],
         faults' = faults + 1, NEW x,
         \/ Strays(i)' \subseteq Strays(i)
         \/ Strays(i)' \subseteq Strays(i) \cup {x} /\ (Chance(i)' => Chance(i))
  PROVE  Announcements(i)'
<1>1. uploads[i] \in Nat /\ faults \in Nat
  BY Counts
<1>2. ChanceCount(i) \in {0, 1} /\ ChanceCount(i)' \in {0, 1}
  BY DEF ChanceCount
<1>3. (Chance(i)' => Chance(i)) => (ChanceCount(i) = 0 => ChanceCount(i)' = 0)
  BY DEF ChanceCount
<1>4. Balanced(uploads[i], Strays(i), ChanceCount(i), faults)
  BY DEF Announcements
<1>5. Balanced(uploads[i], Strays(i)', ChanceCount(i)', faults + 1)
  BY <1>1, <1>2, <1>3, <1>4, BalanceByFault
<1>6. QED
  BY <1>5 DEF Announcements

\* The announcement itself was accounted for: without the lock as one of
\* those that lack it, with the lock as the chance.
LEMMA SendAnnouncements ==
  ASSUME LooseInv, NEW w \in Workers, LooseSummary(w), LockSummary(w), SendUploaded(w),
         NEW i \in Images, Announcements(i)
  PROVE  Announcements(i)'
<1>0. /\ TypeOK
      /\ RequestFits(w)
      /\ pc \in [Workers -> PCs]
      /\ OthersStay(w)
  BY Zenon DEF LooseInv, LooseTypeOK, TypeOK, LooseSummary
<1>1. /\ uploads \in [Images -> Nat]
      /\ faults \in Nat
  BY <1>0, Counts
<1>2. /\ pc[w] = "announce"
      /\ uploads' = [uploads EXCEPT ![req[w].image] = uploads[req[w].image] + 1]
      /\ pc' = [pc EXCEPT ![w] = "write"]
      /\ UNCHANGED <<db, lock, req, faults>>
  BY DEF SendUploaded, Goto
<1>3. Upload(req[w]) /\ req[w].image \in Images
  BY <1>0, <1>2, RequestFields DEF RequestFits, Upload
<1>4. Strays(i)' \subseteq Strays(i)
  BY <1>0, WorkerStrays
<1>5. \/ i = req[w].image /\ lock[i] = w
      \/ Chance(i)' => Chance(i)
  BY <1>0, <1>2, <1>3 DEF Chance, StoresUpload, Upload
<1>6. CASE i # req[w].image
  BY <1>0, <1>1, <1>2, <1>4, <1>5, <1>6, AnnouncementsKept
<1>7. CASE i = req[w].image
  <2>1. uploads'[i] = uploads[i] + 1 /\ uploads[i] \in Nat
    BY <1>1, <1>2, <1>7
  <2>2. ChanceCount(i) \in {0, 1} /\ ChanceCount(i)' \in {0, 1}
    BY DEF ChanceCount
  <2>3. \/ (\E x \in Strays(i) : x \notin Strays(i)') /\ (ChanceCount(i) = 0 => ChanceCount(i)' = 0)
        \/ ChanceCount(i) = 1 /\ ChanceCount(i)' = 0
    <3>1. CASE lock[i] # w
      <4>1. w \in Strays(i) /\ w \notin Strays(i)'
        BY <1>0, <1>2, <1>7, <3>1 DEF Strays
      <4>2. Chance(i)' => Chance(i)
        BY <1>5, <3>1
      <4>3. QED
        BY <4>1, <4>2 DEF ChanceCount
    <3>2. CASE lock[i] = w
      <4>1. Chance(i)
        BY <1>2, <1>7, <3>2 DEF Chance
      <4>2. ~Chance(i)'
        BY <1>0, <1>2, <1>3, <1>7, <3>2 DEF Chance, StoresUpload, Upload
      <4>3. QED
        BY <4>1, <4>2 DEF ChanceCount
    <3>3. QED
      BY <3>1, <3>2
  <2>4. Balanced(uploads[i], Strays(i), ChanceCount(i), faults)
    BY DEF Announcements
  <2>5. Balanced(uploads[i] + 1, Strays(i)', ChanceCount(i)', faults)
    BY <1>1, <1>4, <2>1, <2>2, <2>3, <2>4, BalanceSent
  <2>6. QED
    BY <1>2, <2>1, <2>5 DEF Announcements
<1>8. QED
  BY <1>6, <1>7

\* A lock that expires makes one more handler announce without it, or lets
\* the image be announced again.
LEMMA ExpiryAnnouncements ==
  ASSUME LooseInv, NEW j \in Images, ExpireHeldLock(j), NEW i \in Images, Announcements(i)
  PROVE  Announcements(i)'
<1>1. /\ lock' = [lock EXCEPT ![j] = Free]
      /\ faults' = faults + 1
      /\ UNCHANGED <<db, pc, req, uploads>>
  BY DEF ExpireHeldLock, Fault, worker, events
<1>2. TypeOK /\ lock \in [Images -> Workers \cup {Free, Orphan}] /\ Free \notin Workers
  BY LockAssumption, Zenon DEF LooseInv, LooseTypeOK, TypeOK
<1>3. \A k \in Images : lock'[k] = IF k = j THEN Free ELSE lock[k]
  BY <1>1, <1>2
<1>4. CASE \E w \in Workers : StoresUpload(w) /\ req[w].image = i /\ lock[i] = w
  <2>1. Strays(i)' \subseteq Strays(i)
    BY <1>1, <1>3, <1>4 DEF Strays, StoresUpload
  <2>2. QED
    BY <1>1, <1>2, <2>1, AnnouncementsByFault
<1>5. CASE \A w \in Workers : StoresUpload(w) /\ req[w].image = i => lock[i] # w
  <2>1. Strays(i)' \subseteq Strays(i) \cup {lock[i]}
    BY <1>1, <1>3 DEF Strays
  <2>2. Chance(i)' => Chance(i)
    BY <1>1, <1>2, <1>3, <1>5 DEF Chance
  <2>3. QED
    BY <1>1, <1>2, <2>1, <2>2, AnnouncementsByFault
<1>6. QED
  BY <1>4, <1>5

\* Every step keeps the account of the announcements.
LEMMA AnnouncementsStep ==
  ASSUME LooseInv, AnnouncementsInv, [LooseNext]_looseVars
  PROVE  AnnouncementsInv'
<1> SUFFICES ASSUME NEW i \in Images PROVE Announcements(i)'
  BY DEF AnnouncementsInv
<1>0. /\ TypeOK
      /\ Announcements(i)
      /\ \A w \in Workers : RequestFits(w) /\ Ready(w)
      /\ lock \in [Images -> Workers \cup {Free, Orphan}]
      /\ pc \in [Workers -> PCs]
  BY Zenon DEF LooseInv, LooseTypeOK, TypeOK, AnnouncementsInv
<1>1. ASSUME NEW w \in Workers, WorkerStep(w) PROVE Announcements(i)'
  <2>1. LooseSummary(w) /\ LockSummary(w) /\ OthersStay(w)
    BY <1>0, <1>1, WorkerSteps, WorkerLocks DEF LooseSummary
  <2>2. Strays(i)' \subseteq Strays(i)
    BY <1>0, <2>1, WorkerStrays
  <2>3. CASE SendUploaded(w)
    BY <1>0, <2>1, <2>3, SendAnnouncements
  <2>4. CASE ~SendUploaded(w) /\ faults' = faults
    BY <1>0, <2>1, <2>2, <2>4, WorkerChance, AnnouncementsKept DEF LooseSummary
  <2>5. CASE ~SendUploaded(w) /\ faults' = faults + 1
    BY <1>0, <2>1, <2>2, <2>5, AnnouncementsByFault DEF LooseSummary
  <2>6. QED
    BY <2>1, <2>3, <2>4, <2>5 DEF LockSummary
<1>2. ASSUME UNCHANGED <<db, pc, req, uploads, faults>>,
             \A w \in Workers : lock'[i] = w <=> lock[i] = w
      PROVE  Announcements(i)'
  <2>1. Strays(i)' \subseteq Strays(i)
    BY <1>2 DEF Strays
  <2>2. Chance(i)' => Chance(i)
    BY <1>2 DEF Chance, StoresUpload
  <2>3. QED
    BY <1>0, <1>2, <2>1, <2>2, AnnouncementsKept
<1>3. ASSUME NEW j \in Images, ExpireLock(j) PROVE Announcements(i)'
  <2>1. /\ lock[j] = Orphan
        /\ lock' = [lock EXCEPT ![j] = Free]
        /\ UNCHANGED <<db, pc, req, uploads, faults>>
    BY <1>3 DEF ExpireLock, worker, events
  <2>2. \A w \in Workers : lock'[i] = w <=> lock[i] = w
    BY <1>0, <2>1, LockAssumption
  <2>3. QED
    BY <1>2, <2>1, <2>2
<1>4. ASSUME NEW w \in Workers, StoreImageTimesOut(w) PROVE Announcements(i)'
  <2>1. /\ pc' = [pc EXCEPT ![w] = AfterWrite(req[w])]
        /\ faults' = faults + 1
        /\ UNCHANGED <<lock, req, uploads>>
    BY <1>4 DEF StoreImageTimesOut, Goto, Fault, events
  <2>2. Strays(i)' \subseteq Strays(i)
    BY <1>0, <2>1 DEF Strays, AfterWrite
  <2>3. QED
    BY <1>0, <2>1, <2>2, AnnouncementsByFault
<1>5. ASSUME NEW m \in late, DeliverLate(m) PROVE Announcements(i)'
  <2>1. /\ db' = [db EXCEPT ![m.req.image] = Written(m.req, m.seen, db[m.req.image])]
        /\ UNCHANGED <<lock, pc, req, uploads, faults>>
    BY <1>5 DEF DeliverLate, worker, events
  <2>2. Pending(m.req, m.seen)
    BY DEF LooseInv
  <2>3. Strays(i)' \subseteq Strays(i)
    BY <2>1 DEF Strays
  <2>4. (db'[i] = NoImage \/ db'[i].state = "created")
           => (db[i] = NoImage \/ db[i].state = "created")
    BY <2>1, <2>2, StoreLeavesCreated
  <2>5. Chance(i)' => Chance(i)
    BY <2>1, <2>4 DEF Chance, StoresUpload
  <2>6. QED
    BY <1>0, <2>1, <2>3, <2>5, AnnouncementsKept
<1>6. CASE UNCHANGED looseVars
  BY <1>2, <1>6 DEF looseVars, vars
<1>7. ASSUME NEW j \in Images, ExpireHeldLock(j) PROVE Announcements(i)'
  BY <1>0, <1>7, ExpiryAnnouncements
<1>8. QED
  BY <1>1, <1>3, <1>4, <1>5, <1>6, <1>7 DEF LooseNext, Next, WorkerStep

\* An upload is announced again only after a fault, once for each, although a
\* lock may expire under its holder and a write may come late.
THEOREM LooseAnnouncedAgainAfterFaults == LooseSpec => []AnnouncedOncePerFault
<1>1. LooseInit => AnnouncementsInv
  <2> SUFFICES ASSUME LooseInit, NEW i \in Images PROVE Announcements(i)
    BY DEF AnnouncementsInv
  <2>1. uploads[i] = 0 /\ faults = 0 /\ \A w \in Workers : pc[w] = "idle"
    BY DEF LooseInit, Init
  <2>2. Strays(i) = {}
    BY <2>1 DEF Strays
  <2>3. ChanceCount(i) \in {0, 1}
    BY DEF ChanceCount
  <2>4. QED
    BY <2>1, <2>2, <2>3, FS_EmptySet DEF Announcements, Balanced
<1>2. LooseInv /\ AnnouncementsInv /\ [LooseNext]_looseVars => AnnouncementsInv'
  BY AnnouncementsStep
<1>3. LooseInv /\ AnnouncementsInv => AnnouncedOncePerFault
  <2> SUFFICES ASSUME LooseInv, AnnouncementsInv, NEW i \in Images
               PROVE  uploads[i] <= 1 + faults
    BY DEF AnnouncedOncePerFault
  <2>1. uploads[i] \in Nat /\ faults \in Nat
    BY Counts DEF LooseInv, LooseTypeOK
  <2>2. /\ IsFiniteSet(Strays(i))
        /\ uploads[i] + Cardinality(Strays(i)) + ChanceCount(i) <= 1 + faults
    BY DEF AnnouncementsInv, Announcements, Balanced
  <2>3. ChanceCount(i) \in {0, 1} /\ Cardinality(Strays(i)) \in Nat
    BY <2>2, FS_CardinalityType DEF ChanceCount
  <2>4. QED
    BY <2>1, <2>2, <2>3
<1>4. QED
  BY <1>1, <1>2, <1>3, LooseInvariance, PTL DEF LooseSpec

-----------------------------------------------------------------------------
(* Repeated publications                                                    *)

\* The image may still be published.
Early(im) == im = NoImage \/ im.state \notin Past

\* Handlers that owe the event of a variant, or may come to owe it without
\* the lock.
Owing(i, v) ==
    {w \in Workers :
        /\ req[w].image = i
        /\ \/ pc[w] = "publish" /\ v \in todo[w]
           \/ pc[w] \in {"read", "announce", "write"} /\ ~Creating(w) /\ lock[i] # w}

LateOn(i) == {m \in late : m.req.image = i}

\* A late write sends nothing, but it may let the image be published again.
Risks(i, v) == ({"worker"} \X Owing(i, v)) \cup ({"late"} \X LateOn(i))

\* The image may be published by the holder of its lock, or made so.
Opening(i) ==
    \/ Early(db[i])
    \/ \E w \in Workers : /\ pc[w] \in {"announce", "write"} /\ ~Creating(w)
                          /\ req[w].image = i /\ lock[i] = w
                          /\ Early(seen[w])

OpeningCount(i) == IF Opening(i) THEN 1 ELSE 0

Publications(i, v) == Balanced(publishes[i][v], Risks(i, v), OpeningCount(i), faults)

PublicationsInv == \A i \in Images, v \in Variants : Publications(i, v)

\* A step of a worker does not touch what the others owe.
EventSummary(w) ==
    /\ \A u \in Workers \ {w} : todo'[u] = todo[u]
    /\ pc'[w] = "publish" => StoreImage(w) \/ \E v \in Variants : SendPublished(w, v)
    /\ publishes' = publishes \/ \E v \in Variants : SendPublished(w, v)

\* Every action of a worker is of that kind.
LEMMA WorkerEvents ==
  ASSUME TypeOK, NEW w \in Workers, WorkerStep(w)
  PROVE  EventSummary(w)
<1>0. /\ pc \in [Workers -> PCs]
      /\ todo \in [Workers -> SUBSET Variants]
  BY Zenon DEF TypeOK
<1> HIDE DEF TypeOK
<1> USE DEF EventSummary, Goto, events
<1>1. ASSUME NEW r \in Requests, Receive(w, r) PROVE EventSummary(w)
  BY <1>0, <1>1 DEF Receive
<1>2. ASSUME AcquireImageLock(w) PROVE EventSummary(w)
  BY <1>0, <1>2 DEF AcquireImageLock
<1>3. ASSUME GetImage(w) PROVE EventSummary(w)
  BY <1>0, <1>3 DEF GetImage
<1>4. ASSUME SendUploaded(w) PROVE EventSummary(w)
  BY <1>0, <1>4 DEF SendUploaded
<1>5. ASSUME StoreImage(w) PROVE EventSummary(w)
  BY <1>0, <1>5 DEF StoreImage
<1>6. ASSUME NEW v \in Variants, SendPublished(w, v) PROVE EventSummary(w)
  BY <1>0, <1>6 DEF SendPublished
<1>7. ASSUME UnlockImage(w) \/ UnlockImageFails(w) \/ Reply(w) \/ Crash(w)
      PROVE  EventSummary(w)
  <2>1. /\ pc' = [pc EXCEPT ![w] = "idle"]
        /\ todo' = [todo EXCEPT ![w] = {}]
        /\ publishes' = publishes
    BY <1>7 DEF UnlockImage, UnlockImageFails, Reply, Crash, Release
  <2>2. QED
    BY <1>0, <2>1
<1>8. ASSUME AcquireImageLockFails(w) PROVE EventSummary(w)
  BY <1>0, <1>8 DEF AcquireImageLockFails
<1>9. ASSUME GetImageFails(w) PROVE EventSummary(w)
  BY <1>0, <1>9 DEF GetImageFails
<1>10. ASSUME SendUploadedFails(w) PROVE EventSummary(w)
  BY <1>0, <1>10 DEF SendUploadedFails
<1>11. ASSUME StoreImageFails(w) PROVE EventSummary(w)
  BY <1>0, <1>11 DEF StoreImageFails, AfterWrite
<1>12. ASSUME SendPublishedFails(w) PROVE EventSummary(w)
  BY <1>0, <1>12 DEF SendPublishedFails
<1>13. QED
  BY <1>1, <1>2, <1>3, <1>4, <1>5, <1>6, <1>7, <1>8, <1>9, <1>10, <1>11, <1>12
     DEF WorkerStep, Progress, Failure

\* The holder of the lock publishes.
Publishes(w, i) ==
    /\ StoreImage(w)
    /\ req[w].op = "PublishImage"
    /\ req[w].image = i
    /\ lock[i] = w

\* Only it comes to owe an event that it might not have owed before.
LEMMA WorkerOwing ==
  ASSUME TypeOK, NEW w \in Workers, RequestFits(w), LooseSummary(w), LockSummary(w),
         EventSummary(w), NEW i \in Images, NEW v \in Variants
  PROVE  /\ Owing(i, v)' \subseteq Owing(i, v) \cup {w}
         /\ ~Publishes(w, i) => Owing(i, v)' \subseteq Owing(i, v)
<1>0. /\ pc \in [Workers -> PCs]
      /\ todo \in [Workers -> SUBSET Variants]
      /\ req \in [Workers -> Requests \cup {NoRequest}]
      /\ lock \in [Images -> Workers \cup {Free, Orphan}]
      /\ OthersStay(w)
  BY Zenon DEF TypeOK, LooseSummary
<1>1. ASSUME NEW u \in Workers, u \in Owing(i, v)', u # w PROVE u \in Owing(i, v)
  BY <1>0, <1>1 DEF Owing, OthersStay, LockSummary, EventSummary, Creating
<1>2. ASSUME w \in Owing(i, v)', ~Publishes(w, i) PROVE w \in Owing(i, v)
  <2>1. CASE pc'[w] = "publish"
    <3>1. v \in todo'[w] /\ req'[w].image = i
      BY <1>2, <2>1 DEF Owing
    <3>2. CASE StoreImage(w)
      <4>1. /\ pc[w] = "write" /\ req' = req
            /\ v \in PublishEvents(req[w], seen[w])
        BY <1>0, <3>1, <3>2 DEF StoreImage
      <4>2. req[w].op = "PublishImage"
        BY <4>1 DEF PublishEvents
      <4>3. lock[i] # w
        BY <1>2, <3>1, <3>2, <4>1, <4>2 DEF Publishes
      <4>4. QED
        BY <3>1, <4>1, <4>2, <4>3 DEF Owing, Creating
    <3>3. ASSUME NEW x \in Variants, SendPublished(w, x) PROVE w \in Owing(i, v)
      <4>1. pc[w] = "publish" /\ req' = req /\ todo'[w] = todo[w] \ {x}
        BY <1>0, <3>3 DEF SendPublished
      <4>2. QED
        BY <3>1, <4>1 DEF Owing
    <3>4. QED
      BY <2>1, <3>2, <3>3 DEF EventSummary
  <2>2. CASE pc'[w] # "publish"
    <3>1. /\ pc'[w] \in {"read", "announce", "write"} /\ ~Creating(w)'
          /\ req'[w].image = i /\ lock'[i] # w
      BY <1>2, <2>2 DEF Owing
    <3>2. ~AcquireImageLock(w)
      BY <1>0, <3>1 DEF AcquireImageLock
    <3>3. \A r \in Requests : ~Receive(w, r)
      BY <1>0, <3>1 DEF Receive, Goto, Creating
    <3>4. GetImage(w) \/ SendUploaded(w)
      BY <3>1, <3>2, <3>3 DEF LooseSummary, LockSummary
    <3>5. pc[w] \in {"read", "announce"} /\ req' = req /\ lock' = lock
      BY <3>4 DEF GetImage, SendUploaded
    <3>6. QED
      BY <3>1, <3>5 DEF Owing, Creating
  <2>3. QED
    BY <2>1, <2>2
<1>3. Owing(i, v)' \subseteq Workers
  BY DEF Owing
<1>4. QED
  BY <1>1, <1>2, <1>3

\* A write without the lock.
StoresStray(w, i) ==
    /\ StoreImage(w)
    /\ ~Creating(w)
    /\ req[w].op # "PublishImage"
    /\ req[w].image = i
    /\ lock[i] # w

\* Without a fault only such a write opens an image to publication again.
LEMMA WorkerOpening ==
  ASSUME LooseInv, NEW w \in Workers, LooseSummary(w), LockSummary(w),
         faults' = faults, NEW i \in Images, Opening(i)', ~StoresStray(w, i)
  PROVE  Opening(i)
<1>0. /\ TypeOK
      /\ RequestFits(w) /\ Ready(w)
      /\ pc \in [Workers -> PCs]
      /\ req \in [Workers -> Requests \cup {NoRequest}]
      /\ seen \in [Workers -> Image \cup {NoImage}]
      /\ db \in [Images -> Image \cup {NoImage}]
      /\ OthersStay(w)
  BY Zenon DEF LooseInv, LooseTypeOK, TypeOK, LooseSummary
<1>1. CASE Early(db'[i])
  <2>1. CASE StoreImage(w) /\ req[w].image = i
    <3>1. /\ pc[w] = "write"
          /\ Pending(req[w], seen[w])
          /\ db'[i] = Written(req[w], seen[w], db[req[w].image])
      BY <1>0, <2>1 DEF StoreImage, Write, Ready
    <3>2. CASE Creating(w)
      BY <1>0, <2>1, <3>1, <3>2, PendingWrite DEF Opening, Early, Creating
    <3>3. CASE ~Creating(w)
      <4>1. Early(seen[w]) /\ req[w].op # "PublishImage"
        BY <1>0, <1>1, <3>1, <3>3, PendingWrite DEF Early, Creating
      <4>2. lock[i] = w
        BY <2>1, <3>3, <4>1 DEF StoresStray
      <4>3. QED
        BY <2>1, <3>1, <3>3, <4>1, <4>2 DEF Opening
    <3>4. QED
      BY <3>2, <3>3
  <2>2. CASE ~(StoreImage(w) /\ req[w].image = i)
    <3>1. db'[i] = db[i]
      BY <1>0, <2>2 DEF LockSummary, StoreImage, Write
    <3>2. QED
      BY <1>1, <3>1 DEF Opening
  <2>3. QED
    BY <2>1, <2>2
<1>2. ASSUME NEW u \in Workers, pc'[u] \in {"announce", "write"}, ~Creating(u)',
             req'[u].image = i, lock'[i] = u, Early(seen'[u])
      PROVE  Opening(i)
  <2>1. CASE u # w
    BY <1>0, <1>2, <2>1 DEF OthersStay, LockSummary, Opening, Creating
  <2>2. CASE u = w
    <3>1. \A r \in Requests : ~Receive(w, r)
      BY <1>0, <1>2, <2>2 DEF Receive, Goto, Creating
    <3>2. CASE GetImage(w)
      BY <1>0, <1>2, <2>2, <3>2 DEF GetImage, Opening
    <3>3. CASE SendUploaded(w)
      BY <1>0, <1>2, <2>2, <3>3 DEF SendUploaded, Opening, Creating
    <3>4. QED
      BY <1>2, <2>2, <3>1, <3>2, <3>3 DEF LooseSummary
  <2>3. QED
    BY <2>1, <2>2
<1>3. QED
  BY <1>1, <1>2 DEF Opening, Early

\* The counts of a publication.
LEMMA PublicationCounts ==
  ASSUME TypeOK, NEW i \in Images, NEW v \in Variants
  PROVE  /\ publishes[i][v] \in Nat
         /\ faults \in Nat
         /\ OpeningCount(i) \in {0, 1}
         /\ OpeningCount(i)' \in {0, 1}
         /\ (Opening(i)' => Opening(i)) => (OpeningCount(i) = 0 => OpeningCount(i)' = 0)
<1>1. publishes \in [Images -> [Variants -> Nat]] /\ faults \in Nat
  BY Counts
<1>2. publishes[i][v] \in Nat
  BY <1>1
<1>3. QED
  BY <1>1, <1>2 DEF OpeningCount

\* Nothing is sent, nobody comes to owe it, and the image does not open.
LEMMA PublicationsKept ==
  ASSUME TypeOK, NEW i \in Images, NEW v \in Variants, Publications(i, v),
         publishes'[i][v] = publishes[i][v], faults' = faults,
         Risks(i, v)' \subseteq Risks(i, v), Opening(i)' => Opening(i)
  PROVE  Publications(i, v)'
<1>1. Balanced(publishes[i][v], Risks(i, v), OpeningCount(i), faults)
  BY DEF Publications
<1>2. Balanced(publishes[i][v], Risks(i, v)', OpeningCount(i)', faults)
  BY <1>1, PublicationCounts, BalanceKept
<1>3. QED
  BY <1>2 DEF Publications

\* A fault pays for what it leads to.
LEMMA PublicationsByFault ==
  ASSUME TypeOK, NEW i \in Images, NEW v \in Variants, Publications(i, v),
         publishes'[i][v] = publishes[i][v], faults' = faults + 1, NEW x,
         \/ Risks(i, v)' \subseteq Risks(i, v)
         \/ Risks(i, v)' \subseteq Risks(i, v) \cup {x} /\ (Opening(i)' => Opening(i))
  PROVE  Publications(i, v)'
<1>1. Balanced(publishes[i][v], Risks(i, v), OpeningCount(i), faults)
  BY DEF Publications
<1>2. Balanced(publishes[i][v], Risks(i, v)', OpeningCount(i)', faults + 1)
  BY <1>1, PublicationCounts, BalanceByFault
<1>3. QED
  BY <1>2 DEF Publications

\* A handler or a late write that is done passes its account to the image, or
\* the other way round.
LEMMA PublicationsMoved ==
  ASSUME TypeOK, NEW i \in Images, NEW v \in Variants, Publications(i, v),
         publishes'[i][v] = publishes[i][v], faults' = faults, NEW x,
         \/ Risks(i, v)' \subseteq Risks(i, v) /\ x \in Risks(i, v) /\ x \notin Risks(i, v)'
         \/ Risks(i, v)' \subseteq Risks(i, v) \cup {x} /\ Opening(i) /\ ~Opening(i)'
  PROVE  Publications(i, v)'
<1>1. Balanced(publishes[i][v], Risks(i, v), OpeningCount(i), faults)
  BY DEF Publications
<1>2. \/ Risks(i, v)' \subseteq Risks(i, v) /\ x \in Risks(i, v) \ Risks(i, v)'
      \/ Risks(i, v)' \subseteq Risks(i, v) \cup {x} /\ OpeningCount(i) = 1 /\ OpeningCount(i)' = 0
  BY DEF OpeningCount
<1>3. Balanced(publishes[i][v], Risks(i, v)', OpeningCount(i)', faults)
  BY <1>1, <1>2, PublicationCounts, BalanceMoved
<1>4. QED
  BY <1>3 DEF Publications

\* The holder of the lock that publishes uses the chance up.
LEMMA PublishCloses ==
  ASSUME LooseInv, NEW w \in Workers, NEW i \in Images, Publishes(w, i)
  PROVE  Opening(i) /\ ~Opening(i)'
<1>0. /\ pc \in [Workers -> PCs]
      /\ db \in [Images -> Image \cup {NoImage}]
      /\ Ready(w)
  BY Zenon DEF LooseInv, LooseTypeOK, TypeOK
<1>1. /\ pc[w] = "write" /\ req[w].op = "PublishImage" /\ req[w].image = i /\ lock[i] = w
      /\ UNCHANGED <<lock, req, seen>>
      /\ Pending(req[w], seen[w])
      /\ db' = [db EXCEPT ![i] = Written(req[w], seen[w], db[i])]
      /\ pc'[w] \notin {"announce", "write"}
  BY <1>0 DEF Publishes, StoreImage, Write, Ready, Goto, AfterWrite
<1>2. Early(seen[w])
  <2>1. /\ req[w] \in Requests
        /\ seen[w] \in Image
        /\ ReadError(req[w], seen[w]) = NoError
    BY <1>1 DEF Pending, Grounded
  <2>2. QED
    BY <1>1, <2>1, WritePublishes DEF Early
<1>3. ~Early(db'[i])
  <2>1. db'[i] = Written(req[w], seen[w], db[i])
    BY <1>0, <1>1
  <2>2. QED
    BY <1>0, <1>1, <2>1, PendingWrite DEF Early
<1>4. Opening(i)
  BY <1>1, <1>2 DEF Opening, Creating
<1>5. ~Opening(i)'
  BY <1>1, <1>3 DEF Opening
<1>6. QED
  BY <1>4, <1>5

\* Neither the sending of an event nor any other step of a worker needs a
\* charge.
LEMMA WorkerPublications ==
  ASSUME LooseInv, NEW w \in Workers, WorkerStep(w), late' = late,
         NEW i \in Images, NEW v \in Variants, Publications(i, v)
  PROVE  Publications(i, v)'
<1>0. /\ TypeOK
      /\ RequestFits(w)
      /\ pc \in [Workers -> PCs]
      /\ todo \in [Workers -> SUBSET Variants]
      /\ publishes \in [Images -> [Variants -> Nat]]
      /\ faults \in Nat
  BY Counts, Zenon DEF LooseInv, LooseTypeOK, TypeOK
<1>1. LooseSummary(w) /\ LockSummary(w) /\ EventSummary(w)
  BY <1>0, WorkerSteps, WorkerLocks, WorkerEvents
<1>2. LateOn(i)' = LateOn(i)
  BY DEF LateOn
<1>3. /\ Risks(i, v)' \subseteq Risks(i, v) \cup {<<"worker", w>>}
      /\ ~Publishes(w, i) => Risks(i, v)' \subseteq Risks(i, v)
  <2>1. /\ Owing(i, v)' \subseteq Owing(i, v) \cup {w}
        /\ ~Publishes(w, i) => Owing(i, v)' \subseteq Owing(i, v)
    BY <1>0, <1>1, WorkerOwing
  <2>2. QED
    BY <1>2, <2>1 DEF Risks
<1>4. ASSUME w \in Owing(i, v), w \notin Owing(i, v)'
      PROVE  <<"worker", w>> \in Risks(i, v) /\ <<"worker", w>> \notin Risks(i, v)'
  BY <1>4 DEF Risks
<1>5. ASSUME NEW x \in Variants, SendPublished(w, x) PROVE Publications(i, v)'
  <2>1. /\ pc[w] = "publish" /\ x \in todo[w]
        /\ publishes' = [publishes EXCEPT ![req[w].image][x] = publishes[req[w].image][x] + 1]
        /\ todo'[w] = todo[w] \ {x}
        /\ pc'[w] \in {"publish", "unlock"}
        /\ UNCHANGED <<req, lock, faults>>
    BY <1>0, <1>5 DEF SendPublished, Goto
  <2>2. req[w].image \in Images
    BY <1>0, <2>1, RequestFields DEF RequestFits
  <2>3. ~Publishes(w, i) /\ ~StoresStray(w, i)
    BY <2>1 DEF Publishes, StoresStray, StoreImage
  <2>4. Risks(i, v)' \subseteq Risks(i, v) /\ (Opening(i)' => Opening(i))
    BY <1>1, <1>3, <2>1, <2>3, WorkerOpening
  <2>5. CASE i = req[w].image /\ v = x
    <3>1. publishes'[i][v] = publishes[i][v] + 1
      BY <1>0, <2>1, <2>2, <2>5
    <3>2. w \in Owing(i, v) /\ w \notin Owing(i, v)'
      BY <2>1, <2>5 DEF Owing
    <3>3. \E y \in Risks(i, v) : y \notin Risks(i, v)'
      BY <1>4, <3>2
    <3>4. Balanced(publishes[i][v], Risks(i, v), OpeningCount(i), faults)
      BY DEF Publications
    <3>5. /\ publishes[i][v] \in Nat
          /\ OpeningCount(i) \in {0, 1} /\ OpeningCount(i)' \in {0, 1}
          /\ OpeningCount(i) = 0 => OpeningCount(i)' = 0
      BY <1>0, <2>4, PublicationCounts
    <3>6. Balanced(publishes[i][v] + 1, Risks(i, v)', OpeningCount(i)', faults)
      BY <1>0, <2>4, <3>3, <3>4, <3>5, BalanceSent
    <3>7. QED
      BY <2>1, <3>1, <3>6 DEF Publications
  <2>6. CASE ~(i = req[w].image /\ v = x)
    <3>1. publishes'[i][v] = publishes[i][v]
      BY <1>0, <2>1, <2>2, <2>6
    <3>2. QED
      BY <1>0, <2>1, <2>4, <3>1, PublicationsKept
  <2>7. QED
    BY <2>5, <2>6
<1>6. ASSUME publishes' = publishes PROVE Publications(i, v)'
  <2>1. CASE faults' = faults + 1
    <3>1. ~Publishes(w, i)
      BY <1>0, <2>1 DEF Publishes, StoreImage
    <3>2. QED
      BY <1>0, <1>3, <1>6, <2>1, <3>1, PublicationsByFault
  <2>2. CASE faults' = faults /\ Publishes(w, i)
    <3>1. Opening(i) /\ ~Opening(i)'
      BY <2>2, PublishCloses
    <3>2. QED
      BY <1>0, <1>3, <1>6, <2>2, <3>1, PublicationsMoved
  <2>3. CASE faults' = faults /\ StoresStray(w, i)
    <3>1. /\ pc[w] = "write" /\ ~Creating(w) /\ req[w].image = i /\ lock[i] # w
          /\ req[w].op # "PublishImage"
      BY <2>3 DEF StoresStray, StoreImage
    <3>2. pc'[w] \notin {"read", "announce", "write", "publish"}
      BY <1>0, <2>3, <3>1 DEF StoresStray, StoreImage, PublishEvents, AfterWrite, Goto
    <3>3. w \in Owing(i, v) /\ w \notin Owing(i, v)'
      BY <3>1, <3>2 DEF Owing
    <3>4. ~Publishes(w, i)
      BY <3>1 DEF Publishes
    <3>5. QED
      BY <1>0, <1>3, <1>4, <1>6, <2>3, <3>3, <3>4, PublicationsMoved
  <2>4. CASE faults' = faults /\ ~Publishes(w, i) /\ ~StoresStray(w, i)
    <3>1. Opening(i)' => Opening(i)
      BY <1>1, <2>4, WorkerOpening
    <3>2. QED
      BY <1>0, <1>3, <1>6, <2>4, <3>1, PublicationsKept
  <2>5. QED
    BY <1>1, <2>1, <2>2, <2>3, <2>4 DEF LockSummary
<1>7. QED
  BY <1>1, <1>5, <1>6 DEF EventSummary

\* Every step keeps the account of the publications.
LEMMA PublicationsStep ==
  ASSUME LooseInv, PublicationsInv, [LooseNext]_looseVars
  PROVE  PublicationsInv'
<1> SUFFICES ASSUME NEW i \in Images, NEW v \in Variants PROVE Publications(i, v)'
  BY DEF PublicationsInv
<1>0. /\ TypeOK
      /\ Publications(i, v)
      /\ lock \in [Images -> Workers \cup {Free, Orphan}]
      /\ pc \in [Workers -> PCs]
      /\ db \in [Images -> Image \cup {NoImage}]
      /\ Free \notin Workers /\ Orphan \notin Workers
  BY LockAssumption, Zenon DEF LooseInv, LooseTypeOK, TypeOK, PublicationsInv
<1>1. ASSUME UNCHANGED <<db, pc, req, seen, todo, publishes, faults, late>>,
             \A w \in Workers : lock'[i] = w <=> lock[i] = w
      PROVE  Publications(i, v)'
  <2>1. Owing(i, v)' = Owing(i, v) /\ LateOn(i)' = LateOn(i)
    BY <1>1 DEF Owing, LateOn, Creating
  <2>2. Risks(i, v)' = Risks(i, v)
    BY <2>1 DEF Risks
  <2>3. Opening(i)' => Opening(i)
    BY <1>1 DEF Opening, Creating
  <2>4. QED
    BY <1>0, <1>1, <2>2, <2>3, PublicationsKept
<1>2. ASSUME Next, UNCHANGED late PROVE Publications(i, v)'
  <2>1. ASSUME NEW j \in Images, ExpireLock(j) PROVE Publications(i, v)'
    <3>1. /\ lock[j] = Orphan
          /\ lock' = [lock EXCEPT ![j] = Free]
          /\ UNCHANGED <<db, pc, req, seen, todo, publishes, faults>>
      BY <2>1 DEF ExpireLock, worker, events
    <3>2. \A w \in Workers : lock'[i] = w <=> lock[i] = w
      BY <1>0, <3>1
    <3>3. QED
      BY <1>1, <1>2, <3>1, <3>2
  <2>2. QED
    BY <1>0, <1>2, <2>1, WorkerPublications DEF Next, WorkerStep
<1>3. ASSUME NEW j \in Images, ExpireHeldLock(j) PROVE Publications(i, v)'
  <2>1. /\ lock' = [lock EXCEPT ![j] = Free]
        /\ faults' = faults + 1
        /\ UNCHANGED <<db, pc, req, seen, todo, publishes, late>>
    BY <1>3 DEF ExpireHeldLock, Fault, worker, events
  <2>2. lock'[i] = IF i = j THEN Free ELSE lock[i]
    BY <1>0, <2>1
  <2>3. Owing(i, v)' \subseteq Owing(i, v) \cup {lock[i]} /\ LateOn(i)' = LateOn(i)
    BY <2>1, <2>2 DEF Owing, LateOn, Creating
  <2>4. Risks(i, v)' \subseteq Risks(i, v) \cup {<<"worker", lock[i]>>}
    BY <2>3 DEF Risks
  <2>5. Opening(i)' => Opening(i)
    BY <1>0, <2>1, <2>2 DEF Opening, Creating
  <2>6. QED
    BY <1>0, <2>1, <2>4, <2>5, PublicationsByFault
<1>4. ASSUME NEW w \in Workers, StoreImageTimesOut(w) PROVE Publications(i, v)'
  <2> DEFINE m == [req |-> req[w], seen |-> seen[w], fault |-> faults + 1]
  <2>1. /\ pc' = [pc EXCEPT ![w] = AfterWrite(req[w])]
        /\ faults' = faults + 1
        /\ late' = late \cup {m}
        /\ UNCHANGED <<db, lock, req, seen, todo, publishes>>
    BY <1>4 DEF StoreImageTimesOut, Goto, Fault, events
  <2> HIDE DEF m
  <2>2. Owing(i, v)' \subseteq Owing(i, v) /\ LateOn(i)' \subseteq LateOn(i) \cup {m}
    BY <1>0, <2>1 DEF Owing, LateOn, AfterWrite, Creating
  <2>3. Risks(i, v)' \subseteq Risks(i, v) \cup {<<"late", m>>}
    BY <2>2 DEF Risks
  <2>4. Opening(i)' => Opening(i)
    BY <1>0, <2>1 DEF Opening, AfterWrite, Creating
  <2>5. QED
    BY <1>0, <2>1, <2>3, <2>4, PublicationsByFault
<1>5. ASSUME NEW m \in late, DeliverLate(m) PROVE Publications(i, v)'
  <2>1. /\ db' = [db EXCEPT ![m.req.image] = Written(m.req, m.seen, db[m.req.image])]
        /\ late' = late \ {m}
        /\ UNCHANGED <<lock, pc, req, seen, todo, publishes, faults>>
    BY <1>5 DEF DeliverLate, worker, events
  <2>2. Owing(i, v)' = Owing(i, v) /\ LateOn(i)' = LateOn(i) \ {m}
    BY <2>1 DEF Owing, LateOn, Creating
  <2>3. CASE m.req.image = i
    <3>1. m \in LateOn(i)
      BY <2>3 DEF LateOn
    <3>2. /\ Risks(i, v)' \subseteq Risks(i, v)
          /\ <<"late", m>> \in Risks(i, v)
          /\ <<"late", m>> \notin Risks(i, v)'
      BY <2>2, <3>1 DEF Risks
    <3>3. QED
      BY <1>0, <2>1, <3>2, PublicationsMoved
  <2>4. CASE m.req.image # i
    <3>1. Risks(i, v)' \subseteq Risks(i, v)
      BY <2>2 DEF Risks
    <3>2. Opening(i)' => Opening(i)
      BY <1>0, <2>1, <2>4 DEF Opening, Creating
    <3>3. QED
      BY <1>0, <2>1, <3>1, <3>2, PublicationsKept
  <2>5. QED
    BY <2>3, <2>4
<1>6. CASE UNCHANGED looseVars
  BY <1>1, <1>6 DEF looseVars, vars
<1>7. QED
  BY <1>2, <1>3, <1>4, <1>5, <1>6 DEF LooseNext

\* A variant is published again only after a fault, once for each, although a
\* lock may expire under its holder and a write may come late.
THEOREM LoosePublishedAgainAfterFaults == LooseSpec => []PublishedAgainOncePerFault
<1>1. LooseInit => PublicationsInv
  <2> SUFFICES ASSUME LooseInit, NEW i \in Images, NEW v \in Variants
               PROVE  Publications(i, v)
    BY DEF PublicationsInv
  <2>1. /\ publishes[i][v] = 0 /\ faults = 0 /\ late = {}
        /\ \A w \in Workers : pc[w] = "idle"
    BY DEF LooseInit, Init
  <2>2. Owing(i, v) = {} /\ LateOn(i) = {}
    BY <2>1 DEF Owing, LateOn
  <2>3. Risks(i, v) = {}
    BY <2>2 DEF Risks
  <2>4. OpeningCount(i) \in {0, 1}
    BY DEF OpeningCount
  <2>5. QED
    BY <2>1, <2>3, <2>4, FS_EmptySet DEF Publications, Balanced
<1>2. LooseInv /\ PublicationsInv /\ [LooseNext]_looseVars => PublicationsInv'
  BY PublicationsStep
<1>3. LooseInv /\ PublicationsInv => PublishedAgainOncePerFault
  <2> SUFFICES ASSUME LooseInv, PublicationsInv, NEW i \in Images, NEW v \in Variants
               PROVE  publishes[i][v] <= 1 + faults
    BY DEF PublishedAgainOncePerFault
  <2>1. publishes[i][v] \in Nat /\ faults \in Nat /\ OpeningCount(i) \in {0, 1}
    BY PublicationCounts DEF LooseInv, LooseTypeOK
  <2>2. /\ IsFiniteSet(Risks(i, v))
        /\ publishes[i][v] + Cardinality(Risks(i, v)) + OpeningCount(i) <= 1 + faults
    BY DEF PublicationsInv, Publications, Balanced
  <2>3. Cardinality(Risks(i, v)) \in Nat
    BY <2>2, FS_CardinalityType
  <2>4. QED
    BY <2>1, <2>2, <2>3
<1>4. QED
  BY <1>1, <1>2, <1>3, LooseInvariance, PTL DEF LooseSpec
=============================================================================
