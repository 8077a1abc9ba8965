--------------------------- MODULE ImageAPIProofs ---------------------------
(***************************************************************************)
(* The handlers, for any number of images, variants and workers, any       *)
(* requests and any number of faults: type correctness, no lost update,    *)
(* and the implementation of the atomic lifecycle, with all that was       *)
(* proved of it.                                                           *)
(***************************************************************************)
EXTENDS ImageAPI, ImageModelProofs

-----------------------------------------------------------------------------
(* The invariant                                                            *)

Creating(w) == req[w].op = "CreateImage"

\* The calls that a handler makes between AcquireImageLock and its return.
HasLock(w) ==
    \/ pc[w] \in {"read", "announce", "publish", "unlock"}
    \/ pc[w] = "write" /\ ~Creating(w)

\* A worker with a request serves one of Requests; a request that was not
\* refused at once passed its checks, a creation goes straight to the write,
\* and only an upload is announced.
RequestFits(w) ==
    /\ pc[w] # "idle" => req[w] \in Requests
    /\ pc[w] \in {"acquire", "read", "announce", "write"} => RequestError(req[w]) = NoError
    /\ pc[w] \in {"acquire", "read", "announce", "publish", "unlock"} => ~Creating(w)
    /\ pc[w] = "announce" => req[w].op = "UpdateImage" /\ req[w].state = "uploaded"
    /\ pc[w] = "publish" => req[w].op = "PublishImage"

\* The image lock has the worker that is between acquiring and releasing it,
\* and no other one.
HoldsOwn(w) == \A i \in Images : (lock[i] = w) <=> (HasLock(w) /\ req[w].image = i)

LockInv == \A w \in Workers : HoldsOwn(w)

\* No two creations in flight have the same id.
Inserting(w) == pc[w] = "write" /\ Creating(w)

FreshInv ==
    \A u, w \in Workers :
        (Inserting(u) /\ Inserting(w) /\ req[u].image = req[w].image) => u = w

\* Past the checks, the decision was made on the image in the store.
Decided(w) ==
    pc[w] \in {"announce", "write"} =>
        LET stored == db[req[w].image] IN
        IF Creating(w) THEN stored = NoImage
        ELSE /\ stored # NoImage
             /\ seen[w] = stored
             /\ ReadError(req[w], stored) = NoError

DecisionInv == \A w \in Workers : Decided(w)

IInv ==
    /\ TypeOK
    /\ \A w \in Workers : RequestFits(w)
    /\ LockInv
    /\ FreshInv
    /\ DecisionInv

-----------------------------------------------------------------------------
(* Requests, and the two decisions, operation by operation                  *)

\* The fields of a request that every handler, or the two download
\* handlers, rely on.
LEMMA RequestFields ==
  ASSUME NEW r \in Requests
  PROVE  /\ r # NoRequest
         /\ r.image \in Images
         /\ r.op \in {"CreateImage", "UpdateImage", "CreateDownload", "UpdateDownload",
                      "PublishImage"}
         /\ r.op \in {"CreateDownload", "UpdateDownload"} =>
               r.variant \in Variants /\ r.type \in Types \cup {NoType}
<1>1. r \in Request /\ r # NoRequest
  BY RequestAssumption
<1>2. QED
  BY <1>1 DEF Request, CreateImageRequest, UpdateImageRequest, CreateDownloadRequest,
              UpdateDownloadRequest, PublishImageRequest

\* The checks on the image that was read, handler by handler.
LEMMA ReadErrorValue ==
  ASSUME NEW r, NEW im
  PROVE  /\ r.op = "UpdateImage"    => ReadError(r, im) = UpdateImageError(im, r.state)
         /\ r.op = "CreateDownload" => ReadError(r, im) = CreateDownloadError(im, r.variant)
         /\ r.op = "UpdateDownload" =>
               ReadError(r, im) = UpdateDownloadError(im, r.variant, r.state, r.type)
         /\ r.op = "PublishImage"   => ReadError(r, im) = PublishImageError(im)
  BY Zenon DEF ReadError

\* Nothing is decided on an image that does not exist.
LEMMA MissingImage ==
  ASSUME NEW r \in Requests, r.op # "CreateImage"
  PROVE  ReadError(r, NoImage) # NoError
  BY RequestFields, ReadErrorValue
     DEF UpdateImageError, CreateDownloadError, UpdateDownloadError, PublishImageError, NoError

\* What each handler writes.
LEMMA WrittenValue ==
  ASSUME NEW r, NEW im, NEW stored
  PROVE  /\ r.op = "CreateImage"    => Written(r, im, stored) = NewImage
         /\ r.op = "UpdateImage"    => Written(r, im, stored) = SetState(stored, r.state)
         /\ r.op = "CreateDownload" =>
               Written(r, im, stored) = AddDownload(im, r.variant, r.type)
         /\ r.op = "UpdateDownload" =>
               Written(r, im, stored) = ReplaceDownload(im, r.variant, r.state, r.type)
         /\ r.op = "PublishImage"   =>
               Written(r, im, stored) = PublishDownloads(stored, VariantsOf(im))
  BY Zenon DEF Written

\* The state of a PUT that is not refused at once is a state.
LEMMA PutStateValid ==
  ASSUME NEW r, r.op = "UpdateImage", RequestError(r) = NoError
  PROVE  r.state \in ImageStates
<1>1. RequestError(r) = UpdateImageRequestError(r)
  BY Zenon DEF RequestError
<1>2. Validate(r) = NoError
  BY <1>1 DEF UpdateImageRequestError
<1>3. QED
  BY <1>2 DEF Validate, NoError

Answers == Errors \cup {NoError}

\* Whatever a check answers is one of the errors, or none.
LEMMA ErrorTypes ==
  ASSUME NEW r \in Requests, NEW im
  PROVE  /\ RequestError(r) \in Answers
         /\ r.op # "CreateImage" => ReadError(r, im) \in Answers
<1>1. \A up : ValidateUpload(up) \in Answers
  <2>1. \A up : ValidateUpload(up) \in {"ErrImageUploadEmpty", "ErrImageUploadPathEmpty", NoError}
    BY Zenon DEF ValidateUpload
  <2>2. QED
    BY <2>1 DEF Answers, Errors
<1>2. \A body : Validate(body) \in Answers
  BY <1>1 DEF Validate, Answers, Errors
<1>3. \A s : DownloadValidate(s) \in Answers
  BY DEF DownloadValidate, Answers, Errors
<1>4. /\ CreateImageRequestError(r) \in Answers
      /\ UpdateImageRequestError(r) \in Answers
      /\ CreateDownloadRequestError(r) \in Answers
      /\ UpdateDownloadRequestError(r) \in Answers
  BY <1>2, <1>3 DEF CreateImageRequestError, UpdateImageRequestError,
     CreateDownloadRequestError, UpdateDownloadRequestError, Answers, Errors
<1>5. /\ r.op = "CreateImage"    => RequestError(r) = CreateImageRequestError(r)
      /\ r.op = "UpdateImage"    => RequestError(r) = UpdateImageRequestError(r)
      /\ r.op = "CreateDownload" => RequestError(r) = CreateDownloadRequestError(r)
      /\ r.op = "UpdateDownload" => RequestError(r) = UpdateDownloadRequestError(r)
      /\ r.op = "PublishImage"   => RequestError(r) = NoError
  BY Zenon DEF RequestError
<1>6. RequestError(r) \in Answers
  BY <1>4, <1>5, RequestFields DEF Answers
<1>7. \A s, existing : ValidateTransitionFrom(s, existing) \in Answers
  BY DEF ValidateTransitionFrom, Answers, Errors
<1>8. ASSUME NEW s, NEW i PROVE ValidateForImage(s, i) \in Answers
  <2>1. \/ ValidateForImage(s, i) = "ErrImageNotImporting"
        \/ ValidateForImage(s, i) = "ErrImageAlreadyCompleted"
        \/ ValidateForImage(s, i) = "ErrImageNotPublished"
        \/ ValidateForImage(s, i) = NoError
    BY Zenon DEF ValidateForImage
  <2>2. QED
    BY <2>1 DEF Answers, Errors
<1>9. \A s, type, ed : DownloadValidateTransitionFrom(s, type, ed) \in Answers
  BY DEF DownloadValidateTransitionFrom, Answers, Errors
<1>10. /\ UpdateImageError(im, r.state) \in Answers
       /\ CreateDownloadError(im, r.variant) \in Answers
       /\ UpdateDownloadError(im, r.variant, r.state, r.type) \in Answers
       /\ PublishImageError(im) \in Answers
  BY <1>7, <1>8, <1>9
     DEF UpdateImageError, CreateDownloadError, UpdateDownloadError, PublishImageError,
         Answers, Errors
<1>11. r.op # "CreateImage" => ReadError(r, im) \in Answers
  BY <1>10, RequestFields, ReadErrorValue
<1>12. QED
  BY <1>6, <1>11

\* What a handler writes over the image it decided on is an image.
LEMMA WrittenType ==
  ASSUME NEW r \in Requests, RequestError(r) = NoError,
         NEW im \in Image \cup {NoImage},
         r.op # "CreateImage" => ReadError(r, im) = NoError
  PROVE  Written(r, im, im) \in Image
<1>1. CASE r.op = "CreateImage"
  BY <1>1, WrittenValue, NewImageType
<1>2. CASE r.op = "UpdateImage"
  <2>1. r.state \in ImageStates
    BY <1>2, PutStateValid
  <2>2. im \in Image
    BY <1>2, <2>1, ReadErrorValue, UpdateImageChecked
  <2>3. QED
    BY <1>2, <2>1, <2>2, WrittenValue, SetStateType
<1>3. CASE r.op = "CreateDownload"
  <2>1. r.variant \in Variants /\ r.type \in Types \cup {NoType}
    BY <1>3, RequestFields
  <2>2. CreateDownloadError(im, r.variant) = NoError
    BY <1>3, ReadErrorValue
  <2>3. im \in Image
    BY <2>1, <2>2, CreateDownloadChecked
  <2>4. AddDownload(im, r.variant, r.type) \in Image
    BY <2>1, <2>3, AddDownloadType
  <2>5. QED
    BY <1>3, <2>4, WrittenValue
<1>4. CASE r.op = "UpdateDownload"
  <2>1. r.variant \in Variants /\ r.type \in Types \cup {NoType}
    BY <1>4, RequestFields
  <2>2. UpdateDownloadError(im, r.variant, r.state, r.type) = NoError
    BY <1>4, ReadErrorValue
  <2>3. im \in Image /\ r.state \in DownloadStates
    BY <2>1, <2>2, UpdateDownloadChecked
  <2>4. ReplaceDownload(im, r.variant, r.state, r.type) \in Image
    BY <2>1, <2>3, ReplaceDownloadType
  <2>5. QED
    BY <1>4, <2>4, WrittenValue
<1>5. CASE r.op = "PublishImage"
  <2>1. im \in Image /\ VariantsOf(im) \in SUBSET Variants
    BY <1>5, ReadErrorValue, PublishImageChecked DEF VariantsOf
  <2>2. QED
    BY <1>5, <2>1, WrittenValue, PublishDownloadsType
<1>6. QED
  BY <1>1, <1>2, <1>3, <1>4, <1>5, RequestFields

\* Under the invariant, so is what the store is given.
LEMMA StoredType ==
  ASSUME IInv, NEW w \in Workers, pc[w] = "write"
  PROVE  /\ req[w] \in Requests
         /\ req[w].image \in Images
         /\ Written(req[w], seen[w], db[req[w].image]) \in Image
<1> DEFINE r == req[w]
           stored == db[r.image]
<1>1. r \in Requests /\ RequestError(r) = NoError
  BY DEF IInv, RequestFits
<1>2. r.image \in Images
  BY <1>1, RequestFields
<1>3. stored \in Image \cup {NoImage}
  BY <1>2 DEF IInv, TypeOK
<1>4. r.op # "CreateImage" => seen[w] = stored /\ ReadError(r, stored) = NoError
  BY DEF IInv, DecisionInv, Decided, Creating
<1>5. CASE r.op = "CreateImage"
  BY <1>1, <1>2, <1>5, WrittenValue, NewImageType
<1>6. CASE r.op # "CreateImage"
  BY <1>1, <1>2, <1>3, <1>4, <1>6, WrittenType
<1>7. QED
  BY <1>5, <1>6

-----------------------------------------------------------------------------
(* Each action keeps the types                                              *)

\* The number of faults stays within its bound.
LEMMA FaultType ==
  ASSUME faults \in 0..MaxFaults, Fault
  PROVE  faults' \in 0..MaxFaults
  BY FaultAssumption DEF Fault

\* A count that goes up by one stays a count.
LEMMA CountType ==
  ASSUME NEW S, NEW f \in [S -> Nat], NEW x \in S
  PROVE  [f EXCEPT ![x] = @ + 1] \in [S -> Nat]
  OBVIOUS

\* So does one of a count for each of two things.
LEMMA CountsType ==
  ASSUME NEW S, NEW T, NEW f \in [S -> [T -> Nat]], NEW x \in S, NEW y \in T
  PROVE  [f EXCEPT ![x][y] = @ + 1] \in [S -> [T -> Nat]]
<1>1. f[x] \in [T -> Nat]
  OBVIOUS
<1>2. [f[x] EXCEPT ![y] = @ + 1] \in [T -> Nat]
  BY <1>1, CountType
<1>3. QED
  BY <1>2

\* What a worker is about to store is an image.
Storable(w) == pc[w] = "write" => Written(req[w], seen[w], db[req[w].image]) \in Image

\* The store holds images after a write.
LEMMA WriteType ==
  ASSUME TypeOK, NEW w \in Workers, RequestFits(w), Storable(w), pc[w] = "write", Write(w)
  PROVE  db' \in [Images -> Image \cup {NoImage}]
<1>1. /\ req[w].image \in Images
      /\ Written(req[w], seen[w], db[req[w].image]) \in Image
  BY RequestFields DEF RequestFits, Storable
<1>2. db \in [Images -> Image \cup {NoImage}]
  BY DEF TypeOK
<1>3. QED
  BY <1>1, <1>2 DEF Write

\* Every step keeps the types: each action assigns each variable a value of
\* its own kind.
LEMMA TypeStep ==
  ASSUME TypeOK, \A w \in Workers : RequestFits(w) /\ Storable(w), [Next]_vars
  PROVE  TypeOK'
<1>0. /\ TypeOK
      /\ \A w \in Workers : pc[w] # "idle" => req[w] \in Requests /\ req[w].image \in Images
  BY RequestFields DEF RequestFits
<1> USE DEF TypeOK, PCs, Goto, Answer, Release, events, worker, Answers
<1>1. CASE UNCHANGED vars
  BY <1>0, <1>1 DEF vars
<1>2. ASSUME NEW w \in Workers, NEW r \in Requests, Receive(w, r) PROVE TypeOK'
  <2>1. /\ UNCHANGED <<db, lock, seen, todo, uploads, publishes, faults>>
        /\ req' = [req EXCEPT ![w] = r]
    BY <1>2 DEF Receive
  <2>2. \/ pc' = [pc EXCEPT ![w] = "reply"]
        \/ pc' = [pc EXCEPT ![w] = "write"]
        \/ pc' = [pc EXCEPT ![w] = "acquire"]
    BY <1>2 DEF Receive
  <2>3. pc' \in [Workers -> PCs]
    BY <1>0, <2>2
  <2>4. resp' = resp \/ resp' = [resp EXCEPT ![w] = RequestError(r)]
    BY <1>2 DEF Receive
  <2>5. RequestError(r) \in Errors \cup {NoError}
    BY ErrorTypes
  <2>6. resp' \in [Workers -> Errors \cup {NoError, ""}]
    BY <1>0, <2>4, <2>5
  <2>7. QED
    BY <1>0, <2>1, <2>3, <2>6
<1>3. ASSUME NEW w \in Workers, AcquireImageLock(w) PROVE TypeOK'
  BY <1>0, <1>3 DEF AcquireImageLock
<1>4. ASSUME NEW w \in Workers, GetImage(w) PROVE TypeOK'
  <2>1. ReadError(req[w], db[req[w].image]) \in Errors \cup {NoError}
    BY <1>0, <1>4, ErrorTypes DEF GetImage, RequestFits, Creating
  <2>2. db[req[w].image] \in Image \cup {NoImage}
    BY <1>0, <1>4 DEF GetImage
  <2>3. QED
    BY <1>0, <1>4, <2>1, <2>2 DEF GetImage
<1>5. ASSUME NEW w \in Workers, SendUploaded(w) PROVE TypeOK'
  <2>1. /\ req[w].image \in Images
        /\ uploads' = [uploads EXCEPT ![req[w].image] = @ + 1]
    BY <1>0, <1>5 DEF SendUploaded
  <2>2. uploads' \in [Images -> Nat]
    BY <1>0, <2>1, CountType
  <2>3. QED
    BY <1>0, <1>5, <2>2 DEF SendUploaded
<1>6. ASSUME NEW w \in Workers, StoreImage(w) PROVE TypeOK'
  <2>1. PublishEvents(req[w], seen[w]) \in SUBSET Variants
    BY DEF PublishEvents, VariantsOf
  <2>2. db' \in [Images -> Image \cup {NoImage}]
    BY <1>0, <1>6, WriteType DEF StoreImage
  <2>3. AfterWrite(req[w]) \in PCs
    BY DEF AfterWrite
  <2>4. todo' \in [Workers -> SUBSET Variants]
    BY <1>0, <1>6, <2>1 DEF StoreImage
  <2>5. /\ pc' \in [Workers -> PCs]
        /\ resp' \in [Workers -> Errors \cup {NoError, ""}]
    BY <1>0, <1>6, <2>3 DEF StoreImage
  <2>6. QED
    BY <1>0, <1>6, <2>2, <2>4, <2>5 DEF StoreImage
<1>7. ASSUME NEW w \in Workers, NEW v \in Variants, SendPublished(w, v) PROVE TypeOK'
  <2>1. /\ req[w].image \in Images
        /\ publishes' = [publishes EXCEPT ![req[w].image][v] = @ + 1]
    BY <1>0, <1>7 DEF SendPublished
  <2>2. publishes \in [Images -> [Variants -> Nat]]
    BY <1>0
  <2>3. publishes' \in [Images -> [Variants -> Nat]]
    <3> HIDE DEF TypeOK
    <3>1. QED
      BY <2>1, <2>2, CountsType
  <2>4. todo' \in [Workers -> SUBSET Variants]
    BY <1>0, <1>7 DEF SendPublished
  <2>5. /\ pc' \in [Workers -> PCs]
        /\ resp' \in [Workers -> Errors \cup {NoError, ""}]
    BY <1>0, <1>7 DEF SendPublished
  <2>6. QED
    BY <1>0, <1>7, <2>3, <2>4, <2>5 DEF SendPublished
<1>8. ASSUME NEW w \in Workers, UnlockImage(w) PROVE TypeOK'
  BY <1>0, <1>8 DEF UnlockImage, LeaveLock
<1>9. ASSUME NEW w \in Workers, Reply(w) PROVE TypeOK'
  BY <1>0, <1>9 DEF Reply
<1>10. ASSUME NEW w \in Workers, AcquireImageLockFails(w) PROVE TypeOK'
  BY <1>0, <1>10, FaultType DEF AcquireImageLockFails, Errors
<1>11. ASSUME NEW w \in Workers, GetImageFails(w) PROVE TypeOK'
  BY <1>0, <1>11, FaultType DEF GetImageFails, Errors
<1>12. ASSUME NEW w \in Workers, SendUploadedFails(w) PROVE TypeOK'
  BY <1>0, <1>12, FaultType DEF SendUploadedFails, Errors
<1>13. ASSUME NEW w \in Workers, StoreImageFails(w) PROVE TypeOK'
  <2>1. db' \in [Images -> Image \cup {NoImage}]
    BY <1>0, <1>13, WriteType DEF StoreImageFails
  <2>2. AfterWrite(req[w]) \in PCs
    BY DEF AfterWrite
  <2>3. QED
    BY <1>0, <1>13, <2>1, <2>2, FaultType DEF StoreImageFails, Errors
<1>14. ASSUME NEW w \in Workers, SendPublishedFails(w) PROVE TypeOK'
  BY <1>0, <1>14, FaultType DEF SendPublishedFails, Errors
<1>15. ASSUME NEW w \in Workers, UnlockImageFails(w) PROVE TypeOK'
  BY <1>0, <1>15, FaultType DEF UnlockImageFails, LeaveLock
<1>16. ASSUME NEW w \in Workers, Crash(w) PROVE TypeOK'
  BY <1>0, <1>16, FaultType DEF Crash
<1>17. ASSUME NEW i \in Images, ExpireLock(i) PROVE TypeOK'
  BY <1>0, <1>17 DEF ExpireLock
<1>18. QED
  BY <1>1, <1>2, <1>3, <1>4, <1>5, <1>6, <1>7, <1>8, <1>9, <1>10, <1>11, <1>12, <1>13,
     <1>14, <1>15, <1>16, <1>17 DEF Next, Progress, Failure

-----------------------------------------------------------------------------
(* What a step of one worker does to the others                             *)

OthersStay(w) ==
    \A u \in Workers \ {w} : pc'[u] = pc[u] /\ req'[u] = req[u] /\ seen'[u] = seen[u]

\* Three ways to treat the lock.  Drops covers a failed call that leaves a lock
\* which nobody has.
Keeps(w) ==
    /\ lock' = lock
    /\ HasLock(w)' <=> HasLock(w)
    /\ HasLock(w) => req'[w] = req[w]

Takes(w) ==
    /\ HasLock(w)'
    /\ ~HasLock(w)
    /\ req'[w] = req[w]
    /\ req[w].image \in Images
    /\ lock[req[w].image] = Free
    /\ lock' = [lock EXCEPT ![req[w].image] = w]

Drops(w) ==
    /\ ~HasLock(w)'
    /\ \A i \in Images :
          \/ lock[i] # w /\ lock'[i] = lock[i]
          \/ lock[i] \in {w, Free} /\ lock'[i] \in {Free, Orphan}

\* A worker that comes to insert an image is the only one with that id.
Inserts(w) ==
    Inserting(w)' => \A u \in Workers \ {w} : Inserting(u) => req[u].image # req'[w].image

Stores(w) == db' = db \/ (pc[w] = "write" /\ Write(w))

Summary(w) ==
    /\ OthersStay(w)
    /\ Keeps(w) \/ Takes(w) \/ Drops(w)
    /\ Inserts(w)
    /\ Stores(w)
    /\ RequestFits(w)'
    /\ Decided(w)'

\* The other workers still serve requests that fit their place.
LEMMA RequestStep ==
  ASSUME IInv, NEW w \in Workers, OthersStay(w), RequestFits(w)'
  PROVE  (\A u \in Workers : RequestFits(u))'
<1> SUFFICES ASSUME NEW u \in Workers, u # w PROVE RequestFits(u)'
  OBVIOUS
<1>1. RequestFits(u)
  BY DEF IInv
<1>2. pc'[u] = pc[u] /\ req'[u] = req[u]
  BY DEF OthersStay
<1>3. QED
  BY <1>1, <1>2 DEF RequestFits, Creating

\* Whatever a worker does with the lock, in one of the three ways, locks and
\* holders still correspond.
LEMMA LockStep ==
  ASSUME IInv, NEW w \in Workers, OthersStay(w), Keeps(w) \/ Takes(w) \/ Drops(w)
  PROVE  LockInv'
<1>0. /\ Free \notin Workers /\ Orphan \notin Workers
      /\ lock \in [Images -> Workers \cup {Free, Orphan}]
      /\ \A u \in Workers : HoldsOwn(u)
  BY LockAssumption DEF IInv, TypeOK, LockInv
<1>1. ASSUME NEW u \in Workers, u # w
      PROVE  (HasLock(u)' <=> HasLock(u)) /\ req'[u] = req[u]
  BY <1>1 DEF OthersStay, HasLock, Creating
<1>2. CASE Keeps(w)
  BY <1>0, <1>1, <1>2 DEF Keeps, LockInv, HoldsOwn
<1>3. CASE Takes(w)
  BY <1>0, <1>1, <1>3 DEF Takes, LockInv, HoldsOwn
<1>4. CASE Drops(w)
  BY <1>0, <1>1, <1>4 DEF Drops, LockInv, HoldsOwn
<1>5. QED
  BY <1>2, <1>3, <1>4

\* Two creations in flight still have different ids.
LEMMA FreshStep ==
  ASSUME IInv, NEW w \in Workers, OthersStay(w), Inserts(w)
  PROVE  FreshInv'
<1>1. \A u \in Workers \ {w} : (Inserting(u)' <=> Inserting(u)) /\ req'[u] = req[u]
  BY DEF OthersStay, Inserting, Creating
<1>2. QED
  BY <1>1 DEF IInv, FreshInv, Inserts

\* Nobody else is about to write the image that a worker writes.
LEMMA WritesAlone ==
  ASSUME IInv, NEW w \in Workers, pc[w] = "write",
         NEW u \in Workers \ {w}, pc[u] \in {"announce", "write"}
  PROVE  req[u].image # req[w].image
<1>1. /\ HoldsOwn(w) /\ HoldsOwn(u) /\ Decided(w) /\ Decided(u)
      /\ req[w].image \in Images
      /\ Creating(u) => pc[u] = "write"
  BY RequestFields DEF IInv, LockInv, DecisionInv, RequestFits
<1>2. CASE ~Creating(w) /\ ~Creating(u)
  BY <1>1, <1>2 DEF HoldsOwn, HasLock
<1>3. CASE Creating(w) /\ ~Creating(u)
  BY <1>1, <1>3 DEF Decided
<1>4. CASE ~Creating(w) /\ Creating(u)
  BY <1>1, <1>4 DEF Decided
<1>5. CASE Creating(w) /\ Creating(u)
  BY <1>1, <1>5 DEF IInv, FreshInv, Inserting
<1>6. QED
  BY <1>2, <1>3, <1>4, <1>5

\* A decision of another worker stays current: only a worker in its write
\* changes an image, and it is the only one about to write that image.
LEMMA DecisionStep ==
  ASSUME IInv, NEW w \in Workers, OthersStay(w), Stores(w), Decided(w)'
  PROVE  DecisionInv'
<1> SUFFICES ASSUME NEW u \in Workers, u # w PROVE Decided(u)'
  BY DEF DecisionInv
<1>1. Decided(u)
  BY DEF IInv, DecisionInv
<1>2. pc'[u] = pc[u] /\ req'[u] = req[u] /\ seen'[u] = seen[u]
  BY DEF OthersStay
<1>3. CASE db' = db
  BY <1>1, <1>2, <1>3 DEF Decided, Creating
<1>4. CASE pc[w] = "write" /\ Write(w)
  <2>1. pc[u] \in {"announce", "write"} => req[u].image # req[w].image
    BY <1>4, WritesAlone
  <2>2. pc[u] \in {"announce", "write"} => req[u].image \in Images
    BY RequestFields DEF IInv, RequestFits
  <2>3. pc[u] \in {"announce", "write"} => db'[req[u].image] = db[req[u].image]
    BY <1>4, <2>1, <2>2 DEF Write, IInv, TypeOK
  <2>4. QED
    BY <1>1, <1>2, <2>3 DEF Decided, Creating
<1>5. QED
  BY <1>3, <1>4 DEF Stores

\* A step of no worker that takes no lock from a worker, and gives it none.
LEMMA QuietStep ==
  ASSUME IInv, UNCHANGED <<db, pc, req, seen>>,
         \A i \in Images : \A w \in Workers : lock'[i] = w <=> lock[i] = w
  PROVE  (/\ \A w \in Workers : RequestFits(w)
          /\ LockInv
          /\ FreshInv
          /\ DecisionInv)'
<1>1. ASSUME NEW w \in Workers
      PROVE  /\ RequestFits(w)'
             /\ HoldsOwn(w)'
             /\ Decided(w)'
             /\ Inserting(w)' <=> Inserting(w)
  <2>1. RequestFits(w) /\ HoldsOwn(w) /\ Decided(w)
    BY DEF IInv, LockInv, DecisionInv
  <2>2. (HasLock(w)' <=> HasLock(w)) /\ (Inserting(w)' <=> Inserting(w))
    BY DEF HasLock, Inserting, Creating
  <2>3. HoldsOwn(w)'
    BY <2>1, <2>2 DEF HoldsOwn
  <2>4. Decided(w)'
    BY <2>1 DEF Decided, Creating
  <2>5. RequestFits(w)'
    BY <2>1 DEF RequestFits, Creating
  <2>6. QED
    BY <2>2, <2>3, <2>4, <2>5
<1>2. QED
  BY <1>1 DEF IInv, LockInv, FreshInv, DecisionInv

\* Every action of a worker is of that kind: it leaves the other workers
\* alone, treats the lock in one of the three ways, changes an image only in
\* its write, and decides on what it read.
LEMMA WorkerSummary ==
  ASSUME IInv, NEW w \in Workers
  PROVE  /\ \A r \in Requests : Receive(w, r) => Summary(w)
         /\ AcquireImageLock(w) => Summary(w)
         /\ Progress(w) => Summary(w)
         /\ Failure(w) => Summary(w)
<1>0. /\ TypeOK
      /\ RequestFits(w)
      /\ HoldsOwn(w)
      /\ Decided(w)
      /\ pc[w] # "idle" => req[w].image \in Images
  BY RequestFields DEF IInv, LockInv, DecisionInv, RequestFits
<1> USE DEF Summary, OthersStay, Inserts, Inserting, Stores, Keeps, Takes, Drops, HasLock,
            Decided, TypeOK, RequestFits, HoldsOwn, Goto, Release, Creating, worker
<1>1. ASSUME NEW r \in Requests, Receive(w, r) PROVE Summary(w)
  <2>1. r.image \in Images
    BY RequestFields
  <2>2. /\ pc[w] = "idle"
        /\ pc'[w] \in {"reply", "write", "acquire"}
        /\ pc'[w] = "write" => Fresh(r.image) /\ r.op = "CreateImage"
        /\ req'[w] = r
        /\ UNCHANGED <<db, lock>>
    BY <1>0, <1>1 DEF Receive
  <2>3. OthersStay(w)
    BY <1>0, <1>1 DEF Receive
  <2>4. Keeps(w) /\ Stores(w)
    BY <2>2
  <2>5. pc'[w] = "write" =>
           /\ db[r.image] = NoImage
           /\ \A u \in Workers \ {w} : Inserting(u) => req[u].image # r.image
    <3>1. \A u \in Workers : Inserting(u) => req[u] # NoRequest
      BY RequestFields DEF IInv
    <3>2. QED
      BY <2>2, <3>1 DEF Fresh
  <2>6. Inserts(w) /\ Decided(w)'
    BY <2>2, <2>5
  <2>7. /\ pc'[w] \in {"acquire", "write"} => RequestError(r) = NoError
        /\ pc'[w] = "acquire" => r.op # "CreateImage"
    BY <1>0, <1>1 DEF Receive
  <2>8. RequestFits(w)'
    BY <2>2, <2>7
  <2>9. QED
    BY <2>3, <2>4, <2>6, <2>8
<1>2. ASSUME AcquireImageLock(w) PROVE Summary(w)
  BY <1>0, <1>2 DEF AcquireImageLock
<1>3. ASSUME GetImage(w) PROVE Summary(w)
  <2>1. /\ req[w] \in Requests /\ req[w].op # "CreateImage"
        /\ ReadError(req[w], db[req[w].image]) = NoError => db[req[w].image] # NoImage
    BY <1>0, <1>3, MissingImage DEF GetImage
  <2>2. QED
    BY <1>0, <1>3, <2>1 DEF GetImage
<1>4. ASSUME SendUploaded(w) PROVE Summary(w)
  BY <1>0, <1>4 DEF SendUploaded
<1>5. ASSUME StoreImage(w) PROVE Summary(w)
  BY <1>0, <1>5 DEF StoreImage, AfterWrite, PublishEvents
<1>6. ASSUME NEW v \in Variants, SendPublished(w, v) PROVE Summary(w)
  BY <1>0, <1>6 DEF SendPublished
<1>7. ASSUME UnlockImage(w) PROVE Summary(w)
  BY <1>0, <1>7 DEF UnlockImage, LeaveLock
<1>8. ASSUME Reply(w) PROVE Summary(w)
  BY <1>0, <1>8 DEF Reply
<1>9. ASSUME AcquireImageLockFails(w) PROVE Summary(w)
  BY <1>0, <1>9 DEF AcquireImageLockFails
<1>10. ASSUME GetImageFails(w) PROVE Summary(w)
  BY <1>0, <1>10 DEF GetImageFails
<1>11. ASSUME SendUploadedFails(w) PROVE Summary(w)
  BY <1>0, <1>11 DEF SendUploadedFails
<1>12. ASSUME StoreImageFails(w) PROVE Summary(w)
  BY <1>0, <1>12 DEF StoreImageFails, AfterWrite, PublishEvents
<1>13. ASSUME SendPublishedFails(w) PROVE Summary(w)
  BY <1>0, <1>13 DEF SendPublishedFails
<1>14. ASSUME UnlockImageFails(w) PROVE Summary(w)
  BY <1>0, <1>14 DEF UnlockImageFails, LeaveLock
<1>15. ASSUME Crash(w) PROVE Summary(w)
  BY <1>0, <1>15 DEF Crash
<1>16. QED
  BY <1>1, <1>2, <1>3, <1>4, <1>5, <1>6, <1>7, <1>8, <1>9, <1>10, <1>11, <1>12, <1>13,
     <1>14, <1>15 DEF Progress, Failure

\* At the start no worker has a request and no image a lock.
LEMMA InitInv ==
  ASSUME Init
  PROVE  IInv
<1>1. \A w \in Workers : pc[w] = "idle"
  BY DEF Init
<1>2. \A i \in Images : \A w \in Workers : lock[i] # w
  BY LockAssumption DEF Init
<1>3. publishes \in [Images -> [Variants -> Nat]] /\ uploads \in [Images -> Nat]
  BY DEF Init
<1>4. /\ db \in [Images -> Image \cup {NoImage}]
      /\ lock \in [Images -> Workers \cup {Free, Orphan}]
      /\ pc \in [Workers -> PCs]
      /\ req \in [Workers -> Requests \cup {NoRequest}]
      /\ seen \in [Workers -> Image \cup {NoImage}]
      /\ todo \in [Workers -> SUBSET Variants]
      /\ resp \in [Workers -> Errors \cup {NoError, ""}]
  BY DEF Init, PCs
<1>5. faults \in 0..MaxFaults
  <2>1. faults = 0
    BY DEF Init
  <2>2. QED
    BY <2>1, FaultAssumption
<1>6. TypeOK
  BY <1>3, <1>4, <1>5 DEF TypeOK
<1>7. LockInv
  BY <1>1, <1>2 DEF LockInv, HoldsOwn, HasLock
<1>8. FreshInv /\ DecisionInv /\ \A w \in Workers : RequestFits(w)
  BY <1>1 DEF FreshInv, Inserting, DecisionInv, Decided, RequestFits
<1>9. QED
  BY <1>6, <1>7, <1>8 DEF IInv

\* The invariant is inductive.
THEOREM Invariance == Spec => []IInv
<1>1. Init => IInv
  BY InitInv
<1>2. IInv /\ [Next]_vars => IInv'
  <2> SUFFICES ASSUME IInv, [Next]_vars PROVE IInv'
    OBVIOUS
  <2> DEFINE Rest == (\A w \in Workers : RequestFits(w)) /\ LockInv /\ FreshInv /\ DecisionInv
  <2>1. TypeOK'
    <3>1. \A w \in Workers : RequestFits(w) /\ Storable(w)
      BY StoredType DEF IInv, Storable
    <3>2. QED
      BY <3>1, TypeStep DEF IInv
  <2>2. ASSUME NEW w \in Workers, Summary(w) PROVE Rest'
    BY <2>2, RequestStep, LockStep, FreshStep, DecisionStep DEF Summary
  <2>3. ASSUME NEW i \in Images, ExpireLock(i) PROVE Rest'
    <3>1. \A j \in Images : \A w \in Workers : lock'[j] = w <=> lock[j] = w
      BY <2>3, LockAssumption DEF ExpireLock, IInv, TypeOK
    <3>2. UNCHANGED <<db, pc, req, seen>>
      BY <2>3 DEF ExpireLock, worker
    <3>3. QED
      BY <3>1, <3>2, QuietStep
  <2>4. ASSUME UNCHANGED vars PROVE Rest'
    BY <2>4, QuietStep DEF vars
  <2> HIDE DEF Rest
  <2>5. Rest'
    BY <2>2, <2>3, <2>4, WorkerSummary DEF Next
  <2>6. QED
    BY <2>1, <2>5 DEF IInv, Rest
<1>3. QED
  BY <1>1, <1>2, PTL DEF Spec

\* The variables of the handlers keep their types.
THEOREM TypeCorrect == Spec => []TypeOK
<1>1. IInv => TypeOK
  BY DEF IInv
<1>2. QED
  BY <1>1, Invariance, PTL

\* No update is lost.
THEOREM NoLostUpdate == Spec => []DecisionIsCurrent
<1>1. IInv => DecisionIsCurrent
  BY DEF IInv, DecisionInv, Decided, Creating, DecisionIsCurrent
<1>2. QED
  BY <1>1, Invariance, PTL

-----------------------------------------------------------------------------
(* The handlers implement the lifecycle                                     *)

\* The operators of ImageModel mean the same in the instance of the lifecycle.
LEMMA SameDecisions ==
  ASSUME NEW im, NEW s, NEW v, NEW type
  PROVE  /\ Lifecycle!NoError = NoError
         /\ Lifecycle!UpdateImageError(im, s) = UpdateImageError(im, s)
         /\ Lifecycle!CreateDownloadError(im, v) = CreateDownloadError(im, v)
         /\ Lifecycle!UpdateDownloadError(im, v, s, type) = UpdateDownloadError(im, v, s, type)
         /\ Lifecycle!PublishImageError(im) = PublishImageError(im)
<1>1. \A a, b : Lifecycle!TransitionAllowed(a, b) = TransitionAllowed(a, b)
  BY Zenon DEF TransitionAllowed, Lifecycle!TransitionAllowed
<1>2. \A a, b : Lifecycle!StateTransitionAllowed(a, b) = StateTransitionAllowed(a, b)
  BY <1>1, Zenon DEF StateTransitionAllowed, Lifecycle!StateTransitionAllowed,
     ImageStates, Lifecycle!ImageStates
<1>3. \A a, b : Lifecycle!DownloadTransitionAllowed(a, b) = DownloadTransitionAllowed(a, b)
  BY Zenon DEF DownloadTransitionAllowed, Lifecycle!DownloadTransitionAllowed
<1>4. \A a, b : Lifecycle!DownloadStateTransitionAllowed(a, b) = DownloadStateTransitionAllowed(a, b)
  BY <1>3, Zenon DEF DownloadStateTransitionAllowed, Lifecycle!DownloadStateTransitionAllowed,
     DownloadStates, Lifecycle!DownloadStates
<1>5. Lifecycle!NoError = NoError
  BY DEF NoError, Lifecycle!NoError
<1>6. \A a, b : Lifecycle!ValidateForImage(a, b) = ValidateForImage(a, b)
  BY <1>5, Zenon DEF ValidateForImage, Lifecycle!ValidateForImage
<1>7. \A a, b : Lifecycle!ValidateTransitionFrom(a, b) = ValidateTransitionFrom(a, b)
  BY <1>2, <1>5, Zenon DEF ValidateTransitionFrom, Lifecycle!ValidateTransitionFrom
<1>8. \A a, b, c : Lifecycle!DownloadValidateTransitionFrom(a, b, c)
                      = DownloadValidateTransitionFrom(a, b, c)
  BY <1>4, <1>5, Zenon
     DEF DownloadValidateTransitionFrom, Lifecycle!DownloadValidateTransitionFrom
<1>9. Lifecycle!UpdateImageError(im, s) = UpdateImageError(im, s)
  BY <1>7, Zenon DEF UpdateImageError, Lifecycle!UpdateImageError
<1>10. Lifecycle!CreateDownloadError(im, v) = CreateDownloadError(im, v)
  BY <1>5, <1>6, Zenon DEF CreateDownloadError, Lifecycle!CreateDownloadError
<1>11. Lifecycle!UpdateDownloadError(im, v, s, type) = UpdateDownloadError(im, v, s, type)
  BY <1>5, <1>6, <1>8, Zenon DEF UpdateDownloadError, Lifecycle!UpdateDownloadError
<1>12. Lifecycle!PublishImageError(im) = PublishImageError(im)
  BY <1>2, <1>5, Zenon DEF PublishImageError, Lifecycle!PublishImageError
<1>13. QED
  BY <1>5, <1>9, <1>10, <1>11, <1>12

\* So do the operators that compute what is written.
LEMMA SameWrites ==
  ASSUME NEW im, NEW s, NEW v, NEW type, NEW vs
  PROVE  /\ Lifecycle!NewImage = NewImage
         /\ Lifecycle!SetState(im, s) = SetState(im, s)
         /\ Lifecycle!AddDownload(im, v, type) = AddDownload(im, v, type)
         /\ Lifecycle!ReplaceDownload(im, v, s, type) = ReplaceDownload(im, v, s, type)
         /\ Lifecycle!PublishDownloads(im, vs) = PublishDownloads(im, vs)
         /\ Lifecycle!VariantsOf(im) = VariantsOf(im)
<1>1. \A a : Lifecycle!VariantsOf(a) = VariantsOf(a)
  BY Zenon DEF VariantsOf, Lifecycle!VariantsOf
<1>2. \A a, b : /\ Lifecycle!AllDownloadsOfState(a, b) = AllDownloadsOfState(a, b)
               /\ Lifecycle!AnyDownloadsOfState(a, b) = AnyDownloadsOfState(a, b)
  BY <1>1, Zenon DEF AllDownloadsOfState, Lifecycle!AllDownloadsOfState,
     AnyDownloadsOfState, Lifecycle!AnyDownloadsOfState
<1>3. \A a : Lifecycle!UpdatedState(a) = UpdatedState(a)
  BY <1>2, Zenon DEF UpdatedState, Lifecycle!UpdatedState
<1>4. Lifecycle!NewImage = NewImage
  BY Zenon DEF NewImage, Lifecycle!NewImage
<1>5. Lifecycle!SetState(im, s) = SetState(im, s)
  BY Zenon DEF SetState, Lifecycle!SetState
<1>6. Lifecycle!AddDownload(im, v, type) = AddDownload(im, v, type)
  BY Zenon DEF AddDownload, Lifecycle!AddDownload
<1>7. Lifecycle!ReplaceDownload(im, v, s, type) = ReplaceDownload(im, v, s, type)
  BY <1>3, Zenon DEF ReplaceDownload, Lifecycle!ReplaceDownload
<1>8. Lifecycle!PublishDownloads(im, vs) = PublishDownloads(im, vs)
  BY Zenon DEF PublishDownloads, Lifecycle!PublishDownloads
<1>9. QED
  BY <1>1, <1>4, <1>5, <1>6, <1>7, <1>8

\* A write is the request's step of the lifecycle: the decision was made on
\* the image that the write meets.
LEMMA WriteImplements ==
  ASSUME IInv, NEW w \in Workers, pc[w] = "write", Write(w)
  PROVE  Lifecycle!Next
<1> DEFINE r == req[w]
           i == r.image
           im == db[i]
<1>1. /\ r \in Requests /\ i \in Images /\ RequestError(r) = NoError
      /\ r.op \in {"CreateImage", "UpdateImage", "CreateDownload", "UpdateDownload",
                   "PublishImage"}
      /\ r.op \in {"CreateDownload", "UpdateDownload"} =>
            r.variant \in Variants /\ r.type \in Types \cup {NoType}
  BY RequestFields DEF IInv, RequestFits
<1>2. /\ r.op = "CreateImage" => im = NoImage
      /\ r.op # "CreateImage" => seen[w] = im /\ ReadError(r, im) = NoError
      /\ im \in Image \cup {NoImage}
  BY <1>1 DEF IInv, DecisionInv, Decided, Creating, TypeOK
<1>3. db' = [db EXCEPT ![i] = Written(r, seen[w], im)]
  BY DEF Write
<1> SUFFICES \/ Lifecycle!CreateImage(i)
             \/ \E s \in ClientPutStates : Lifecycle!UpdateImage(i, s)
             \/ \E v \in Variants, type \in Types \cup {NoType} :
                   Lifecycle!CreateDownload(i, v, type)
             \/ \E v \in Variants, s \in DownloadStates, type \in Types \cup {NoType} :
                   Lifecycle!UpdateDownload(i, v, s, type)
             \/ Lifecycle!PublishImage(i)
  BY <1>1, Zenon DEF Lifecycle!Next, DownloadStates, Lifecycle!DownloadStates
<1> HIDE DEF r, i, im
<1>4. CASE r.op = "CreateImage"
  <2>1. db' = [db EXCEPT ![i] = NewImage]
    BY <1>3, <1>4, WrittenValue
  <2>2. Lifecycle!CreateImage(i)
    BY <1>2, <1>4, <2>1, SameWrites DEF Lifecycle!CreateImage, im
  <2>3. QED
    BY <2>2
<1>5. CASE r.op = "UpdateImage"
  <2>1. r.state \in ClientPutStates
    BY <1>1, <1>5, PutStateValid DEF ClientPutStates
  <2>2. UpdateImageError(im, r.state) = NoError
    BY <1>2, <1>5, ReadErrorValue
  <2>3. db' = [db EXCEPT ![i] = SetState(im, r.state)]
    BY <1>3, <1>5, WrittenValue
  <2>4. Lifecycle!UpdateImage(i, r.state)
    BY <2>2, <2>3, SameDecisions, SameWrites DEF Lifecycle!UpdateImage, im
  <2>5. QED
    BY <2>1, <2>4
<1>6. CASE r.op = "CreateDownload"
  <2>1. CreateDownloadError(im, r.variant) = NoError
    BY <1>2, <1>6, ReadErrorValue
  <2>2. db' = [db EXCEPT ![i] = AddDownload(im, r.variant, r.type)]
    BY <1>2, <1>3, <1>6, WrittenValue
  <2>3. Lifecycle!CreateDownload(i, r.variant, r.type)
    BY <2>1, <2>2, SameDecisions, SameWrites DEF Lifecycle!CreateDownload, im
  <2>4. QED
    BY <1>1, <1>6, <2>3
<1>7. CASE r.op = "UpdateDownload"
  <2>1. UpdateDownloadError(im, r.variant, r.state, r.type) = NoError
    BY <1>2, <1>7, ReadErrorValue
  <2>2. r.state \in DownloadStates
    BY <1>1, <1>2, <1>7, <2>1, UpdateDownloadChecked
  <2>3. db' = [db EXCEPT ![i] = ReplaceDownload(im, r.variant, r.state, r.type)]
    BY <1>2, <1>3, <1>7, WrittenValue
  <2>4. Lifecycle!UpdateDownloadError(im, r.variant, r.state, r.type) = Lifecycle!NoError
    BY <2>1, SameDecisions
  <2>5. db' = [db EXCEPT ![i] = Lifecycle!ReplaceDownload(im, r.variant, r.state, r.type)]
    BY <2>3, SameWrites
  <2>6. Lifecycle!UpdateDownload(i, r.variant, r.state, r.type)
    BY <2>4, <2>5, Zenon DEF Lifecycle!UpdateDownload, im
  <2>7. QED
    BY <1>1, <1>7, <2>2, <2>6
<1>8. CASE r.op = "PublishImage"
  <2>1. PublishImageError(im) = NoError
    BY <1>2, <1>8, ReadErrorValue
  <2>2. db' = [db EXCEPT ![i] = PublishDownloads(im, VariantsOf(im))]
    <3>1. Written(r, im, im) = PublishDownloads(im, VariantsOf(im))
      BY <1>8, WrittenValue, Zenon
    <3>2. seen[w] = im
      BY <1>2, <1>8
    <3>3. QED
      BY <1>3, <3>1, <3>2
  <2>3. Lifecycle!PublishImage(i)
    BY <2>1, <2>2, SameDecisions, SameWrites DEF Lifecycle!PublishImage, im
  <2>4. QED
    BY <2>3
<1>9. QED
  BY <1>1, <1>4, <1>5, <1>6, <1>7, <1>8

\* Each request takes effect in one step, on the image as it then is, or not
\* at all: the other steps of its handler change no image.
THEOREM Implements == Spec => ImplementsLifecycle
<1>1. Init => Lifecycle!Init
  BY DEF Init, Lifecycle!Init
<1>2. IInv /\ [Next]_vars => [Lifecycle!Next]_Lifecycle!vars
  <2> SUFFICES ASSUME IInv, [Next]_vars PROVE Lifecycle!Next \/ db' = db
    BY DEF Lifecycle!vars
  <2>1. ASSUME NEW w \in Workers, Summary(w) PROVE Lifecycle!Next \/ db' = db
    BY <2>1, WriteImplements DEF Summary, Stores
  <2>2. ASSUME NEW i \in Images, ExpireLock(i) PROVE db' = db
    BY <2>2 DEF ExpireLock
  <2>3. CASE UNCHANGED vars
    BY <2>3 DEF vars
  <2>4. QED
    BY <2>1, <2>2, <2>3, WorkerSummary DEF Next
<1>3. QED
  BY <1>1, <1>2, Invariance, PTL DEF Spec, ImplementsLifecycle, Lifecycle!Spec

-----------------------------------------------------------------------------
(* What the lifecycle promises, the handlers keep                           *)

LP == INSTANCE ImageLifecycleProofs WITH PutStates <- ClientPutStates

\* What the proofs of the lifecycle assume holds here.
LEMMA LifecycleAssumptions == LP!SentinelAssumption /\ LP!PutStatesAssumption
  BY SentinelAssumption
     DEF LP!SentinelAssumption, LP!PutStatesAssumption, ClientPutStates,
         LP!ImageStates, ImageStates, LP!Download, Download, LP!DownloadStates,
         DownloadStates, LP!Image, Image

\* The lifecycle that the handlers implement is the one of those proofs.
LEMMA SameLifecycle == Lifecycle!Spec => LP!Spec
<1>1. Lifecycle!Next = LP!Next
  BY DEF Lifecycle!Next, LP!Next, Lifecycle!Init, LP!Init, Lifecycle!vars, LP!vars,
         Lifecycle!CreateImage, LP!CreateImage, Lifecycle!UpdateImage, LP!UpdateImage,
         Lifecycle!CreateDownload, LP!CreateDownload, Lifecycle!UpdateDownload,
         LP!UpdateDownload, Lifecycle!PublishImage, LP!PublishImage, Lifecycle!NewImage,
         LP!NewImage, Lifecycle!SetState, LP!SetState, Lifecycle!AddDownload,
         LP!AddDownload, Lifecycle!ReplaceDownload, LP!ReplaceDownload,
         Lifecycle!PublishDownloads, LP!PublishDownloads, Lifecycle!UpdatedState,
         LP!UpdatedState, Lifecycle!AllDownloadsOfState, LP!AllDownloadsOfState,
         Lifecycle!AnyDownloadsOfState, LP!AnyDownloadsOfState, Lifecycle!VariantsOf,
         LP!VariantsOf, Lifecycle!UpdateImageError, LP!UpdateImageError,
         Lifecycle!CreateDownloadError, LP!CreateDownloadError,
         Lifecycle!UpdateDownloadError, LP!UpdateDownloadError,
         Lifecycle!PublishImageError, LP!PublishImageError,
         Lifecycle!ValidateTransitionFrom, LP!ValidateTransitionFrom,
         Lifecycle!DownloadValidateTransitionFrom, LP!DownloadValidateTransitionFrom,
         Lifecycle!ValidateForImage, LP!ValidateForImage, Lifecycle!StateTransitionAllowed,
         LP!StateTransitionAllowed, Lifecycle!TransitionAllowed, LP!TransitionAllowed,
         Lifecycle!DownloadStateTransitionAllowed, LP!DownloadStateTransitionAllowed,
         Lifecycle!DownloadTransitionAllowed, LP!DownloadTransitionAllowed,
         Lifecycle!ImageStates, LP!ImageStates, Lifecycle!DownloadStates,
         LP!DownloadStates, Lifecycle!NoError, LP!NoError
<1>2. Lifecycle!Init => LP!Init
  BY DEF Lifecycle!Init, LP!Init
<1>3. [Lifecycle!Next]_Lifecycle!vars => [LP!Next]_LP!vars
  BY <1>1 DEF Lifecycle!vars, LP!vars
<1>4. QED
  BY <1>2, <1>3, PTL DEF Lifecycle!Spec, LP!Spec

\* Among concurrent handlers that fail and die anywhere, the state of an image
\* is never behind its variants.
THEOREM HandlersFitState == Spec => []Lifecycle!DownloadsFitState
<1>1. LP!Spec => []LP!DownloadsFitState
  BY LP!DownloadsFit, LifecycleAssumptions, PTL
     DEF LP!SentinelAssumption, LP!PutStatesAssumption
<1>2. LP!DownloadsFitState => Lifecycle!DownloadsFitState
  BY DEF LP!DownloadsFitState, Lifecycle!DownloadsFitState, LP!Stored, Lifecycle!Stored,
     LP!ImportingIsUpToDate, Lifecycle!ImportingIsUpToDate,
     LP!PublishingIsUpToDate, Lifecycle!PublishingIsUpToDate,
     LP!AnyDownloadsOfState, Lifecycle!AnyDownloadsOfState,
     LP!AllDownloadsOfState, Lifecycle!AllDownloadsOfState,
     LP!VariantsOf, Lifecycle!VariantsOf
<1>3. QED
  BY <1>1, <1>2, Implements, SameLifecycle, PTL DEF ImplementsLifecycle

\* Nor do they take an image back or lose a variant.
THEOREM HandlersNeverGoBack == Spec => Lifecycle!NeverGoesBack
<1>1. LP!Spec => LP!NeverGoesBack
  BY LP!NothingGoesBack, LifecycleAssumptions, PTL
     DEF LP!SentinelAssumption, LP!PutStatesAssumption
<1>2. LP!NeverGoesBack => Lifecycle!NeverGoesBack
  BY PTL DEF LP!NeverGoesBack, Lifecycle!NeverGoesBack, LP!Stored, Lifecycle!Stored,
     LP!VariantsOf, Lifecycle!VariantsOf, LP!Rank, Lifecycle!Rank, LP!vars, Lifecycle!vars
<1>3. QED
  BY <1>1, <1>2, Implements, SameLifecycle, PTL DEF ImplementsLifecycle

\* Clients that leave importing, imported, published, completed and
\* failed_publish to the API.
ImporterClients == ClientPutStates \subseteq {"created", "uploaded", "failed_import", "deleted"}

\* Then the variants of an image justify its state, whatever requests meet.
THEOREM HandlersBackState ==
  ASSUME ImporterClients
  PROVE  Spec => []Lifecycle!VariantsBackState
<1>1. ClientPutStates \subseteq LP!ImporterStates
  BY ImporterClients DEF ImporterClients, LP!ImporterStates
<1>2. LP!Spec => []LP!VariantsBackState
  BY <1>1, LP!VariantsBack, LifecycleAssumptions, PTL
     DEF LP!SentinelAssumption, LP!PutStatesAssumption
<1>3. LP!VariantsBackState => Lifecycle!VariantsBackState
  BY DEF LP!VariantsBackState, Lifecycle!VariantsBackState, LP!Stored, Lifecycle!Stored,
     LP!VariantsOf, Lifecycle!VariantsOf
<1>4. QED
  BY <1>2, <1>3, Implements, SameLifecycle, PTL DEF ImplementsLifecycle

\* A variant takes only steps of its table, and an image becomes imported only
\* with all its variants.
THEOREM HandlersFollowTables ==
  ASSUME ImporterClients
  PROVE  Spec => Lifecycle!DownloadsFollowTable /\ Lifecycle!ImportedOnlyWhenAllImported
<1>1. ClientPutStates \subseteq LP!ImporterStates
  BY ImporterClients DEF ImporterClients, LP!ImporterStates
<1>2. LP!Spec => LP!DownloadsFollowTable /\ LP!ImportedOnlyWhenAllImported
  BY <1>1, LP!TableFollowed, LP!ImportedWithAll, LifecycleAssumptions, PTL
     DEF LP!SentinelAssumption, LP!PutStatesAssumption
<1>3. LP!DownloadsFollowTable => Lifecycle!DownloadsFollowTable
  BY PTL DEF LP!DownloadsFollowTable, Lifecycle!DownloadsFollowTable, LP!Stored,
     Lifecycle!Stored, LP!VariantsOf, Lifecycle!VariantsOf, LP!vars, Lifecycle!vars,
     LP!DownloadTransitionAllowed, Lifecycle!DownloadTransitionAllowed
<1>4. LP!ImportedOnlyWhenAllImported => Lifecycle!ImportedOnlyWhenAllImported
  BY PTL DEF LP!ImportedOnlyWhenAllImported, Lifecycle!ImportedOnlyWhenAllImported,
     LP!Stored, Lifecycle!Stored, LP!VariantsOf, Lifecycle!VariantsOf, LP!vars,
     Lifecycle!vars
<1>5. QED
  BY <1>2, <1>3, <1>4, Implements, SameLifecycle, PTL DEF ImplementsLifecycle
=============================================================================
