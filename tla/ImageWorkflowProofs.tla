------------------------ MODULE ImageWorkflowProofs ------------------------
(***************************************************************************)
(* The handlers among their clients, for any number of images, variants    *)
(* and workers and any number of faults: whatever was proved of the        *)
(* handlers for any clients holds for these, and an importer that plans    *)
(* all variants before it reports on any leaves none of them behind.       *)
(***************************************************************************)
EXTENDS ImageWorkflow, ImageEventsProofs

\* The clients only choose when to send which request, and the way of an event
\* to them is no step of a handler.
LEMMA HandlerSteps == [WorkflowNext]_workflowVars => [HandlersNext]_vars
  BY DEF WorkflowNext, workflowVars, Deliver, LoseEvents

LEMMA ClientsAreClients == WorkflowSpec => Spec
<1>1. [HandlersNext]_vars => [Next]_vars
  BY DEF HandlersNext, Send, Next
<1>2. QED
  BY <1>1, HandlerSteps, PTL DEF WorkflowSpec, WorkflowInit, Spec

-----------------------------------------------------------------------------
(* What writes do to the variants of an image                               *)

\* No write drops a variant.
LEMMA WriteKeepsVariants ==
  ASSUME NEW r \in Requests, RequestError(r) = NoError, r.op # "CreateImage",
         NEW im \in Image, ReadError(r, im) = NoError
  PROVE  VariantsOf(im) \subseteq VariantsOf(Written(r, im, im))
<1>1. CASE r.op = "UpdateImage"
  <2>1. SetState(im, r.state).downloads = im.downloads
    BY <1>1, PutStateValid, SetStateType
  <2>2. Written(r, im, im) = SetState(im, r.state)
    BY <1>1, WrittenValue
  <2>3. QED
    BY <2>1, <2>2 DEF VariantsOf
<1>2. CASE r.op = "CreateDownload"
  <2> DEFINE d == [state |-> "importing", type |-> r.type]
             new == AddDownload(im, r.variant, r.type)
  <2>1. r.variant \in Variants /\ r.type \in Types \cup {NoType}
    BY <1>2, RequestFields
  <2>2. new.downloads = [im.downloads EXCEPT ![r.variant] = d]
    BY <2>1, AddDownloadType
  <2>3. d # NoDownload
    BY <2>1, SentinelAssumption DEF Download, DownloadStates
  <2>4. Written(r, im, im) = new
    BY <1>2, WrittenValue
  <2> HIDE DEF d, new
  <2>5. QED
    BY <2>1, <2>2, <2>3, <2>4 DEF VariantsOf, Image
<1>3. CASE r.op = "UpdateDownload"
  <2>1. r.variant \in Variants /\ r.type \in Types \cup {NoType}
    BY <1>3, RequestFields
  <2>2. UpdateDownloadError(im, r.variant, r.state, r.type) = NoError
    BY <1>3, ReadErrorValue
  <2>3. im.downloads[r.variant] \in Download /\ r.state \in DownloadStates
    BY <2>1, <2>2, UpdateDownloadChecked
  <2>4. Written(r, im, im) = ReplaceDownload(im, r.variant, r.state, r.type)
    BY <1>3, WrittenValue
  <2>5. QED
    BY <2>1, <2>3, <2>4, ReplaceSteps
<1>4. CASE r.op = "PublishImage"
  BY <1>4, WritePublishes
<1>5. QED
  BY <1>1, <1>2, <1>3, <1>4, RequestFields

\* A failed variant ends the import of its image.
LEMMA FailedEndsImport ==
  ASSUME NEW im \in Image, NEW v \in Variants, NEW s \in DownloadStates,
         NEW type \in Types \cup {NoType}
  PROVE  (s = "failed" /\ im.state = "importing") =>
            ReplaceDownload(im, v, s, type).state = "failed_import"
<1> DEFINE d   == [state |-> s, type |-> type]
           mid == [im EXCEPT !.downloads = [@ EXCEPT ![v] = d]]
           new == ReplaceDownload(im, v, s, type)
<1>1. /\ mid \in Image
      /\ mid.state = im.state
      /\ mid.downloads = [im.downloads EXCEPT ![v] = d]
      /\ new.state = UpdatedState(mid)
      /\ new.downloads = [im.downloads EXCEPT ![v] = d]
  BY ReplaceDownloadType
<1>2. im.downloads \in [Variants -> Download \cup {NoDownload}]
  BY DEF Image
<1>3. d # NoDownload /\ d.state = s
  BY SentinelAssumption DEF Download
<1> HIDE DEF d, mid
<1> SUFFICES ASSUME s = "failed", im.state = "importing"
             PROVE  ReplaceDownload(im, v, s, type).state = "failed_import"
  OBVIOUS
<1>4. mid.downloads[v] = d
  BY <1>1, <1>2
<1>5. AnyDownloadsOfState(mid, "failed")
  BY <1>3, <1>4 DEF AnyDownloadsOfState, VariantsOf
<1>6. ~AllDownloadsOfState(mid, "imported")
  BY <1>3, <1>4 DEF AllDownloadsOfState, VariantsOf
<1>7. QED
  BY <1>1, <1>5, <1>6 DEF UpdatedState

\* The states of an image whose import has succeeded.
ImportDone == {"imported", "published", "completed"}

\* If clients leave the imported state to the download updates, the import of
\* an image succeeds by the report that its last variant is imported.
LEMMA WriteImports ==
  ASSUME NEW r \in Requests, RequestError(r) = NoError, r.op # "CreateImage",
         r.op = "UpdateImage" => r.state # "imported",
         r.op = "UpdateDownload" => r.state \in {"imported", "failed", "completed"},
         NEW im \in Image, ReadError(r, im) = NoError,
         Written(r, im, im).state \in ImportDone
  PROVE  \/ im.state \in ImportDone
         \/ r.op = "UpdateDownload" /\ r.state = "imported"
<1>1. CASE r.op = "UpdateImage"
  <2>1. r.state \in ImageStates
    BY <1>1, PutStateValid
  <2>2. TransitionAllowed(im.state, r.state)
    BY <1>1, <2>1, ReadErrorValue, UpdateImageChecked
  <2>3. SetState(im, r.state).state = r.state
    BY <2>1, SetStateType
  <2>4. Written(r, im, im) = SetState(im, r.state)
    BY <1>1, WrittenValue
  <2>5. r.state \in {"published", "completed"}
    BY <1>1, <2>3, <2>4 DEF ImportDone
  <2>6. QED
    BY <2>2, <2>5 DEF TransitionAllowed, ImportDone
<1>2. CASE r.op = "CreateDownload"
  <2>1. AddDownload(im, r.variant, r.type).state = "importing"
    BY DEF AddDownload
  <2>2. Written(r, im, im) = AddDownload(im, r.variant, r.type)
    BY <1>2, WrittenValue
  <2>3. QED
    BY <2>1, <2>2 DEF ImportDone
<1>3. CASE r.op = "UpdateDownload"
  <2>1. r.variant \in Variants /\ r.type \in Types \cup {NoType}
    BY <1>3, RequestFields
  <2>2. UpdateDownloadError(im, r.variant, r.state, r.type) = NoError
    BY <1>3, ReadErrorValue
  <2>3. /\ im.downloads[r.variant] \in Download
        /\ r.state \in DownloadStates
        /\ r.state = "completed" => im.state = "published"
    BY <2>1, <2>2, UpdateDownloadChecked
  <2>4. Written(r, im, im) = ReplaceDownload(im, r.variant, r.state, r.type)
    BY <1>3, WrittenValue
  <2>5. im.state \notin {"importing", "published"} => Written(r, im, im).state = im.state
    BY <2>1, <2>3, <2>4, ReplaceSteps
  <2>6. r.state = "failed" /\ im.state = "importing"
          => Written(r, im, im).state = "failed_import"
    BY <2>1, <2>3, <2>4, FailedEndsImport
  <2>7. QED
    BY <1>3, <2>3, <2>5, <2>6 DEF ImportDone
<1>4. CASE r.op = "PublishImage"
  BY <1>4, ReadErrorValue, PublishImageChecked DEF ImportDone
<1>5. QED
  BY <1>1, <1>2, <1>3, <1>4, RequestFields

-----------------------------------------------------------------------------
(* No variant is left behind                                                *)

\* Clients leave the imported state to the reports of the importer.
ImportedByReports ==
    \A r \in Requests : r.op = "UpdateImage" => r.state # "imported"

\* The image has all the variants that the importer planned.
Whole(i) == db[i] # NoImage /\ VariantsOf(db[i]) = Variants

\* A report in flight comes from a client of the workflow; one of success was
\* sent when the image was whole.
Planned(w) ==
    (pc[w] # "idle" /\ req[w].op = "UpdateDownload") =>
        /\ req[w].state \in {"imported", "failed", "completed"}
        /\ req[w].state = "imported" => Whole(req[w].image)

PlanInv == NothingLeftBehind /\ \A w \in Workers : Planned(w)

\* An image that is whole stays whole, and one whose import has succeeded is.
LEMMA StorePlanned ==
  ASSUME ImportedByReports, IInv, PlanInv, NEW w \in Workers, Stores(w)
  PROVE  /\ \A i \in Images : Whole(i) => Whole(i)'
         /\ NothingLeftBehind'
<1> DEFINE r == req[w]
           i == r.image
           im == db[i]
<1>1. CASE db' = db
  BY <1>1 DEF Whole, PlanInv, NothingLeftBehind
<1>2. CASE pc[w] = "write" /\ Write(w)
  <2>1. r \in Requests /\ i \in Images /\ RequestError(r) = NoError
    BY <1>2, RequestFields DEF IInv, RequestFits
  <2>2. db \in [Images -> Image \cup {NoImage}]
    BY DEF IInv, TypeOK
  <2>3. /\ r.op = "CreateImage" => im = NoImage
        /\ r.op # "CreateImage" => /\ im \in Image /\ im # NoImage /\ seen[w] = im
                                   /\ ReadError(r, im) = NoError
    BY <1>2, <2>1, <2>2 DEF IInv, DecisionInv, Decided, Creating
  <2>4. /\ db'[i] = Written(r, seen[w], im)
        /\ \A j \in Images : j # i => db'[j] = db[j]
    BY <1>2, <2>1, <2>2 DEF Write
  <2>5. db'[i] # NoImage
    BY <1>2, <2>4, StoredType, SentinelAssumption
  <2>6. VariantsOf(db'[i]) \subseteq Variants
    BY DEF VariantsOf
  <2>7. Whole(i) => VariantsOf(db'[i]) = Variants
    <3>1. r.op # "CreateImage" => VariantsOf(im) \subseteq VariantsOf(db'[i])
      BY <2>1, <2>3, <2>4, WriteKeepsVariants
    <3>2. QED
      BY <2>3, <2>6, <3>1 DEF Whole
  <2>8. db'[i].state \in ImportDone => VariantsOf(db'[i]) = Variants
    <3>1. CASE r.op = "CreateImage"
      BY <2>4, <3>1, WrittenValue DEF NewImage, ImportDone
    <3>2. CASE r.op # "CreateImage"
      <4>1. /\ r.op = "UpdateImage" => r.state # "imported"
            /\ r.op = "UpdateDownload" => r.state \in {"imported", "failed", "completed"}
            /\ r.op = "UpdateDownload" /\ r.state = "imported" => Whole(i)
        BY <1>2, <2>1 DEF ImportedByReports, PlanInv, Planned
      <4>2. im.state \in ImportDone => Whole(i)
        BY <2>1, <2>3, <3>2 DEF PlanInv, NothingLeftBehind, ImportDone, Whole
      <4>3. db'[i].state \in ImportDone =>
               \/ im.state \in ImportDone
               \/ r.op = "UpdateDownload" /\ r.state = "imported"
        BY <2>1, <2>3, <2>4, <3>2, <4>1, WriteImports
      <4>4. QED
        BY <2>7, <4>1, <4>2, <4>3
    <3>3. QED
      BY <3>1, <3>2
  <2> HIDE DEF r, i, im
  <2>9. \A j \in Images : Whole(j) => Whole(j)'
    BY <2>4, <2>5, <2>7 DEF Whole
  <2>10. NothingLeftBehind'
    BY <2>4, <2>8 DEF PlanInv, NothingLeftBehind, ImportDone
  <2>11. QED
    BY <2>9, <2>10
<1>3. QED
  BY <1>1, <1>2 DEF Stores

\* A worker goes on with the request that it has.
LEMMA SameRequest ==
  ASSUME IInv, NEW w \in Workers, AcquireImageLock(w) \/ Progress(w) \/ Failure(w)
  PROVE  pc[w] # "idle" /\ (pc'[w] # "idle" => req'[w] = req[w])
<1>0. TypeOK /\ pc \in [Workers -> PCs]
  BY Zenon DEF IInv, TypeOK
<1>1. CASE UnlockImage(w) \/ UnlockImageFails(w) \/ Reply(w) \/ Crash(w)
  <2>1. pc[w] # "idle" /\ Release(w)
    BY <1>1 DEF UnlockImage, UnlockImageFails, Reply, Crash
  <2>2. QED
    BY <1>0, <2>1, Released
<1>2. CASE ~(UnlockImage(w) \/ UnlockImageFails(w) \/ Reply(w) \/ Crash(w))
  BY <1>2 DEF AcquireImageLock, Progress, Failure, GetImage, SendUploaded, StoreImage,
     SendPublished, AcquireImageLockFails, GetImageFails, SendUploadedFails,
     StoreImageFails, SendPublishedFails
<1>3. QED
  BY <1>1, <1>2

\* The plan is kept by every step of the handlers and of their clients.
LEMMA PlanStep ==
  ASSUME ImportedByReports, IInv, PlanInv, [HandlersNext]_vars
  PROVE  PlanInv'
<1>1. ASSUME NEW w \in Workers, Summary(w), Planned(w)' PROVE PlanInv'
  <2>1. /\ \A i \in Images : Whole(i) => Whole(i)'
        /\ NothingLeftBehind'
    BY <1>1, StorePlanned DEF Summary
  <2>2. ASSUME NEW u \in Workers, u # w PROVE Planned(u)'
    <3>1. pc'[u] = pc[u] /\ req'[u] = req[u] /\ Planned(u)
      BY <1>1, <2>2 DEF Summary, OthersStay, PlanInv
    <3>2. pc[u] # "idle" => req[u].image \in Images
      BY RequestFields DEF IInv, RequestFits
    <3>3. (pc[u] # "idle" /\ Whole(req[u].image)) => Whole(req[u].image)'
      BY <2>1, <3>1, <3>2 DEF Whole
    <3>4. QED
      BY <3>1, <3>3 DEF Planned
  <2>3. QED
    BY <1>1, <2>1, <2>2 DEF PlanInv
<1>2. ASSUME NEW w \in Workers, NEW r \in Requests, Send(w, r) PROVE PlanInv'
  <2>1. Receive(w, r)
    BY <1>2 DEF Send
  <2>2. req'[w] = r /\ db' = db
    BY <2>1 DEF Receive, IInv, TypeOK
  <2>3. r.op = "UpdateDownload" =>
           /\ r.state \in {"imported", "failed", "completed"}
           /\ r.state = "imported" => Whole(r.image)
    BY <1>2 DEF Send, EditorWants, ImporterWants, PublisherWants, Whole
  <2>4. Planned(w)'
    BY <2>2, <2>3 DEF Planned, Whole
  <2>5. QED
    BY <1>1, <2>1, <2>4, WorkerSummary
<1>3. ASSUME NEW w \in Workers, AcquireImageLock(w) \/ Progress(w) \/ Failure(w)
      PROVE  PlanInv'
  <2>1. Summary(w)
    BY <1>3, WorkerSummary
  <2>2. pc[w] # "idle" /\ (pc'[w] # "idle" => req'[w] = req[w])
    BY <1>3, SameRequest
  <2>3. Planned(w) /\ req[w].image \in Images
    BY <2>2, RequestFields DEF PlanInv, IInv, RequestFits
  <2>4. Whole(req[w].image) => Whole(req[w].image)' \/ pc'[w] = "idle"
    BY <2>1, <2>2, <2>3, StorePlanned DEF Summary, Whole
  <2>5. Planned(w)'
    BY <2>2, <2>3, <2>4 DEF Planned
  <2>6. QED
    BY <1>1, <2>1, <2>5
<1>4. ASSUME UNCHANGED <<db, pc, req>> PROVE PlanInv'
  BY <1>4 DEF PlanInv, NothingLeftBehind, Planned, Whole
<1>5. ASSUME NEW i \in Images, ExpireLock(i) PROVE PlanInv'
  BY <1>4, <1>5 DEF ExpireLock, worker
<1>6. CASE UNCHANGED vars
  BY <1>4, <1>6 DEF vars
<1>7. QED
  BY <1>2, <1>3, <1>5, <1>6 DEF HandlersNext

\* From imported on, an image has all the variants that were planned, whatever
\* else is in flight and whatever failed on the way.
THEOREM NoVariantLeftBehind ==
  ASSUME ImportedByReports
  PROVE  WorkflowSpec => []NothingLeftBehind
<1>1. WorkflowInit => PlanInv
  <2> SUFFICES ASSUME WorkflowInit PROVE PlanInv
    OBVIOUS
  <2>1. \A i \in Images : db[i] = NoImage
    BY DEF WorkflowInit, Init
  <2>2. \A w \in Workers : pc[w] = "idle"
    BY DEF WorkflowInit, Init
  <2>3. QED
    BY <2>1, <2>2 DEF PlanInv, NothingLeftBehind, Planned
<1>2. IInv /\ PlanInv /\ [WorkflowNext]_workflowVars => PlanInv'
  BY ImportedByReports, HandlerSteps, PlanStep
<1>3. PlanInv => NothingLeftBehind
  BY DEF PlanInv
<1>4. QED
  BY <1>1, <1>2, <1>3, Invariance, ClientsAreClients, PTL DEF WorkflowSpec
=============================================================================
