# dp-image-api, in TLA+

The image API keeps the documents of images and of their download variants in
MongoDB, and moves them from upload to publication. Clients (Florence, the
image importer, the static file publisher) call it over HTTP, and it tells the
importer and the publisher what to do with kafka events. This directory models
the life of an image, the handlers that change images while others do the same,
while calls fail and while instances die, the handlers that read them, the work
of the clients and the API together, and the start and shutdown of an instance.
All paths below are relative to the repository, `src/`.

## The system

| Component | State | Operations | Talks to |
|---|---|---|---|
| models (`models/`) | none: `Image`, `Download` and their state tables | `Validate`, `ValidateTransitionFrom`, `ValidateForImage`, `StateTransitionAllowed`, `UpdatedState` | called by the handlers |
| update handlers (`api/image.go`) | what one request has read and decided | create image, update image, create download, update download, publish | MongoDB, image lock, producers |
| read handlers (`api/image.go`) | none | list, get, with rewritten links | MongoDB, no lock |
| routing and errors (`api/api.go`, `apierrors/`) | the routes, chosen once by `IsPublishing` | reading bodies, `handleError` | handlers |
| image store (`mongo/`) | images collection, lock collection | `GetImage(s)`, `UpsertImage`, `UpdateImage`, `AcquireImageLock`, `UnlockImage` | MongoDB, dp-mongodb lock |
| producers (`event/`, `schema/`) | queues of two topics | `Send` | kafka |
| service (`service/`, `main.go`) | clients and servers, flags of what was created | `Run`, `Close` | everything above |
| importer, static file publisher | outside the repository | consume events, call the API | update handlers |

What makes it hard:

* **Interleaving.** A handler reads an image, decides and writes it back:
  three calls, with other handlers (of this and other instances) in between.
  Only the image lock keeps them apart, and creation does not take it.
  `UpsertImage` sets the whole `downloads` map, so a write made on an old copy
  would erase variants.
* **Order of write and event.** `image-uploaded` goes out *before* the image is
  stored as uploaded, `image-published` *after* it is stored as published, one
  event per variant. Each order has its own failure: an event for an upload
  that was not stored, a publication without events.
* **Delivery.** `Send` only puts an event in the memory of the producer. What
  becomes of it is logged (`service/service.go:102`), and an instance that dies
  takes the events with it that it has not written to kafka yet.
* **Failures.** A write may return an error and have taken effect. `Send` may
  fail half way through the variants. `UnlockImage` reports nothing. An
  instance may die between any two calls, with the lock.
* **Long sequences.** The state of an image is derived from its variants
  (`UpdatedState`), but clients may also set it directly, and the publish
  handler sets variants without looking at their table. The links of a variant
  are a pointer that every update has to keep for the next read.
* **Time.** The lock and the queries have time limits of their own: a lock may
  expire under a slow holder, and a write may arrive after its handler gave up.
* **Shutdown.** `Close` hands its work to a goroutine and hears of it through a
  variable and a context, while handlers run and the deadline comes nearer.

The properties that make the components correct follow from this list. For the
models: the state of an image is never behind its variants, nothing goes back,
and a state is justified by the variants it summarises. For the handlers: no
lost update, events and store agree up to named failures, nothing is published
twice, no lock is kept, and each request is atomic. For the reads: no
update leaves a document that they cannot answer. For the clients: no image is
left where nobody can take it further. For the service: handlers have the
clients they need, nothing is closed under a running handler unless that is
reported, and `Close` reports what happened.

`PROJECT.json` lists each hazard at its line (`hazards`) with the properties
that cover it, or says why none does.

## Modules

| Module | Models |
|---|---|
| `ImageModel` | the operators of the models package, the checks of each handler on the image it read, what it writes. Pure, no variables |
| `ImageLifecycle` | the abstract specification: one atomic action per updating request, the images collection as its only state |
| `ImageTypes` | `ImageLifecycle` with a history variable, the first type of each variant |
| `ImageAPI` | the five updating handlers, one action per external call, with the lock, the events, failures and crashes |
| `ImageLockExpiry` | `ImageAPI` with locks that expire under a live holder and writes that arrive late |
| `ImageWorkflow` | `ImageAPI` with the delivery and loss of its events, and an editor, the importer and the publisher as its clients |
| `ImageReads` | `ImageLifecycle` with the links of the variants and the handlers that read |
| `Service` | `main`, `Run`, `Close` and the goroutines of one instance |
| `MC...` | the request sets and symmetries of the runs |
| `ImageModelProofs` | lemmas on the operators |
| `ImageLifecycleProofs` | theorems on the lifecycle: for any client, and for clients that report only their own steps |
| `ImageAPIProofs` | theorems on the handlers: lock, decisions and refinement, and with it the promises of the lifecycle |
| `ImageEventsProofs` | theorems on the events that the handlers send |
| `ImageLockExpiryProofs` | theorems on what is left without the protection of the lock |
| `ImageWorkflowProofs` | theorems on the handlers among their clients |
| `ImageReadsProofs`, `ServiceProofs` | theorems on the reads and on the service |

```
ImageModel <- ImageLifecycle <- ImageTypes, ImageReads
     ^              ^
     |              | implements (INSTANCE)
     +-------- ImageAPI <- ImageLockExpiry, ImageWorkflow
Service                          (ImageAPI!Crash is its exit, seen by a request)
```

An image is its `state` and, for each variant, `NoDownload` or a `state` and a
`type`. These decide every request and nothing else stored does: names, sizes,
links, dates and texts are left out. A state that does not parse is the value
`"other"` and one that the body leaves out is `""`; both only occur in requests.

### ImageLifecycle

`db[i]` is the document with id `i`, or `NoImage`. Each action evaluates the
checks of one handler on `db[i]` and stores what the handler would. Its
constant `PutStates` is the set of states that clients name in
`PUT /images/{id}`. The code accepts every state that its table allows, so the
promise to *any* client is the instance `PutStates = ImageStates`. An importer
that only reports its own steps puts `uploaded`, `failed_import` and `deleted`;
some properties hold for such clients only, and the runs say which.

### ImageAPI

A *worker* is the goroutine of a request; `pc[w]` names the call it makes next:

```
idle -> acquire -> read -> [announce ->] write -> [publish ->] unlock -> idle
idle -> write -> reply -> idle                     creation, without the lock
idle -> reply -> idle                              a body refused at once
```

| Variable | In the code |
|---|---|
| `db` | the images collection |
| `lock` | the lock collection: a worker, `Free`, or `Orphan` (its holder is gone) |
| `req`, `seen` | the parsed request, `existingImage` |
| `todo` | the variants whose `image-published` event is still to be sent |
| `resp` | the error given to `handleError`, `ok` for success |
| `uploads`, `publishes` | calls of `Send` that succeeded so far, counted per image and per variant. Nothing is said of delivery |
| `faults` | failed calls and crashes so far, at most `MaxFaults` |

| Action | In the code |
|---|---|
| `Receive` | routing to the handler and every check before the first call. For a creation, `NewID` |
| `AcquireImageLock` | waits until the lock is free |
| `GetImage` | the read and every check on what it returned (`ReadError`) |
| `SendUploaded` | the `image-uploaded` event of `doUpdateImage` |
| `StoreImage` | `UpsertImage`, or `UpdateImage` in the publish handler (`Written`) |
| `SendPublished` | one `image-published` event, in any order, as the code iterates a map |
| `UnlockImage`, `Reply` | the deferred unlock, the return of a handler without the lock |
| `...Fails` | the call returns an error. A failed write may have taken effect; a failed unlock leaves the lock `Orphan`, and a failed acquire may do so |
| `Crash` | external: the request dies with its instance at any call, and its lock becomes `Orphan` |
| `ExpireLock` | external: an orphaned lock expires |

`Written` uses the image that was read where the code sends a whole image
(create and update download) and the stored document where it sends single
fields (`$set`). That difference is what the lock protects and what
`AcquireWithoutWaiting`, the mutant without waiting, exposes.

`ImplementsLifecycle` instantiates `ImageLifecycle` with
`PutStates <- ClientPutStates`, the states that some request in `Requests`
names: the handlers bring no state into the collection that no client put
there and no handler derives.

### ImageLockExpiry

Adds two steps that the code does not rule out. `ExpireHeldLock` frees the lock
of a worker that goes on (`LeaveLock` then leaves the next holder alone: the
unlock names the lock that was acquired). `StoreImageTimesOut` answers an error
and leaves the write in `late`, from where `DeliverLate` applies it to whatever
is stored by then. Each costs a fault, and a late write carries the number of
its own, so that two equal ones are both delivered. An insert that is still under way keeps
its id, a random UUID, from being generated again (`NewIDsAreNew`).

### ImageWorkflow

`EditorWants`, `ImporterWants` and `PublisherWants` say which requests a client
sends, by what the API shows of the image and by the events the client was
told of. `Send` restricts `Receive` to them. A client may send a request again
while the first is being served, to another worker, and a request may be served
long after the image has changed. Nothing is remembered by the clients: after a
failed request they want the same again, so retries need no state.

An event reaches its consumer in two steps. `Enqueue` puts what a handler's
step sends into `queued`, the memory of the instance. `Deliver` moves one
event, in any order, to `told`, what the consumers have read; `LoseEvents` drops any
of them at any time, for a delivery that fails (which `LogErrors` logs) or for
an instance that dies. A loss is no fault of `MaxFaults`: any number of events
may be lost, and a crash need not lose any. Which instance holds which event is
left out, as a loss may take any set of them. An importer that is told of
an image before it is stored as uploaded keeps that in mind, and tries again
once it is. Repeated delivery of an event tells its consumer nothing new, and
requests may be repeated in any case, so `queued` and `told` are sets.

### ImageReads

`linked` are the variants stored with links. `LinkNewDownload`, `KeepLinks` and
`UpdateOther` are the updates of `ImageLifecycle` with what they do to links.
`Read` is one of the four handlers: it calls MongoDB once, so it is one step,
and `...Status` are the answers it may give, `Panic` for a nil pointer. Whether
MongoDB answers and whether a link can be rebuilt is chosen freely.

### Service

| Variable | In the code |
|---|---|
| `main`, `closer` | where the main goroutine and the goroutine of `Close` are |
| `flags`, `client` | the flags of `ExternalServiceList`; what became of each client |
| `checks`, `routes` | the checks added; what `api.Setup` registered |
| `server`, `running` | the goroutine of `ListenAndServe`; handlers in flight |
| `svcErrors`, `signals` | the two channels that `main` selects on, capacity 1 each |
| `ctx`, `hasShutdownError`, `gracefulShutdown` | the variables of `Close` |
| `outcome` | how the process ends |

`Get`, `GetFails`, `Setup`, `RegisterCheckers` and `Serve` are `Run`, in its
order; `Select`, `Close` and `Return` are the rest of the main goroutine. The
goroutine of `Close` takes each client in turn: `SkipClient` if its flag is not
set, else `CloseClient` or `CloseClientFails`; the server in two steps, since
`Shutdown` closes the listener before it waits for handlers. `Verdict` and
`Cancel` are its last two assignments. `Return` reads `gracefulShutdown` without
a lock: after a cancellation the read sees the verdict, at the deadline it races
it, so the model lets it read either value.

Definitions whose comment begins with "Fault:" are never used by a
specification. Each is a plausible mistake in the definition after it, kept to
show that a property would notice.

## Properties and runs

| Run | Question | Bounds | Result |
|---|---|---|---|
| `lifecycle_any_client` | With any client: `DownloadsFitState` (the state is never behind the variants), `NeverGoesBack`, and of the reads `ReadsFollowNoNil` | `ImageReads` with 1 image, 3 variants, 1 type | holds |
| `lifecycle_importer` | With clients that leave imported, published and completed to the API: `VariantsBackState`, `ImportedOnlyWhenAllImported`, `DownloadsFollowTable` | 1 image, 3 variants | holds |
| `lifecycle_forced_import` | Does the same hold for any client? | 2 variants | violated, finding 1 |
| `lifecycle_publish_unimported` | Does the publish handler respect the table of the variants? | 2 variants | violated, finding 2 |
| `types_history` | Does a variant keep its type? | 1 variant, 2 types | violated, finding 3 |
| `api_any_client` | `DecisionIsCurrent`, `PublishingIsStable`, `PublishedOnce`, `EventsFollowPublication`, `UploadedIsAnnounced`, `PublishReplyMeansQueued`, `ImplementsLifecycle` | 1 image, 2 variants, 2 workers, 1 fault | holds |
| `api_importer` | `LostOnlyByItsSender`, `AnnouncedOncePerFault`, `ImporterIsNotEarly` | as above, 3 faults | holds |
| `api_invalid_body` | Is an invalid body a bad request? | 1 worker | violated, finding 4 |
| `expiry` | What survives without the lock's protection: `UploadedIsAnnounced`, `AnnouncedOncePerFault`, `PublishedAgainOncePerFault` | 1 variant, 2 workers, 2 faults | holds |
| `workflow` | With a patient importer: `NothingLeftBehind`, `EveryImageEnds`, `RequestsAnswered` | 2 variants, 2 workers, 2 faults | holds |
| `reads_missing_variant` | Is a missing variant answered 404? | 2 variants | violated, finding 5 |
| `service` | `GracefulMeansComplete`, `FailureHasCause`, `NothingLeftOpen`, `NoNilClient`, `HandlersKeepConnections`, `CheckStopsFirst`, `HandlersHaveClients`, `ServedOnlyWhenMonitored`, `StopsWhenAsked` | 2 handlers | holds |

What a run that holds shows is worth reading with its limits:

* `LostOnlyByItsSender` is *not* a promise that events are sent. It says how one
  of a publication comes to be missing: the publish handler of that image fails or dies at
  its write or in its loop. No race, and no failure of another request, has that
  effect, however many faults came before. Such a loss is for good: a retry is
  refused with 403, as the image is already published.
* `AnnouncedOncePerFault` is about the opposite: every repetition of
  `image-uploaded` is paid for by a fault.
* The properties of `ImageAPI` and `ImageLockExpiry` speak of events that were
  queued. `UploadedIsAnnounced` does not say that the importer heard of the
  upload; what delivery adds is in `workflow`.
* `VariantsBackState` allows a published variant in an importing image. Such a
  variant, put to published too early, keeps the image from ever being imported
  by itself; the table and `ValidateForImage` permit it.
* `ImporterIsNotEarly` shows why the early `image-uploaded` event does no harm:
  the importer's first request waits for the lock of the handler that sent it.
  A failed write, or a crash before the write, still leaves an event of an image
  that is created; the property lets the importer meet that image only if as
  many faults have happened as events were sent.
* `expiry` separates what the lock protects from what it does not. Without its
  protection there is no reason for `DecisionIsCurrent`, `PublishedOnce` and
  `EventsFollowPublication`: a handler may write what it decided on an image
  that has changed since. What remains holds because of the order inside a single handler: the event before
  the write, and one repetition for each fault.
* `NothingLeftBehind` and `EveryImageEnds` rest on an importer that adds all
  the variants of an image before it reports on any. One that reports early
  does leave a variant behind: the image is imported with the variants it has,
  and the next `CreateDownload` is refused with 403. The API does not know how
  many variants there will be, so only the importer can prevent that. It is not
  in the repository; `ImporterWants` states what the API needs of it.
* `EveryImageEnds` names its two exceptions. `UploadLost`: the image is stored as
  uploaded and its event was queued and lost, so that the importer never hears of
  it and the editor has no request left. `PublicationLost`: the image is stored
  as published and the event of a variant was queued and lost, or was never
  queued because the publish handler failed. In both the API sends the event no
  second time. Everything else that may happen, a failed call, a crash with the lock, a
  repeated or overtaken request, leaves a way on. An event lost while the image is still
  created is no exception: the editor uploads again.
* `GracefulMeansComplete` and `HandlersKeepConnections` together say that
  connections are closed under a running handler only when the deadline passed
  or `Shutdown` failed, and never behind a report of success. Closing them after
  a failed `Shutdown` is what the code intends (`service/service_test.go` tests
  that every dependency is closed).
* `NoNilClient` holds although the published producer is guarded by the flag of
  the uploaded one: `Run` creates both or returns.
* `failed_publish` is reached only by a direct PUT: `UpdatedState` has a branch
  for a failed variant of a published image, but the download table has no step
  from published to failed. `VariantsBackState` shows the branch to be dead for
  clients that do not put the state themselves.

### Bounds

No action of one image reads or changes another, so one image shows every
interaction. What matters between variants is none, some and all of them in a
state; three variants in the lifecycle, and two with the handlers, give each
combination. Two workers give every race of a holder with a waiter or with a
creation; a third would only wait. One fault reaches every failure action, and
three reach a failure, a failed retry and a crash of the next retry. TLC treats
workers and variants as symmetric where only safety is checked. `uploads` and
`publishes` have no bound of their own: the tables and `MaxFaults` bound them.
The service has two handlers for a first and a last one to drain; the requests
of different handlers do not meet there. `expiry` has one variant, because what
is lost and kept there is a matter of writes and events of one image; with two
faults both an expiry and a late write occur, or one of them twice. `workflow`
and `service` check liveness and therefore use no symmetry.
The theorems below remove all of these bounds for the properties they cover.

`lifecycle_importer` and the two violations beside it set `CHECK_DEADLOCK FALSE`:
a deleted image accepts no request, so with one image the model really stops
there. The handlers never
stop, as a request that is refused is still a step. The workflow and the service
end, an image with its publication and a process with its exit.

### Fairness

`ImageAPI!Fairness` assumes weak fairness of `Progress(w)`, the next call of each
running handler: the Go scheduler runs every goroutine, and the calls return,
if only with an error. It assumes weak fairness of `ExpireLock`, an assumption
on the lock library: it removes locks whose holder is gone. It assumes *strong* fairness of
`AcquireImageLock`: the lock client polls, so a waiter may find the lock taken
again and again although it becomes free in between; that it succeeds in the
end is an assumption on polling, and without it two clients that keep updating
could starve a third. Nothing is assumed of requests, failures and crashes. The
property says that every request ends, not that it succeeds.

`WorkflowFairSpec`, under which `RequestsAnswered` is checked too, adds that, as long as a client wants something, some request
is sent in the end. Which one is not assumed: of the requests that clients want,
any may be sent again and again until it has had its effect. It adds that, as
long as events are queued, one of them is delivered, an assumption on kafka and the
consumers. Finitely many are ever queued, so each is delivered or lost in the end; no
fairness keeps an event from being lost.

`Service!FairSpec` assumes that the main goroutine is scheduled and that the
deadline passes (`context.WithTimeout`). It assumes nothing of handlers, of
clients and of the goroutine of `Close`: a handler may well be slower than the
shutdown, whose default is 5 s (`config/config.go`), and a call on a client may
hang.

## Findings

1. An importing image can be PUT to `imported` while its variants are still
   importing (`api/image.go:242`); the API document promises the opposite.
2. Publishing such an image takes its variants from `importing` to `published`,
   which the download table forbids (`api/image.go:610`).
3. An update without a type erases the stored type of a variant, after which
   any other type is accepted (`models/image.go:217`).
4. A PUT of `uploaded` without an upload or its path is answered 500:
   `handleError` does not know `ErrImageUploadEmpty` and
   `ErrImageUploadPathEmpty` (`api/api.go:143`).
5. With `ENABLE_URL_REWRITING`, a GET of a variant that does not exist panics:
   the links are rewritten before the handler tests whether the variant was
   found (`api/image.go:452`). The API document promises 404.

Also seen while modelling, without a run: the API document lets a download be
created as `pending` and the handler refuses it (`api/image.go:356`); `ErrImageAlreadyPublished` is mapped
by `handleError` and returned by nothing; variants of deleted and completed
images may still change; `Service.Close` tests the flag of the uploaded producer
before it closes the published one (`service/service.go:173`, harmless, see
`NoNilClient`); if `IMAGE_API_URL` does not parse, `api.Setup` logs, returns nil
and `Run` goes on, so the service is healthy and serves no image route
(`api/api.go:38`); a signal that arrives while `Run` still connects is served
only when `Run` returns (`main.go:49`); an empty or dotted variant name is
accepted and makes the publish update name another field (`mongo/mongo.go:179`).

## Proofs

Every theorem holds for all values of the constants, under the assumptions
their modules name: the sentinels are none of the values they stand beside
(`SentinelAssumption`, `LockAssumption`, `RequestAssumption`), `MaxFaults` is a
natural number, `PutStates` are states. Nothing bounds images, variants,
workers or requests. A few theorems hold only for some clients and have a
hypothesis that says which:

| Hypothesis | Of whom | Needed because |
|---|---|---|
| `PutStates \subseteq ImporterStates`, `ImporterClients` | the three theorems on variants, `HandlersBackState`, `HandlersFollowTables` | finding 1: clients may put an importing image to imported |
| `PublishedByPublishCall` | `EventsLostByTheirSender` | a PUT of `published` sends no event, and needs no failure to do so |
| `ImportedByReports` | `NoVariantLeftBehind` | a PUT of `imported` ends an import with whatever variants there are |

The requests of `api_importer` and of `workflow` satisfy all three; those of
`api_any_client` satisfy none.

| Theorem | States |
|---|---|
| `ImageLifecycleProofs!TypeCorrect` | `Spec => []TypeOK` |
| `ImageLifecycleProofs!DownloadsFit` | `Spec => []DownloadsFitState` |
| `ImageLifecycleProofs!NothingGoesBack` | `Spec => NeverGoesBack` |
| `ImageLifecycleProofs!VariantsBack` | `PutStates \subseteq ImporterStates` implies `Spec => []VariantsBackState` |
| `ImageLifecycleProofs!TableFollowed` | `PutStates \subseteq ImporterStates` implies `Spec => DownloadsFollowTable` |
| `ImageLifecycleProofs!ImportedWithAll` | `PutStates \subseteq ImporterStates` implies `Spec => ImportedOnlyWhenAllImported` |
| `ImageAPIProofs!Invariance` | `Spec => []IInv` |
| `ImageAPIProofs!TypeCorrect` | `Spec => []TypeOK` |
| `ImageAPIProofs!NoLostUpdate` | `Spec => []DecisionIsCurrent` |
| `ImageAPIProofs!Implements` | `Spec => ImplementsLifecycle` |
| `ImageAPIProofs!HandlersFitState` | `Spec => []Lifecycle!DownloadsFitState` |
| `ImageAPIProofs!HandlersNeverGoBack` | `Spec => Lifecycle!NeverGoesBack` |
| `ImageAPIProofs!HandlersBackState` | `ImporterClients` implies `Spec => []Lifecycle!VariantsBackState` |
| `ImageAPIProofs!HandlersFollowTables` | `ImporterClients` implies `Spec => Lifecycle!DownloadsFollowTable /\ Lifecycle!ImportedOnlyWhenAllImported` |
| `ImageEventsProofs!UploadsAnnounced` | `Spec => []UploadedIsAnnounced` |
| `ImageEventsProofs!PublishingStable` | `Spec => []PublishingIsStable` |
| `ImageEventsProofs!NeverPublishedTwice` | `Spec => []PublishedOnce` |
| `ImageEventsProofs!StoredBeforeSent` | `Spec => []EventsFollowPublication` |
| `ImageEventsProofs!RepliesAreTrue` | `Spec => []PublishReplyMeansQueued` |
| `ImageEventsProofs!AnnouncedAgainAfterFaults` | `Spec => []AnnouncedOncePerFault` |
| `ImageEventsProofs!ImporterWaitsForUpload` | `Spec => []ImporterIsNotEarly` |
| `ImageEventsProofs!EventsLostByTheirSender` | `PublishedByPublishCall` implies `Spec => LostOnlyByItsSender` |
| `ImageLockExpiryProofs!LooseInvariance`, `LooseTypes` | `LooseSpec => []LooseInv`, `LooseSpec => []LooseTypeOK` |
| `ImageLockExpiryProofs!LooseUploadsAnnounced` | `LooseSpec => []UploadedIsAnnounced` |
| `ImageLockExpiryProofs!LooseAnnouncedAgainAfterFaults` | `LooseSpec => []AnnouncedOncePerFault` |
| `ImageLockExpiryProofs!LoosePublishedAgainAfterFaults` | `LooseSpec => []PublishedAgainOncePerFault` |
| `ImageWorkflowProofs!NoVariantLeftBehind` | `ImportedByReports` implies `WorkflowSpec => []NothingLeftBehind` |
| `ImageReadsProofs!ReadsTyped` | `ReadSpec => []ReadTypeOK` |
| `ImageReadsProofs!ReadsKeepLifecycle` | `ReadSpec => []DownloadsFitState /\ NeverGoesBack` |
| `ImageReadsProofs!NoNilLinks` | `ReadSpec => []ReadsFollowNoNil` |
| `ServiceProofs!Invariance`, `TypeCorrect` | `Spec => []IInv`, `Spec => []TypeOK` |
| `ServiceProofs!GracefulIsComplete` | `Spec => []GracefulMeansComplete` |
| `ServiceProofs!FailuresHaveCauses` | `Spec => []FailureHasCause` |
| `ServiceProofs!EverythingIsClosed` | `Spec => []NothingLeftOpen` |
| `ServiceProofs!NoPanic` | `Spec => []NoNilClient` |
| `ServiceProofs!ConnectionsOutliveHandlers` | `Spec => []HandlersKeepConnections` |
| `ServiceProofs!CheckIsFirst` | `Spec => []CheckStopsFirst` |
| `ServiceProofs!ClientsAreReady` | `Spec => []HandlersHaveClients` |
| `ServiceProofs!Monitored` | `Spec => []ServedOnlyWhenMonitored` |

**Lifecycle.** `DownloadsFitState` is inductive with the types. It is stated of
one image (`Fits`), so the proof has a lemma for each kind of write: from an
image that fits and passed the handler's checks, the write makes one that fits.
The lemmas show why it holds: each handler that could leave the state behind
applies `UpdatedState` to what it is about to store, and
`ValidateForImage` keeps variants from completing before publication.

**Handlers.** `DecisionIsCurrent` is not inductive: that nobody changes the
image between read and write needs the lock, and the lock means nothing unless
its holder is known to be inside its critical section. `IInv` adds

* `RequestFits`: a worker past the checks passed them, and only a creation goes
  to the write without the lock;
* `LockInv`: the lock of an image has worker `w` exactly if `w` is between
  acquiring and releasing it for that image;
* `FreshInv`: creations in flight have different ids;
* `DecisionInv`: the decision of a worker about to announce or write is right
  for the stored image.

Of a creation racing an update, neither holds the other off: they never meet,
because a creation requires an id without a document and an update one with a
document. `WritesAlone` is that case split. `WorkerSummary` reduces each action
to what it does to the other workers, and one lemma per conjunct follows from
the summary. `Implements` then needs only that a write equals the request's
lifecycle step, which `DecisionInv` gives; every other step leaves `db` alone.

The theorems `Handlers...` are what the refinement is for. `LP` instantiates
the proofs of the lifecycle with `ClientPutStates`; its assumptions follow from
those of the handlers (`LifecycleAssumptions`), so what was proved of atomic
requests holds of handlers that interleave, fail and die.

**Events.** Two invariants, each inductive given `IInv`. `AnnouncedInv` adds to
`UploadedIsAnnounced` that a worker about to store an upload has announced it;
`WriteUploads` shows that there is no other way past created. `PublishInv` says
where each event of a publication is: while a handler sends, an event of the
image is owed (`todo`) or sent exactly once; after its success all are sent; and
an event that was sent belongs to an image past publication, which
`WriteKeepsPast` shows no write takes back. The lock enters through
`LockedApart` (two holders have different images), so that a step of one worker
leaves the promises of the others alone (`OthersKeepPublishing`).

Two more invariants account for faults. `ChargedInv`: all announcements of an
image but one are paid for by a fault, and all of them as long as it may be
announced once more, that is while it is not past created and nobody is about to
store its upload. A failed write or a crash after the event makes it announceable
again and pays for it. `RefusedInv`: a variant was refused because of the image
that is still stored, as the lock is still held; with `ChargedInv`, an image
that is refused as created has no more events than faults, which is
`ImporterIsNotEarly`.

`LostOnlyByItsSender` is about steps, and is proved of each action from `IInv`
and `PublishInv`. Only three kinds of step can silence an image. A write that
begins a publication is the publish handler's own (`WriteBegins`), and unless
it fails the handler goes on to its loop (`StoreSilence`); a write of another kind
begins none. A handler that sends leaves no event unsent when it ends
(`SendSilence`), because `PublishInv` says that what is not owed was sent. What is left is
a handler that leaves its loop or its write otherwise: by a failure or a crash (`SilenceStep`).

**Variants.** `Backed` strengthens `VariantsBackState`: no variant is pending,
an importing image has a variant that is still importing or was published early,
and an image is never failed_publish. Each kind of write keeps it, and `Follows`
states what the same write does to the variants.

**Lock expiry.** Here `LockInv` and `DecisionInv` are false: the holder may
have lost its lock, and `db` may have moved on since its read. `LooseInv`
mentions no lock. It says of each handler and of each late write that it decided
on an image the store once held (`Grounded`): one without variants if it was
created (`Bare`), and one announced if it was past created (`Warranted`). Both
survive a write of an old decision on a newer image, because no write makes an
image created again, no announcement is taken back, and an upload is stored only after its event.
`SoleCreation` keeps inserts apart: the ids of creations in flight and of those
that are late all differ.

How often an event is repeated is a matter of bookkeeping, the same for both
kinds (`Balanced`): the events sent, plus the number of handlers that may still
send one without the lock, plus one if the holder of the lock may, are at most
one more than the faults. An expiry turns the holder into one that acts without
the lock and pays for it. A handler that sends moves its unit from the second
summand to the first. For publications a late write is counted too
(`LateOn`): it sends nothing, but it may put the image back to where it can be
published again. `Fewer` and `OneMore` do the counting in sets.

**Workflow.** The clients only choose among the requests, and events that are
delivered or lost change nothing of the handlers (`HandlerSteps`), so that the
invariants of the handlers hold here too (`ClientsAreClients`). `PlanInv` adds to `NothingLeftBehind` that a report of success in
flight was sent when the image had all its variants, and that no write drops
one (`WriteKeepsVariants`). Only such a report ends an import with success
(`WriteImports`), so the image is whole when it does.

**Reads.** The reads and the links add nothing to the updates
(`UpdatesAreLifecycle`), so the lemmas of the lifecycle apply. `Linked` says that every stored variant has links. It needs that an
update of a variant creates none, which the lifecycle's checks give.

**Service.** `IInv` has a part for each shared piece of state: `StartInv` (flags
are the clients created), `MainInv` (what `Run` has created at each stage),
`CloserInv` (what each stage of the goroutine leaves behind) and `VerdictInv`
(a verdict is set last, and cancellation after it). The race at the deadline
is covered: a read of FALSE only happens with the deadline passed.

**Only model-checked:** `RequestsAnswered`, `EveryImageEnds` and
`StopsWhenAsked`. They are liveness properties under fairness, which is outside
the prover's reach. Every invariant and every action property of a passing run
is a theorem.

## Not modelled, and why

* Authorisation and JSON decide before any state is touched. The texts of
  errors, file names and urls carry no control, so `url/` (three formatting
  functions without a branch) is left out and the avro encoding with it.
* Configuration other than the publishing mode, link rewriting and an image url
  that does not parse: addresses, topics and timeouts only reach the clients.
* The health checker of `mongo/` and the health check's own state: nothing in
  the program reads them.
* The collection filter of `GetImages`: it selects what is listed and changes
  nothing else.
* Variant names that MongoDB reads as paths (empty, or with a dot): what the
  server does with them is not in the repository.
* The failures of the importer and the publisher themselves, beyond requests
  that are repeated, delayed or refused: a consumer that has read an event and
  dies counts as told, and acts on it once it is back.
* The capacity of the producers' channels, on which a `Send` may block: a `Send`
  that has not returned is a handler that has not taken its next step.

## Plan

Done: the lifecycle, the updating and reading handlers, the clients, lock expiry
and the service, with the theorems above. Every safety property that a run checks
is proved. Left, in order:

1. Action properties of the handlers that no state shows: what a retry of a
   failed request may find, with the theorems beside them.
2. Liveness of `ImageLockExpiry`: requests still end when locks expire early.
3. Lemmas shared by the proof modules in one place, next to `ImageModelProofs`.
