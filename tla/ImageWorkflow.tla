--------------------------- MODULE ImageWorkflow ---------------------------
(***************************************************************************)
(* ImageAPI among the services that use it: an editor who creates, uploads *)
(* and publishes images, the importer that hears the image-uploaded events *)
(* and the static file publisher that hears the image-published ones.      *)
(*                                                                         *)
(* The three are external, modelled from what the events and the handlers  *)
(* ask of them.  Each looks at an image through the API and sends the      *)
(* request that takes the image further; it may send a request many times, *)
(* to several workers at once, and a request is served whenever a worker   *)
(* gets to it, on an image that others may have changed by then.           *)
(*                                                                         *)
(* An event reaches its consumer later than Send, or never: Send leaves it *)
(* in the memory of the instance, and what becomes of it is only logged.   *)
(***************************************************************************)
EXTENDS ImageAPI

VARIABLES
    queued,     \* events that Send queued and that have not left their instance
    told        \* events that reached their consumer

workflowVars == <<vars, queued, told>>

-----------------------------------------------------------------------------
(* Events                                                                   *)

UploadedEvent(i) == [topic |-> "image-uploaded", image |-> i]

PublishedEvent(i, v) == [topic |-> "static-file-published", image |-> i, variant |-> v]

Event == [topic: {"image-uploaded"}, image: Images]
           \cup [topic: {"static-file-published"}, image: Images, variant: Variants]

\* How often Send queued the event.  A second copy tells a consumer nothing
\* new, so that queued and told are sets.
Copies(e) ==
    IF e.topic = "image-uploaded" THEN uploads[e.image] ELSE publishes[e.image][e.variant]

\* Send queues what the step of a handler adds to its count.
Enqueue ==
    /\ queued' = queued \cup {e \in Event : Copies(e)' > Copies(e)}
    /\ UNCHANGED told

\* External: the producer writes the event to kafka, and the consumer reads it.
Deliver(e) ==
    /\ e \in queued
    /\ queued' = queued \ {e}
    /\ told' = told \cup {e}
    /\ UNCHANGED vars

\* The producer gives up on events, which LogErrors logs, or their instance
\* dies with them.
LoseEvents(lost) ==
    /\ lost # {}
    /\ queued' = queued \ lost
    /\ UNCHANGED <<vars, told>>

\* The event was queued, and its consumer will not hear of it.
Lost(e) == Copies(e) > 0 /\ e \notin queued \cup told

-----------------------------------------------------------------------------
(* The clients                                                              *)

\* The editor: create, upload what is created, publish what is imported.
EditorWants(r) ==
    LET im == db[r.image] IN
    \/ r.op = "CreateImage" /\ im = NoImage
    \/ r.op = "UpdateImage" /\ im # NoImage /\ im.state = "created"
    \/ r.op = "PublishImage" /\ im # NoImage /\ im.state = "imported"

\* The importer, once it was told of the image, even if that was before the
\* image was stored as uploaded: it adds all the variants before it reports on
\* any.
ImporterWants(r) ==
    LET im == db[r.image] IN
    /\ im # NoImage
    /\ UploadedEvent(r.image) \in told
    /\ \/ /\ r.op = "CreateDownload"
          /\ im.state \in {"uploaded", "importing"}
          /\ r.variant \notin VariantsOf(im)
       \/ /\ r.op = "UpdateDownload"
          /\ r.state \in {"imported", "failed"}
          /\ VariantsOf(im) = Variants
          /\ im.downloads[r.variant].state = "importing"

\* The publisher, once it was told of the variant.
PublisherWants(r) ==
    LET im == db[r.image] IN
    /\ r.op = "UpdateDownload"
    /\ r.state = "completed"
    /\ PublishedEvent(r.image, r.variant) \in told
    /\ im.downloads[r.variant].state = "published"

Send(w, r) ==
    /\ EditorWants(r) \/ ImporterWants(r) \/ PublisherWants(r)
    /\ Receive(w, r)

HandlersNext ==
    \/ \E w \in Workers :
          \/ \E r \in Requests : Send(w, r)
          \/ AcquireImageLock(w)
          \/ Progress(w)
          \/ Failure(w)
    \/ \E i \in Images : ExpireLock(i)

WorkflowInit == Init /\ queued = {} /\ told = {}

WorkflowNext ==
    \/ HandlersNext /\ Enqueue
    \/ \E e \in queued : Deliver(e)
    \/ \E lost \in SUBSET queued : LoseEvents(lost)

WorkflowSpec == WorkflowInit /\ [][WorkflowNext]_workflowVars

\* As long as some client wants something, a request is sent in the end, and as
\* long as events are queued, one of them is delivered.
WorkflowFairness ==
    /\ Fairness
    /\ WF_vars(\E w \in Workers, r \in Requests : Send(w, r))
    /\ WF_workflowVars(\E e \in queued : Deliver(e))

WorkflowFairSpec == WorkflowSpec /\ WorkflowFairness

-----------------------------------------------------------------------------

\* From imported on, an image has every variant that the importer planned: it
\* becomes imported by the last of them (UpdatedState), and no later request
\* adds or drops one.
NothingLeftBehind ==
    \A i \in Images :
        (db[i] # NoImage /\ db[i].state \in {"imported", "published", "completed"})
            => VariantsOf(db[i]) = Variants

\* The importer will not hear of an upload whose event was queued and lost:
\* the image is past created, so nobody announces it again.
UploadLost(i) == db[i].state = "uploaded" /\ Lost(UploadedEvent(i))

\* The publisher will not hear of a variant, because its event was lost or,
\* after a failure, never sent: the image is published, so no request sends
\* one again.
PublicationLost(i) ==
    /\ db[i].state = "published"
    /\ \E v \in Variants :
          \/ Lost(PublishedEvent(i, v))
          \/ /\ faults > 0
             /\ publishes[i][v] = 0
             /\ \A w \in Workers : pc[w] = "publish" => req[w].image # i

\* Every image reaches the end of its life: all its variants are imported and
\* published, or one is reported as failed, unless an event was lost.  No
\* interleaving of the clients, no repeated request and no failed call or
\* crash leaves an image that no client can take further, except by the loss
\* of an event that was queued, or of one that the publish handler failed to
\* queue (the API sends neither again).
EveryImageEnds ==
    \A i \in Images :
        db[i] # NoImage ~> /\ db[i] # NoImage
                           /\ \/ db[i].state \in {"completed", "failed_import"}
                              \/ UploadLost(i)
                              \/ PublicationLost(i)
=============================================================================
