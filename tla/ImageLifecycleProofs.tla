------------------------ MODULE ImageLifecycleProofs ------------------------
(***************************************************************************)
(* The lifecycle, for any number of images, variants and types: first with *)
(* any states that clients put, then for clients that leave importing,     *)
(* imported, published, completed and failed_publish to the API, whose     *)
(* images have variants that justify their state and follow their own      *)
(* table.                                                                  *)
(***************************************************************************)
EXTENDS ImageLifecycle, ImageModelProofs

Fits(im) == ImportingIsUpToDate(im) /\ PublishingIsUpToDate(im)

-----------------------------------------------------------------------------
(* UpdatedState                                                             *)

\* The four answers of UpdatedState, as the invariants need them: it leaves
\* an image importing or published only if nothing moves it on.
LEMMA UpdatedStateValue ==
  ASSUME NEW im
  PROVE  /\ im.state \notin {"importing", "published"} => UpdatedState(im) = im.state
         /\ im.state = "importing" =>
               \/ UpdatedState(im) \in {"failed_import", "imported"}
               \/ /\ UpdatedState(im) = "importing"
                  /\ ~AnyDownloadsOfState(im, "failed")
                  /\ ~AllDownloadsOfState(im, "imported")
         /\ im.state = "published" =>
               \/ UpdatedState(im) \in {"failed_publish", "completed"}
               \/ /\ UpdatedState(im) = "published"
                  /\ ~AllDownloadsOfState(im, "completed")
<1>1. ASSUME im.state \notin {"importing", "published"}
      PROVE  UpdatedState(im) = im.state
  BY <1>1 DEF UpdatedState
<1>2. ASSUME im.state = "importing"
      PROVE  \/ UpdatedState(im) \in {"failed_import", "imported"}
             \/ /\ UpdatedState(im) = "importing"
                /\ ~AnyDownloadsOfState(im, "failed")
                /\ ~AllDownloadsOfState(im, "imported")
  BY <1>2, Zenon DEF UpdatedState
<1>3. ASSUME im.state = "published"
      PROVE  \/ UpdatedState(im) \in {"failed_publish", "completed"}
             \/ /\ UpdatedState(im) = "published"
                /\ ~AllDownloadsOfState(im, "completed")
  BY <1>3, Zenon DEF UpdatedState
<1>4. QED
  BY <1>1, <1>2, <1>3

-----------------------------------------------------------------------------
(* Each write keeps the state of an image up to date with its variants      *)

\* A new image has no variants to be behind of.
LEMMA NewImageFits == Fits(NewImage)
  BY DEF Fits, ImportingIsUpToDate, PublishingIsUpToDate, NewImage, VariantsOf,
         AnyDownloadsOfState, AllDownloadsOfState

\* A state that a client puts keeps an image up to date: from the table, it
\* never enters importing or published with variants that should have moved
\* the image on.
LEMMA SetStateFits ==
  ASSUME NEW im \in Image, Fits(im), NEW s \in ImageStates, TransitionAllowed(im.state, s)
  PROVE  Fits(SetState(im, s))
<1> DEFINE new == SetState(im, s)
<1>1. new.state = s /\ new.downloads = im.downloads
  BY SetStateType
<1>2. /\ VariantsOf(new) = VariantsOf(im)
      /\ \A t : /\ AnyDownloadsOfState(new, t) <=> AnyDownloadsOfState(im, t)
                /\ AllDownloadsOfState(new, t) <=> AllDownloadsOfState(im, t)
  BY <1>1 DEF VariantsOf, AnyDownloadsOfState, AllDownloadsOfState
<1> HIDE DEF new
<1>3. ImportingIsUpToDate(new)
  <2>1. s = "uploaded" => im.state = "created"
    BY DEF TransitionAllowed
  <2>2. s = "importing" => im.state = "uploaded"
    BY DEF TransitionAllowed
  <2>3. s # "created"
    BY DEF TransitionAllowed
  <2>4. VariantsOf(im) = {} => /\ ~AnyDownloadsOfState(im, "failed")
                               /\ ~AllDownloadsOfState(im, "imported")
    BY DEF AnyDownloadsOfState, AllDownloadsOfState
  <2>5. QED
    BY <1>1, <1>2, <2>1, <2>2, <2>3, <2>4 DEF Fits, ImportingIsUpToDate
<1>4. PublishingIsUpToDate(new)
  <2>1. AnyDownloadsOfState(im, "completed") =>
          s \in {"completed", "failed_publish", "deleted"}
    BY DEF TransitionAllowed, Fits, PublishingIsUpToDate
  <2>2. AllDownloadsOfState(im, "completed") => AnyDownloadsOfState(im, "completed")
    BY DEF AnyDownloadsOfState, AllDownloadsOfState
  <2>3. QED
    BY <1>1, <1>2, <2>1, <2>2 DEF PublishingIsUpToDate
<1>5. QED
  BY <1>3, <1>4 DEF Fits, new

\* A new variant is importing, so its image is where it should be.
LEMMA AddDownloadFits ==
  ASSUME NEW im \in Image, Fits(im), im.state \in {"uploaded", "importing"},
         NEW v \in Variants, NEW type \in Types \cup {NoType}
  PROVE  Fits(AddDownload(im, v, type))
<1> DEFINE d == [state |-> "importing", type |-> type]
           new == AddDownload(im, v, type)
<1>1. /\ new.state = "importing"
      /\ new.downloads = [im.downloads EXCEPT ![v] = d]
  BY AddDownloadType
<1>2. im.downloads \in [Variants -> Download \cup {NoDownload}]
  BY DEF Image
<1>3. d \in Download /\ d.state = "importing"
  BY DEF Download, DownloadStates
<1> HIDE DEF new, d
<1>4. new.downloads[v] = d /\ \A u \in Variants \ {v} : new.downloads[u] = im.downloads[u]
  BY <1>1, <1>2
<1>5. d # NoDownload
  BY <1>3, SentinelAssumption
<1>6. ~AllDownloadsOfState(new, "imported")
  BY <1>3, <1>4, <1>5 DEF AllDownloadsOfState, VariantsOf
<1>7. \A u \in VariantsOf(im) : im.downloads[u].state \notin {"failed", "completed"}
  BY DEF Fits, ImportingIsUpToDate, PublishingIsUpToDate, AnyDownloadsOfState
<1>8. \A u \in VariantsOf(new) : new.downloads[u].state \notin {"failed", "completed"}
  BY <1>3, <1>4, <1>7 DEF VariantsOf
<1>9. /\ ~AnyDownloadsOfState(new, "failed")
      /\ ~AnyDownloadsOfState(new, "completed")
  BY <1>8 DEF AnyDownloadsOfState
<1>10. QED
  BY <1>1, <1>6, <1>9 DEF Fits, ImportingIsUpToDate, PublishingIsUpToDate, new

\* UpdatedState moves an image on with the last of its variants.
LEMMA ReplaceDownloadFits ==
  ASSUME NEW im \in Image, Fits(im), NEW v \in Variants, NEW s \in DownloadStates,
         NEW type \in Types \cup {NoType},
         im.downloads[v] \in Download,
         s = "completed" => im.state = "published"
  PROVE  Fits(ReplaceDownload(im, v, s, type))
<1> DEFINE d == [state |-> s, type |-> type]
           mid == [im EXCEPT !.downloads = [@ EXCEPT ![v] = d]]
           new == ReplaceDownload(im, v, s, type)
<1>1. /\ mid.state = im.state
      /\ mid.downloads = [im.downloads EXCEPT ![v] = d]
      /\ new.state = UpdatedState(mid)
      /\ new.downloads = mid.downloads
  BY ReplaceDownloadType
<1>2. im.downloads \in [Variants -> Download \cup {NoDownload}] /\ d.state = s
  BY DEF Image
<1> HIDE DEF new, mid, d
<1>3. mid.downloads[v] = d /\ \A u \in Variants \ {v} : mid.downloads[u] = im.downloads[u]
  BY <1>1, <1>2
<1>4. /\ VariantsOf(new) = VariantsOf(mid)
      /\ \A t : /\ AnyDownloadsOfState(new, t) <=> AnyDownloadsOfState(mid, t)
                /\ AllDownloadsOfState(new, t) <=> AllDownloadsOfState(mid, t)
  BY <1>1 DEF VariantsOf, AnyDownloadsOfState, AllDownloadsOfState
<1>5. v \in VariantsOf(im)
  BY SentinelAssumption DEF VariantsOf
<1>6. im.state \notin {"created", "uploaded"}
  BY <1>5 DEF Fits, ImportingIsUpToDate
<1>7. ImportingIsUpToDate(new)
  BY <1>1, <1>4, <1>6, UpdatedStateValue DEF ImportingIsUpToDate
<1>8. PublishingIsUpToDate(new)
  <2> DEFINE late == {"published", "completed", "failed_publish", "deleted"}
  <2>1. AnyDownloadsOfState(mid, "completed") =>
          s = "completed" \/ AnyDownloadsOfState(im, "completed")
    BY <1>2, <1>3 DEF AnyDownloadsOfState, VariantsOf
  <2>2. AnyDownloadsOfState(mid, "completed") => im.state \in late
    BY <2>1 DEF Fits, PublishingIsUpToDate
  <2>3. im.state \in late => UpdatedState(mid) \in late
    BY <1>1, UpdatedStateValue
  <2>4. UpdatedState(mid) = "published" => ~AllDownloadsOfState(mid, "completed")
    BY <1>1, UpdatedStateValue
  <2>5. QED
    BY <1>1, <1>4, <2>2, <2>3, <2>4 DEF PublishingIsUpToDate
<1>9. QED
  BY <1>7, <1>8 DEF Fits, new

\* Publication leaves no variant completed, and no import open.
LEMMA PublishDownloadsFits ==
  ASSUME NEW im \in Image
  PROVE  Fits(PublishDownloads(im, VariantsOf(im)))
<1> DEFINE new == PublishDownloads(im, VariantsOf(im))
<1>1. VariantsOf(im) \in SUBSET Variants
  BY DEF VariantsOf
<1>2. /\ new.state = "published"
      /\ \A v \in VariantsOf(im) : new.downloads[v].state = "published"
      /\ \A v \in Variants \ VariantsOf(im) : new.downloads[v] = im.downloads[v]
  BY <1>1, PublishDownloadsType
<1> HIDE DEF new
<1>3. VariantsOf(new) \subseteq VariantsOf(im)
  BY <1>2 DEF VariantsOf
<1>4. ~AllDownloadsOfState(new, "completed")
  BY <1>2, <1>3 DEF AllDownloadsOfState
<1>5. QED
  BY <1>2, <1>4 DEF Fits, ImportingIsUpToDate, PublishingIsUpToDate, new

-----------------------------------------------------------------------------
(* The specification                                                        *)

\* Every state is well typed, whatever the constants.
THEOREM TypeCorrect == Spec => []TypeOK
<1>1. Init => TypeOK
  BY DEF Init, TypeOK
<1>2. TypeOK /\ [Next]_vars => TypeOK'
  <2> SUFFICES ASSUME TypeOK, [Next]_vars PROVE TypeOK'
    OBVIOUS
  <2>1. CASE UNCHANGED vars
    BY <2>1 DEF TypeOK, vars
  <2>2. ASSUME NEW i \in Images, CreateImage(i) PROVE TypeOK'
    BY <2>2, NewImageType DEF TypeOK, CreateImage
  <2>3. ASSUME NEW i \in Images, NEW s \in PutStates, UpdateImage(i, s) PROVE TypeOK'
    <3>1. s \in ImageStates /\ db[i] \in Image
      BY <2>3, PutStatesAssumption, UpdateImageChecked DEF UpdateImage, TypeOK
    <3>2. SetState(db[i], s) \in Image
      BY <3>1, SetStateType
    <3>3. QED
      BY <2>3, <3>2 DEF TypeOK, UpdateImage
  <2>4. ASSUME NEW i \in Images, NEW v \in Variants, NEW type \in Types \cup {NoType},
               CreateDownload(i, v, type)
        PROVE  TypeOK'
    <3>1. db[i] \in Image
      BY <2>4, CreateDownloadChecked DEF CreateDownload, TypeOK
    <3>2. AddDownload(db[i], v, type) \in Image
      BY <3>1, AddDownloadType
    <3>3. QED
      BY <2>4, <3>2 DEF TypeOK, CreateDownload
  <2>5. ASSUME NEW i \in Images, NEW v \in Variants, NEW s \in DownloadStates,
               NEW type \in Types \cup {NoType}, UpdateDownload(i, v, s, type)
        PROVE  TypeOK'
    <3>1. db[i] \in Image
      BY <2>5, UpdateDownloadChecked DEF UpdateDownload, TypeOK
    <3>2. ReplaceDownload(db[i], v, s, type) \in Image
      BY <3>1, ReplaceDownloadType
    <3>3. QED
      BY <2>5, <3>2 DEF TypeOK, UpdateDownload
  <2>6. ASSUME NEW i \in Images, PublishImage(i) PROVE TypeOK'
    <3>1. db[i] \in Image /\ VariantsOf(db[i]) \in SUBSET Variants
      BY <2>6, PublishImageChecked DEF PublishImage, TypeOK, VariantsOf
    <3>2. PublishDownloads(db[i], VariantsOf(db[i])) \in Image
      BY <3>1, PublishDownloadsType
    <3>3. QED
      BY <2>6, <3>2 DEF TypeOK, PublishImage
  <2>7. QED
    BY <2>1, <2>2, <2>3, <2>4, <2>5, <2>6 DEF Next
<1>3. QED
  BY <1>1, <1>2, PTL DEF Spec

\* A write that leaves an image up to date leaves them all up to date.
LEMMA WriteFits ==
  ASSUME TypeOK, DownloadsFitState, NEW i \in Images, NEW new, Fits(new),
         db' = [db EXCEPT ![i] = new]
  PROVE  DownloadsFitState'
<1>1. \A j \in Images : db'[j] = IF j = i THEN new ELSE db[j]
  BY DEF TypeOK
<1>2. \A j \in Images : db'[j] # NoImage => Fits(db'[j])
  BY <1>1 DEF DownloadsFitState, Stored, Fits
<1>3. QED
  BY <1>2 DEF DownloadsFitState, Stored, Fits

\* The state of an image is never behind its variants: the invariant is
\* inductive with the types alone, because each handler validates the image
\* it read and applies UpdatedState before it writes.
THEOREM DownloadsFit == Spec => []DownloadsFitState
<1>1. Init => DownloadsFitState
  BY DEF Init, DownloadsFitState, Stored
<1>2. TypeOK /\ DownloadsFitState /\ [Next]_vars => DownloadsFitState'
  <2> SUFFICES ASSUME TypeOK, DownloadsFitState, [Next]_vars PROVE DownloadsFitState'
    OBVIOUS
  <2>0. \A i \in Images : db[i] \in Image \cup {NoImage} /\ (db[i] \in Image => Fits(db[i]))
    BY SentinelAssumption DEF TypeOK, DownloadsFitState, Stored, Fits
  <2>1. CASE UNCHANGED vars
    BY <2>1 DEF DownloadsFitState, Stored, vars
  <2>2. ASSUME NEW i \in Images, CreateImage(i) PROVE DownloadsFitState'
    BY <2>2, NewImageFits, WriteFits DEF CreateImage
  <2>3. ASSUME NEW i \in Images, NEW s \in PutStates, UpdateImage(i, s)
        PROVE  DownloadsFitState'
    <3>1. s \in ImageStates /\ db[i] \in Image /\ TransitionAllowed(db[i].state, s)
      BY <2>0, <2>3, PutStatesAssumption, UpdateImageChecked DEF UpdateImage
    <3>2. Fits(SetState(db[i], s))
      BY <2>0, <3>1, SetStateFits
    <3>3. QED
      BY <2>3, <3>2, WriteFits DEF UpdateImage
  <2>4. ASSUME NEW i \in Images, NEW v \in Variants, NEW type \in Types \cup {NoType},
               CreateDownload(i, v, type)
        PROVE  DownloadsFitState'
    <3>1. db[i] \in Image /\ db[i].state \in {"uploaded", "importing"}
      BY <2>0, <2>4, CreateDownloadChecked DEF CreateDownload
    <3>2. Fits(AddDownload(db[i], v, type))
      BY <2>0, <3>1, AddDownloadFits
    <3>3. QED
      BY <2>4, <3>2, WriteFits DEF CreateDownload
  <2>5. ASSUME NEW i \in Images, NEW v \in Variants, NEW s \in DownloadStates,
               NEW type \in Types \cup {NoType}, UpdateDownload(i, v, s, type)
        PROVE  DownloadsFitState'
    <3>1. /\ db[i] \in Image
          /\ db[i].downloads[v] \in Download
          /\ s = "completed" => db[i].state = "published"
      BY <2>0, <2>5, UpdateDownloadChecked DEF UpdateDownload
    <3>2. Fits(ReplaceDownload(db[i], v, s, type))
      BY <2>0, <3>1, ReplaceDownloadFits
    <3>3. QED
      BY <2>5, <3>2, WriteFits DEF UpdateDownload
  <2>6. ASSUME NEW i \in Images, PublishImage(i) PROVE DownloadsFitState'
    <3>1. db[i] \in Image
      BY <2>0, <2>6, PublishImageChecked DEF PublishImage
    <3>2. Fits(PublishDownloads(db[i], VariantsOf(db[i])))
      BY <3>1, PublishDownloadsFits
    <3>3. QED
      BY <2>6, <3>2, WriteFits DEF PublishImage
  <2>7. QED
    BY <2>1, <2>2, <2>3, <2>4, <2>5, <2>6 DEF Next
<1>3. QED
  BY <1>1, <1>2, TypeCorrect, PTL DEF Spec

-----------------------------------------------------------------------------
(* Nothing goes back                                                        *)

\* What one image may become in a step.
Advances(im, new) ==
    /\ new # NoImage
    /\ VariantsOf(im) \subseteq VariantsOf(new)
    /\ \/ new.state = im.state
       \/ /\ Rank(im.state) < Rank(new.state)
          /\ im.state \notin {"completed", "deleted"}

\* The ranks, one by one.
LEMMA RankValue ==
  /\ Rank("created") = 0   /\ Rank("uploaded") = 1
  /\ Rank("importing") = 2 /\ Rank("imported") = 3
  /\ Rank("failed_import") = 4 /\ Rank("published") = 4
  /\ Rank("completed") = 5 /\ Rank("failed_publish") = 5
  /\ Rank("deleted") = 6
  BY Zenon DEF Rank

\* An allowed transition goes up.
LEMMA TransitionAdvances ==
  ASSUME NEW s, NEW t, TransitionAllowed(s, t)
  PROVE  Rank(s) < Rank(t)
  BY RankValue DEF TransitionAllowed

\* An updated variant takes its image forward or leaves it where it is.
LEMMA ReplaceDownloadAdvances ==
  ASSUME NEW im \in Image, NEW v \in Variants, NEW s \in DownloadStates,
         NEW type \in Types \cup {NoType}
  PROVE  Advances(im, ReplaceDownload(im, v, s, type))
<1> DEFINE d == [state |-> s, type |-> type]
           mid == [im EXCEPT !.downloads = [@ EXCEPT ![v] = d]]
           new == ReplaceDownload(im, v, s, type)
<1>1. /\ new \in Image
      /\ mid.state = im.state
      /\ new.state = UpdatedState(mid)
      /\ new.downloads = [im.downloads EXCEPT ![v] = d]
  BY ReplaceDownloadType
<1>2. im.downloads \in [Variants -> Download \cup {NoDownload}] /\ d # NoDownload
  BY SentinelAssumption DEF Image, Download
<1> HIDE DEF new, mid, d
<1>3. VariantsOf(im) \subseteq VariantsOf(new)
  BY <1>1, <1>2 DEF VariantsOf
<1>4. im.state \notin {"importing", "published"} => new.state = im.state
  BY <1>1, UpdatedStateValue
<1>5. im.state = "importing" => new.state \in {"importing", "failed_import", "imported"}
  BY <1>1, UpdatedStateValue
<1>6. im.state = "published" => new.state \in {"published", "failed_publish", "completed"}
  BY <1>1, UpdatedStateValue
<1>7. \/ new.state = im.state
      \/ /\ Rank(im.state) < Rank(new.state)
         /\ im.state \notin {"completed", "deleted"}
  BY <1>4, <1>5, <1>6, RankValue
<1>8. QED
  BY <1>1, <1>3, <1>7, SentinelAssumption DEF Advances, new

\* A write that advances the image it replaces, or creates one, takes no
\* image back.
LEMMA WriteAdvances ==
  ASSUME TypeOK, NEW i \in Images, NEW new,
         db[i] # NoImage => Advances(db[i], new),
         db' = [db EXCEPT ![i] = new]
  PROVE  \A j \in Stored : Advances(db[j], db'[j])
  BY DEF TypeOK, Stored, Advances

\* No request takes an image back to an earlier state or removes a variant.
THEOREM NothingGoesBack == Spec => NeverGoesBack
<1> DEFINE Step == \A i \in Stored : Advances(db[i], db'[i])
<1>1. TypeOK /\ [Next]_vars => [Step]_vars
  <2> SUFFICES ASSUME TypeOK, Next PROVE Step
    OBVIOUS
  <2>0. \A i \in Images : db[i] \in Image \cup {NoImage}
    BY DEF TypeOK
  <2>1. ASSUME NEW i \in Images, CreateImage(i) PROVE Step
    BY <2>1, WriteAdvances DEF CreateImage
  <2>2. ASSUME NEW i \in Images, NEW s \in PutStates, UpdateImage(i, s) PROVE Step
    <3>1. /\ s \in ImageStates /\ db[i] \in Image
          /\ TransitionAllowed(db[i].state, s) /\ db[i].state # "completed"
      BY <2>0, <2>2, PutStatesAssumption, UpdateImageChecked DEF UpdateImage
    <3>2. db[i].state # "deleted" /\ Rank(db[i].state) < Rank(s)
      BY <3>1, TransitionAdvances DEF TransitionAllowed
    <3>3. /\ SetState(db[i], s) \in Image
          /\ SetState(db[i], s).state = s
          /\ SetState(db[i], s).downloads = db[i].downloads
      BY <3>1, SetStateType
    <3>4. Advances(db[i], SetState(db[i], s))
      BY <3>1, <3>2, <3>3, SentinelAssumption DEF Advances, VariantsOf
    <3>5. QED
      BY <2>2, <3>4, WriteAdvances DEF UpdateImage
  <2>3. ASSUME NEW i \in Images, NEW v \in Variants, NEW type \in Types \cup {NoType},
               CreateDownload(i, v, type)
        PROVE  Step
    <3> DEFINE d == [state |-> "importing", type |-> type]
    <3>1. db[i] \in Image /\ db[i].state \in {"uploaded", "importing"}
      BY <2>0, <2>3, CreateDownloadChecked DEF CreateDownload
    <3>2. /\ AddDownload(db[i], v, type) \in Image
          /\ AddDownload(db[i], v, type).state = "importing"
          /\ AddDownload(db[i], v, type).downloads = [db[i].downloads EXCEPT ![v] = d]
      BY <3>1, AddDownloadType
    <3>3. d # NoDownload
      BY SentinelAssumption DEF Download, DownloadStates
    <3> HIDE DEF d
    <3>4. VariantsOf(db[i]) \subseteq VariantsOf(AddDownload(db[i], v, type))
      BY <3>1, <3>2, <3>3 DEF VariantsOf, Image
    <3>5. Advances(db[i], AddDownload(db[i], v, type))
      BY <3>1, <3>2, <3>4, RankValue, SentinelAssumption DEF Advances
    <3>6. QED
      BY <2>3, <3>5, WriteAdvances DEF CreateDownload
  <2>4. ASSUME NEW i \in Images, NEW v \in Variants, NEW s \in DownloadStates,
               NEW type \in Types \cup {NoType}, UpdateDownload(i, v, s, type)
        PROVE  Step
    <3>1. db[i] \in Image
      BY <2>0, <2>4, UpdateDownloadChecked DEF UpdateDownload
    <3>2. Advances(db[i], ReplaceDownload(db[i], v, s, type))
      BY <3>1, ReplaceDownloadAdvances
    <3>3. QED
      BY <2>4, <3>2, WriteAdvances DEF UpdateDownload
  <2>5. ASSUME NEW i \in Images, PublishImage(i) PROVE Step
    <3> DEFINE new == PublishDownloads(db[i], VariantsOf(db[i]))
    <3>1. db[i] \in Image /\ db[i].state = "imported"
      BY <2>0, <2>5, PublishImageChecked DEF PublishImage
    <3>2. VariantsOf(db[i]) \in SUBSET Variants
      BY DEF VariantsOf
    <3>3. /\ new \in Image /\ new.state = "published"
          /\ \A v \in VariantsOf(db[i]) : new.downloads[v] \in Download
      BY <3>1, <3>2, PublishDownloadsType
    <3> HIDE DEF new
    <3>4. VariantsOf(db[i]) \subseteq VariantsOf(new)
      BY <3>2, <3>3, SentinelAssumption DEF VariantsOf
    <3>5. Advances(db[i], new)
      BY <3>1, <3>3, <3>4, RankValue, SentinelAssumption DEF Advances
    <3>6. QED
      BY <2>5, <3>5, WriteAdvances DEF PublishImage, new
  <2>6. QED
    BY <2>1, <2>2, <2>3, <2>4, <2>5 DEF Next
<1>2. [Step]_vars => [\A i \in Stored :
          /\ db'[i] # NoImage
          /\ VariantsOf(db[i]) \subseteq VariantsOf(db'[i])
          /\ \/ db'[i].state = db[i].state
             \/ /\ Rank(db[i].state) < Rank(db'[i].state)
                /\ db[i].state \notin {"completed", "deleted"}]_vars
  BY DEF Advances
<1>3. QED
  BY <1>1, <1>2, TypeCorrect, PTL DEF Spec, NeverGoesBack

-----------------------------------------------------------------------------
(* Clients that leave the states of the API to the API                      *)

\* What such clients may name in a PUT.
ImporterStates == {"created", "uploaded", "failed_import", "deleted"}

States(im) == {im.downloads[v].state : v \in VariantsOf(im)}

\* One image is backed by its variants: VariantsBackState, and none of them
\* is pending, which would keep an import open that UpdatedState cannot close.
Backed(im) ==
    /\ "pending" \notin States(im)
    /\ im.state = "importing" => States(im) \cap {"importing", "published"} # {}
    /\ im.state = "imported"  => States(im) # {} /\ States(im) \subseteq {"imported", "published"}
    /\ im.state = "published" => States(im) # {} /\ States(im) \subseteq {"published", "completed"}
    /\ im.state = "completed" => States(im) = {"completed"}
    /\ im.state # "failed_publish"

\* What one image may become in a step.
Follows(im, new) ==
    /\ \A v \in VariantsOf(im) :
          \/ im.downloads[v].state = new.downloads[v].state
          \/ DownloadTransitionAllowed(im.downloads[v].state, new.downloads[v].state)
    /\ im.state # "imported" /\ new.state = "imported" =>
          \A v \in VariantsOf(new) : new.downloads[v].state = "imported"

-----------------------------------------------------------------------------
(* Each write leaves an image that its variants back                        *)

\* An image is created without variants.
LEMMA NewImageBacked == Backed(NewImage)
  BY DEF Backed, States, NewImage, VariantsOf

\* A client that reports its own steps changes neither a variant nor what
\* the variants have to justify.
LEMMA SetStateBacked ==
  ASSUME NEW im \in Image, Backed(im), NEW s \in ImporterStates
  PROVE  Backed(SetState(im, s)) /\ Follows(im, SetState(im, s))
<1> DEFINE new == SetState(im, s)
<1>1. new.state = s /\ new.downloads = im.downloads
  BY SetStateType DEF ImporterStates, ImageStates
<1> HIDE DEF new
<1>2. States(new) = States(im)
  BY <1>1 DEF States, VariantsOf
<1>3. QED
  BY <1>1, <1>2 DEF Backed, Follows, ImporterStates, new

\* A new variant is importing, and so is its image.
LEMMA AddDownloadBacked ==
  ASSUME NEW im \in Image, Backed(im), NEW v \in Variants, NEW type \in Types \cup {NoType},
         im.downloads[v] = NoDownload
  PROVE  Backed(AddDownload(im, v, type)) /\ Follows(im, AddDownload(im, v, type))
<1> DEFINE d == [state |-> "importing", type |-> type]
           new == AddDownload(im, v, type)
<1>1. /\ new.state = "importing"
      /\ new.downloads = [im.downloads EXCEPT ![v] = d]
  BY AddDownloadType
<1>2. d.state = "importing" /\ d # NoDownload
  BY SentinelAssumption DEF Download, DownloadStates
<1>3. im.downloads \in [Variants -> Download \cup {NoDownload}]
  BY DEF Image
<1> HIDE DEF new, d
<1>4. new.downloads[v] = d /\ \A u \in Variants \ {v} : new.downloads[u] = im.downloads[u]
  BY <1>1, <1>3
<1>5. "importing" \in States(new)
  BY <1>2, <1>4 DEF States, VariantsOf
<1>6. \A t \in States(new) : t = "importing" \/ t \in States(im)
  BY <1>2, <1>4 DEF States, VariantsOf
<1>7. Backed(new)
  BY <1>1, <1>5, <1>6 DEF Backed
<1>8. Follows(im, new)
  BY <1>1, <1>4 DEF Follows, VariantsOf
<1>9. QED
  BY <1>7, <1>8 DEF new

\* A variant takes a step of its table, and UpdatedState gives the image the
\* state that its variants then justify.
LEMMA ReplaceDownloadBacked ==
  ASSUME NEW im \in Image, Fits(im), Backed(im), NEW v \in Variants,
         NEW s \in DownloadStates, NEW type \in Types \cup {NoType},
         UpdateDownloadError(im, v, s, type) = NoError
  PROVE  /\ Backed(ReplaceDownload(im, v, s, type))
         /\ Follows(im, ReplaceDownload(im, v, s, type))
<1> DEFINE d == [state |-> s, type |-> type]
           mid == [im EXCEPT !.downloads = [@ EXCEPT ![v] = d]]
           new == ReplaceDownload(im, v, s, type)
           old == im.downloads[v].state
<1>1. /\ mid.state = im.state
      /\ mid.downloads = [im.downloads EXCEPT ![v] = d]
      /\ new.state = UpdatedState(mid)
      /\ new.downloads = mid.downloads
  BY ReplaceDownloadType
<1>2. /\ im.downloads \in [Variants -> Download \cup {NoDownload}]
      /\ d.state = s /\ d # NoDownload
  BY SentinelAssumption DEF Image, Download
<1>3. /\ im.downloads[v] \in Download
      /\ DownloadTransitionAllowed(old, s)
      /\ s = "imported" => im.state = "importing"
      /\ s = "completed" => im.state = "published"
  BY UpdateDownloadChecked
<1> HIDE DEF new, mid, d
<1>4. mid.downloads[v] = d /\ \A u \in Variants \ {v} : mid.downloads[u] = im.downloads[u]
  BY <1>1, <1>2
<1>5. v \in VariantsOf(im) /\ VariantsOf(mid) = VariantsOf(im) /\ VariantsOf(new) = VariantsOf(im)
  BY <1>1, <1>2, <1>3, <1>4, SentinelAssumption DEF VariantsOf
<1>6. old \in States(im) /\ s \in States(mid) /\ States(new) = States(mid)
  BY <1>1, <1>2, <1>4, <1>5 DEF States
<1>7. ASSUME NEW t \in States(mid)
      PROVE  t = s \/ t \in States(im)
  <2>1. PICK u \in VariantsOf(mid) : t = mid.downloads[u].state
    BY DEF States
  <2>2. CASE u = v
    BY <1>2, <1>4, <2>1, <2>2
  <2>3. CASE u # v
    <3>1. u \in VariantsOf(im) /\ t = im.downloads[u].state
      BY <1>4, <1>5, <2>1, <2>3 DEF VariantsOf
    <3>2. QED
      BY <3>1 DEF States
  <2>4. QED
    BY <2>2, <2>3
<1>8. States(im) \subseteq DownloadStates
  BY <1>2 DEF States, VariantsOf, Download
<1>9. /\ AnyDownloadsOfState(mid, "failed") <=> "failed" \in States(mid)
      /\ \A t : AllDownloadsOfState(mid, t) <=> States(mid) = {t}
  <2>1. AnyDownloadsOfState(mid, "failed") <=> "failed" \in States(mid)
    BY DEF AnyDownloadsOfState, States
  <2>2. ASSUME NEW t
        PROVE  AllDownloadsOfState(mid, t) <=> States(mid) = {t}
    <3>1. ASSUME AllDownloadsOfState(mid, t) PROVE States(mid) = {t}
      BY <3>1, Zenon DEF AllDownloadsOfState, States
    <3>2. ASSUME States(mid) = {t} PROVE AllDownloadsOfState(mid, t)
      BY <1>5, <3>2, Zenon DEF AllDownloadsOfState, States
    <3>3. QED
      BY <3>1, <3>2
  <2>3. QED
    BY <2>1, <2>2
<1>10. /\ "pending" \notin States(mid)
       /\ s \in {"imported", "failed", "published", "completed"}
  BY <1>3, <1>6, <1>7 DEF Backed, DownloadTransitionAllowed
<1>11. Backed(new)
  <2>1. CASE im.state = "importing"
    <3>1. States(im) \cap {"failed", "completed"} = {}
      BY <2>1 DEF Fits, ImportingIsUpToDate, PublishingIsUpToDate, AnyDownloadsOfState, States
    <3>2. States(mid) \subseteq {"importing", "imported", "published", "failed"}
      BY <1>3, <1>7, <1>8, <1>10, <2>1, <3>1 DEF DownloadStates, Backed
    <3>3. CASE "failed" \in States(mid)
      <4>1. UpdatedState(mid) = "failed_import"
        BY <1>1, <1>9, <2>1, <3>3 DEF UpdatedState
      <4>2. QED
        BY <1>1, <1>6, <1>10, <4>1 DEF Backed
    <3>4. CASE "failed" \notin States(mid) /\ States(mid) = {"imported"}
      <4>1. UpdatedState(mid) = "imported"
        BY <1>1, <1>9, <2>1, <3>4 DEF UpdatedState
      <4>2. QED
        BY <1>1, <1>6, <1>10, <3>4, <4>1 DEF Backed
    <3>5. CASE "failed" \notin States(mid) /\ States(mid) # {"imported"}
      <4>1. UpdatedState(mid) = "importing"
        BY <1>1, <1>9, <2>1, <3>5 DEF UpdatedState
      <4>2. States(mid) \cap {"importing", "published"} # {}
        BY <1>6, <3>2, <3>5
      <4>3. QED
        BY <1>1, <1>6, <1>10, <4>1, <4>2 DEF Backed
    <3>6. QED
      BY <3>3, <3>4, <3>5
  <2>2. CASE im.state = "published"
    <3>1. s = "completed"
      BY <1>3, <1>6, <2>2 DEF Backed, DownloadTransitionAllowed
    <3>2. States(mid) \subseteq {"published", "completed"}
      BY <1>7, <2>2, <3>1 DEF Backed
    <3>3. CASE States(mid) = {"completed"}
      <4>1. UpdatedState(mid) = "completed"
        BY <1>1, <1>9, <2>2, <3>3 DEF UpdatedState
      <4>2. QED
        BY <1>1, <1>6, <3>3, <4>1 DEF Backed
    <3>4. CASE States(mid) # {"completed"}
      <4>1. UpdatedState(mid) = "published"
        BY <1>1, <1>9, <2>2, <3>2, <3>4 DEF UpdatedState
      <4>2. QED
        BY <1>1, <1>6, <3>2, <4>1 DEF Backed
    <3>5. QED
      BY <3>3, <3>4
  <2>3. CASE im.state \notin {"importing", "published"}
    <3>1. new.state = im.state
      BY <1>1, <2>3, UpdatedStateValue
    <3>2. im.state = "imported" => s = "published"
      BY <1>3, <1>6 DEF Backed, DownloadTransitionAllowed
    <3>3. im.state # "completed"
      BY <1>3, <1>6 DEF Backed, DownloadTransitionAllowed
    <3>4. QED
      BY <1>6, <1>7, <1>10, <2>3, <3>1, <3>2, <3>3 DEF Backed
  <2>4. QED
    BY <2>1, <2>2, <2>3
<1>12. Follows(im, new)
  <2>1. \A u \in VariantsOf(im) :
           \/ im.downloads[u].state = new.downloads[u].state
           \/ DownloadTransitionAllowed(im.downloads[u].state, new.downloads[u].state)
    BY <1>1, <1>2, <1>3, <1>4 DEF VariantsOf
  <2>2. im.state # "imported" /\ new.state = "imported" => States(new) = {"imported"}
    BY <1>1, <1>6, <1>9, UpdatedStateValue DEF UpdatedState
  <2>3. QED
    BY <2>1, <2>2 DEF Follows, States
<1>13. QED
  BY <1>11, <1>12 DEF new

\* The variants of an imported image are imported, or were published early.
LEMMA PublishDownloadsBacked ==
  ASSUME NEW im \in Image, Backed(im), im.state = "imported"
  PROVE  /\ Backed(PublishDownloads(im, VariantsOf(im)))
         /\ Follows(im, PublishDownloads(im, VariantsOf(im)))
<1> DEFINE new == PublishDownloads(im, VariantsOf(im))
<1>1. VariantsOf(im) \in SUBSET Variants
  BY DEF VariantsOf
<1>2. /\ new.state = "published"
      /\ \A v \in VariantsOf(im) : /\ new.downloads[v] \in Download
                                   /\ new.downloads[v].state = "published"
      /\ \A v \in Variants \ VariantsOf(im) : new.downloads[v] = im.downloads[v]
  BY <1>1, PublishDownloadsType
<1> HIDE DEF new
<1>3. VariantsOf(new) = VariantsOf(im)
  BY <1>1, <1>2, SentinelAssumption DEF VariantsOf
<1>4. VariantsOf(im) # {} /\ \A v \in VariantsOf(im) : im.downloads[v].state \in {"imported", "published"}
  BY DEF Backed, States
<1>5. States(new) = {"published"}
  BY <1>2, <1>3, <1>4 DEF States
<1>6. Backed(new)
  BY <1>2, <1>5 DEF Backed
<1>7. Follows(im, new)
  BY <1>2, <1>4 DEF Follows, DownloadTransitionAllowed
<1>8. QED
  BY <1>6, <1>7 DEF new

-----------------------------------------------------------------------------
(* The specification                                                        *)

BackedInv == \A i \in Stored : Backed(db[i])

\* Each step writes one image, which its variants back and which follows from
\* the one before.
LEMMA BackedStep ==
  ASSUME PutStates \subseteq ImporterStates, TypeOK, DownloadsFitState, BackedInv, Next
  PROVE  BackedInv' /\ \A i \in Stored : Follows(db[i], db'[i])
<1> DEFINE Good(im, new) == Backed(new) /\ (im # NoImage => Follows(im, new))
<1>0. \A i \in Images : /\ db[i] \in Image \cup {NoImage}
                        /\ db[i] \in Image => Fits(db[i]) /\ Backed(db[i])
  BY SentinelAssumption DEF TypeOK, DownloadsFitState, BackedInv, Stored, Fits
<1>1. \E i \in Images : \E new : db' = [db EXCEPT ![i] = new] /\ Good(db[i], new)
  <2>1. ASSUME NEW i \in Images, CreateImage(i)
        PROVE  db' = [db EXCEPT ![i] = NewImage] /\ Good(db[i], NewImage)
    BY <2>1, NewImageBacked DEF CreateImage
  <2>2. ASSUME NEW i \in Images, NEW s \in PutStates, UpdateImage(i, s)
        PROVE  db' = [db EXCEPT ![i] = SetState(db[i], s)] /\ Good(db[i], SetState(db[i], s))
    <3>1. db[i] \in Image /\ s \in ImporterStates
      BY <1>0, <2>2, PutStatesAssumption, UpdateImageChecked DEF UpdateImage
    <3>2. QED
      BY <1>0, <2>2, <3>1, SetStateBacked DEF UpdateImage
  <2>3. ASSUME NEW i \in Images, NEW v \in Variants, NEW type \in Types \cup {NoType},
               CreateDownload(i, v, type)
        PROVE  /\ db' = [db EXCEPT ![i] = AddDownload(db[i], v, type)]
               /\ Good(db[i], AddDownload(db[i], v, type))
    <3>1. db[i] \in Image /\ db[i].downloads[v] = NoDownload
      BY <1>0, <2>3, CreateDownloadChecked DEF CreateDownload
    <3>2. QED
      BY <1>0, <2>3, <3>1, AddDownloadBacked DEF CreateDownload
  <2>4. ASSUME NEW i \in Images, NEW v \in Variants, NEW s \in DownloadStates,
               NEW type \in Types \cup {NoType}, UpdateDownload(i, v, s, type)
        PROVE  /\ db' = [db EXCEPT ![i] = ReplaceDownload(db[i], v, s, type)]
               /\ Good(db[i], ReplaceDownload(db[i], v, s, type))
    <3>1. db[i] \in Image
      BY <1>0, <2>4, UpdateDownloadChecked DEF UpdateDownload
    <3>2. QED
      BY <1>0, <2>4, <3>1, ReplaceDownloadBacked DEF UpdateDownload
  <2>5. ASSUME NEW i \in Images, PublishImage(i)
        PROVE  /\ db' = [db EXCEPT ![i] = PublishDownloads(db[i], VariantsOf(db[i]))]
               /\ Good(db[i], PublishDownloads(db[i], VariantsOf(db[i])))
    <3>1. db[i] \in Image /\ db[i].state = "imported"
      BY <1>0, <2>5, PublishImageChecked DEF PublishImage
    <3>2. QED
      BY <1>0, <2>5, <3>1, PublishDownloadsBacked DEF PublishImage
  <2> HIDE DEF Good
  <2>6. QED
    BY <2>1, <2>2, <2>3, <2>4, <2>5 DEF Next
<1> PICK i \in Images : \E new : db' = [db EXCEPT ![i] = new] /\ Good(db[i], new)
  BY <1>1
<1>2. PICK new : db' = [db EXCEPT ![i] = new] /\ Good(db[i], new)
  OBVIOUS
<1>3. \A j \in Images : db'[j] = IF j = i THEN new ELSE db[j]
  BY <1>2 DEF TypeOK
<1>4. \A j \in Stored : Follows(db[j], db[j])
  BY DEF Follows
<1>5. \A j \in Stored : Follows(db[j], db'[j])
  BY <1>2, <1>3, <1>4 DEF Stored
<1>6. \A j \in Images : db'[j] # NoImage => Backed(db'[j])
  BY <1>2, <1>3 DEF BackedInv, Stored
<1>7. QED
  BY <1>5, <1>6 DEF BackedInv, Stored

\* The invariant behind the three theorems.
LEMMA BackedInvariance ==
  ASSUME PutStates \subseteq ImporterStates
  PROVE  Spec => [](TypeOK /\ DownloadsFitState /\ BackedInv)
<1>1. Init => BackedInv
  BY DEF Init, BackedInv, Stored
<1>2. TypeOK /\ DownloadsFitState /\ BackedInv /\ [Next]_vars => BackedInv'
  <2>1. ASSUME BackedInv, UNCHANGED vars PROVE BackedInv'
    BY <2>1 DEF BackedInv, Stored, vars
  <2>2. QED
    BY <2>1, BackedStep
<1>3. QED
  BY <1>1, <1>2, TypeCorrect, DownloadsFit, PTL DEF Spec

\* With such clients, the variants of every image justify its state.
THEOREM VariantsBack ==
  ASSUME PutStates \subseteq ImporterStates
  PROVE  Spec => []VariantsBackState
<1>1. BackedInv => VariantsBackState
  BY DEF BackedInv, Backed, States, VariantsBackState
<1>2. QED
  BY <1>1, BackedInvariance, PTL DEF Spec

\* With such clients, a variant only takes steps of its table, although the
\* publish handler does not consult it.
THEOREM TableFollowed ==
  ASSUME PutStates \subseteq ImporterStates
  PROVE  Spec => DownloadsFollowTable
<1> DEFINE Table == \A i \in Stored : \A v \in VariantsOf(db[i]) :
                      LET s == db[i].downloads[v].state
                          t == db'[i].downloads[v].state
                      IN  s = t \/ DownloadTransitionAllowed(s, t)
<1>1. TypeOK /\ DownloadsFitState /\ BackedInv /\ [Next]_vars => [Table]_vars
  <2> SUFFICES ASSUME TypeOK, DownloadsFitState, BackedInv, Next PROVE Table
    OBVIOUS
  <2>1. \A i \in Stored : Follows(db[i], db'[i])
    BY BackedStep
  <2>2. QED
    BY <2>1 DEF Follows
<1>2. QED
  BY <1>1, BackedInvariance, PTL DEF Spec, DownloadsFollowTable

\* With such clients, an image becomes imported only with all its variants.
THEOREM ImportedWithAll ==
  ASSUME PutStates \subseteq ImporterStates
  PROVE  Spec => ImportedOnlyWhenAllImported
<1> DEFINE Complete == \A i \in Stored :
                         db[i].state # "imported" /\ db'[i].state = "imported" =>
                           \A v \in VariantsOf(db'[i]) : db'[i].downloads[v].state = "imported"
<1>1. TypeOK /\ DownloadsFitState /\ BackedInv /\ [Next]_vars => [Complete]_vars
  <2> SUFFICES ASSUME TypeOK, DownloadsFitState, BackedInv, Next PROVE Complete
    OBVIOUS
  <2>1. \A i \in Stored : Follows(db[i], db'[i])
    BY BackedStep
  <2>2. QED
    BY <2>1 DEF Follows
<1>2. QED
  BY <1>1, BackedInvariance, PTL DEF Spec, ImportedOnlyWhenAllImported
=============================================================================
