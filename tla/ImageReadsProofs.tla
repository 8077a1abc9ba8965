-------------------------- MODULE ImageReadsProofs --------------------------
(***************************************************************************)
(* The reads, for any images, variants and sequences of updates: every     *)
(* stored variant has its links, so no read follows a nil pointer but that *)
(* of a variant the image does not have.                                   *)
(***************************************************************************)
EXTENDS ImageReads, ImageLifecycleProofs

\* Every stored variant was stored with its links.
Linked == \A i \in Stored : \A v \in VariantsOf(db[i]) : <<i, v>> \in linked

-----------------------------------------------------------------------------

\* The updates among the reads are those of the lifecycle, as the modules are
\* built: reads change no image.
LEMMA UpdatesAreLifecycle == ReadSpec => Spec
<1>1. ReadInit => Init
  BY DEF ReadInit
<1>2. [ReadNext]_readVars => [Next]_vars
  <2>1. ASSUME Update PROVE Next
    BY <2>1 DEF Update, UpdateOther, LinkNewDownload, KeepLinks, Next
  <2>2. ASSUME Read PROVE UNCHANGED vars
    BY <2>2 DEF Read, vars
  <2>3. ASSUME UNCHANGED readVars PROVE UNCHANGED vars
    BY <2>3 DEF readVars, vars
  <2>4. QED
    BY <2>1, <2>2, <2>3 DEF ReadNext
<1>3. QED
  BY <1>1, <1>2, PTL DEF ReadSpec, Spec

\* A write that adds no variant without adding its links keeps them linked.
LEMMA WriteLinks ==
  ASSUME TypeOK, Linked, NEW i \in Images, NEW new, db' = [db EXCEPT ![i] = new],
         linked \subseteq linked',
         \A v \in VariantsOf(new) :
            <<i, v>> \in linked' \/ (db[i] # NoImage /\ v \in VariantsOf(db[i]))
  PROVE  Linked'
<1>1. \A j \in Images : db'[j] = IF j = i THEN new ELSE db[j]
  BY DEF TypeOK
<1>2. ASSUME NEW j \in Images, db'[j] # NoImage, NEW v \in VariantsOf(db'[j])
      PROVE  <<j, v>> \in linked'
  BY <1>1, <1>2 DEF Linked, Stored
<1>3. QED
  BY <1>2 DEF Linked, Stored

\* Replacing a variant adds none.
LEMMA ReplaceKeepsVariants ==
  ASSUME NEW im \in Image, NEW v \in Variants, NEW s \in DownloadStates,
         NEW type \in Types \cup {NoType}, im.downloads[v] \in Download
  PROVE  VariantsOf(ReplaceDownload(im, v, s, type)) \subseteq VariantsOf(im)
<1> DEFINE d == [state |-> s, type |-> type]
           mid == [im EXCEPT !.downloads = [@ EXCEPT ![v] = d]]
           new == ReplaceDownload(im, v, s, type)
<1>1. /\ mid.state = im.state
      /\ mid.downloads = [im.downloads EXCEPT ![v] = d]
      /\ new.state = UpdatedState(mid)
      /\ new.downloads = mid.downloads
  BY ReplaceDownloadType
<1>2. im.downloads \in [Variants -> Download \cup {NoDownload}]
  BY DEF Image
<1> HIDE DEF d, new
<1>3. \A u \in Variants \ {v} : new.downloads[u] = im.downloads[u]
  BY <1>1, <1>2
<1>4. v \in VariantsOf(im)
  BY SentinelAssumption DEF VariantsOf
<1>5. \A u \in VariantsOf(new) : u = v \/ u \in VariantsOf(im)
  BY <1>3 DEF VariantsOf
<1>6. QED
  BY <1>4, <1>5 DEF new

\* Each update keeps every variant linked: one adds a variant with its links,
\* one copies the links of the variant it replaces, and the others leave
\* variants alone.
LEMMA UpdateLinks ==
  ASSUME TypeOK, Linked, Update
  PROVE  Linked'
<1>0. \A i \in Images : db[i] \in Image \cup {NoImage}
  BY DEF TypeOK
<1>1. ASSUME NEW i \in Images, CreateImage(i), UNCHANGED linked PROVE Linked'
  <2>1. VariantsOf(NewImage) = {}
    BY DEF NewImage, VariantsOf
  <2>2. QED
    BY <1>1, <2>1, WriteLinks DEF CreateImage
<1>2. ASSUME NEW i \in Images, NEW s \in PutStates, UpdateImage(i, s), UNCHANGED linked
      PROVE  Linked'
  <2>1. db[i] \in Image /\ s \in ImageStates
    BY <1>0, <1>2, PutStatesAssumption, UpdateImageChecked DEF UpdateImage
  <2>2. VariantsOf(SetState(db[i], s)) = VariantsOf(db[i])
    BY <2>1, SetStateType DEF VariantsOf
  <2>3. db[i] # NoImage
    BY <2>1, SentinelAssumption
  <2>4. QED
    BY <1>2, <2>2, <2>3, WriteLinks DEF UpdateImage
<1>3. ASSUME NEW i \in Images, PublishImage(i), UNCHANGED linked PROVE Linked'
  <2>1. db[i] \in Image /\ db[i] # NoImage
    BY <1>0, <1>3, PublishImageChecked, SentinelAssumption DEF PublishImage
  <2>2. VariantsOf(db[i]) \in SUBSET Variants
    BY DEF VariantsOf
  <2>3. VariantsOf(PublishDownloads(db[i], VariantsOf(db[i]))) \subseteq VariantsOf(db[i])
    <3> DEFINE vs  == VariantsOf(db[i])
               new == PublishDownloads(db[i], vs)
    <3>1. \A v \in Variants \ vs : new.downloads[v] = db[i].downloads[v]
      BY <2>1, <2>2, PublishDownloadsType
    <3> HIDE DEF new
    <3>2. ASSUME NEW v \in Variants \ vs, new.downloads[v] # NoDownload PROVE FALSE
      BY <3>1, <3>2 DEF VariantsOf
    <3>3. VariantsOf(new) \subseteq vs
      BY <3>2 DEF VariantsOf
    <3>4. QED
      BY <3>3 DEF new
  <2>4. QED
    BY <1>3, <2>1, <2>3, WriteLinks DEF PublishImage
<1>4. ASSUME NEW i \in Images, NEW v \in Variants, NEW type \in Types \cup {NoType},
             LinkNewDownload(i, v, type)
      PROVE  Linked'
  <2>1. db[i] \in Image /\ db[i] # NoImage
    BY <1>0, <1>4, CreateDownloadChecked, SentinelAssumption DEF LinkNewDownload, CreateDownload
  <2>2. \A u \in VariantsOf(AddDownload(db[i], v, type)) : u = v \/ u \in VariantsOf(db[i])
    <3> DEFINE d == [state |-> "importing", type |-> type]
               new == AddDownload(db[i], v, type)
    <3>1. new.downloads = [db[i].downloads EXCEPT ![v] = d]
      BY <2>1, AddDownloadType
    <3>2. db[i].downloads \in [Variants -> Download \cup {NoDownload}]
      BY <2>1 DEF Image
    <3> HIDE DEF d, new
    <3>3. \A u \in Variants \ {v} : new.downloads[u] = db[i].downloads[u]
      BY <3>1, <3>2
    <3>4. \A u \in VariantsOf(new) : u = v \/ u \in VariantsOf(db[i])
      BY <3>3 DEF VariantsOf
    <3>5. QED
      BY <3>4 DEF new
  <2>3. QED
    BY <1>4, <2>1, <2>2, WriteLinks DEF LinkNewDownload, CreateDownload
<1>5. ASSUME NEW i \in Images, NEW v \in Variants, NEW s \in DownloadStates,
             NEW type \in Types \cup {NoType}, KeepLinks(i, v, s, type)
      PROVE  Linked'
  <2>1. db[i] \in Image /\ db[i] # NoImage /\ db[i].downloads[v] \in Download
    BY <1>0, <1>5, UpdateDownloadChecked, SentinelAssumption DEF KeepLinks, UpdateDownload
  <2>2. \A u \in VariantsOf(ReplaceDownload(db[i], v, s, type)) : u \in VariantsOf(db[i])
    BY <2>1, ReplaceKeepsVariants
  <2>3. QED
    BY <1>5, <2>1, <2>2, WriteLinks DEF KeepLinks, UpdateDownload
<1>6. QED
  BY <1>1, <1>2, <1>3, <1>4, <1>5 DEF Update, UpdateOther

\* Rewriting the links of linked variants meets no nil.
LEMMA RewritingMeetsNoNil ==
  ASSUME NEW i, NEW vs, NEW built, \A v \in vs : <<i, v>> \in linked
  PROVE  Panic \notin RewriteDownloadLinks(i, vs, built)
<1> DEFINE nils == IF \E v \in vs : <<i, v>> \notin linked THEN {Panic} ELSE {}
           links == IF built THEN IF \A v \in vs : <<i, v>> \in linked THEN {200} ELSE {}
                    ELSE IF \E v \in vs : <<i, v>> \in linked THEN {500} ELSE {}
<1>1. nils = {}
  OBVIOUS
<1>2. links \subseteq {200, 500}
  OBVIOUS
<1>3. RewriteDownloadLinks(i, vs, built) \in {{200}, nils \cup links}
  BY Zenon DEF RewriteDownloadLinks
<1>4. QED
  BY <1>1, <1>2, <1>3 DEF Panic

\* A read that panics is that of a variant the image does not have.
LEMMA ReadPanics ==
  ASSUME Linked, Read
  PROVE  ReadsFollowNoNil'
<1>1. PICK i \in Images, v \in Variants, answered \in BOOLEAN, built \in BOOLEAN :
         \/ \E status \in GetImagesStatus(answered, built) :
               reply' = Reply("GetImages", i, v, status)
         \/ \E status \in GetImageStatus(i, answered, built) :
               reply' = Reply("GetImage", i, v, status)
         \/ \E status \in GetDownloadsStatus(i, answered, built) :
               reply' = Reply("GetDownloads", i, v, status)
         \/ \E status \in GetDownloadStatus(i, v, answered, built) :
               reply' = Reply("GetDownload", i, v, status)
  BY Zenon DEF Read
<1>2. Panic \notin GetImagesStatus(answered, built)
  BY DEF GetImagesStatus, RewriteImageLinks, Panic
<1>3. Panic \notin GetImageStatus(i, answered, built)
  BY DEF GetImageStatus, RewriteImageLinks, Panic
<1>4. Panic \notin GetDownloadsStatus(i, answered, built)
  <2>1. db[i] # NoImage => Panic \notin RewriteDownloadLinks(i, VariantsOf(db[i]), built)
    BY RewritingMeetsNoNil DEF Linked, Stored
  <2>2. QED
    BY <2>1 DEF GetDownloadsStatus, Panic
<1>5. Panic \in GetDownloadStatus(i, v, answered, built) => v \notin VariantsOf(db[i])
  <2>1. db[i] # NoImage /\ v \in VariantsOf(db[i]) =>
           Panic \notin RewriteDownloadLinks(i, {v}, built)
    BY RewritingMeetsNoNil DEF Linked, Stored
  <2>2. QED
    BY <2>1 DEF GetDownloadStatus, Panic
<1>6. db' = db
  BY DEF Read
<1>7. ASSUME NEW op, NEW status, reply' = Reply(op, i, v, status)
      PROVE  /\ reply'.op = op /\ reply'.status = status
             /\ reply'.image = i /\ reply'.variant = v
  BY <1>7 DEF Reply
<1>8. QED
  BY <1>1, <1>2, <1>3, <1>4, <1>5, <1>6, <1>7 DEF ReadsFollowNoNil

\* Whatever a read finds, it answers with a status of the API, or panics.
LEMMA ReadStatuses ==
  ASSUME NEW i, NEW v, NEW answered, NEW built
  PROVE  /\ GetImagesStatus(answered, built) \subseteq Statuses
         /\ GetImageStatus(i, answered, built) \subseteq Statuses
         /\ GetDownloadsStatus(i, answered, built) \subseteq Statuses
         /\ GetDownloadStatus(i, v, answered, built) \subseteq Statuses
<1>1. RewriteImageLinks(built) \in Statuses
  BY DEF RewriteImageLinks, Statuses
<1>2. ASSUME NEW vs PROVE RewriteDownloadLinks(i, vs, built) \subseteq Statuses
  <2> DEFINE nils == IF \E u \in vs : <<i, u>> \notin linked THEN {Panic} ELSE {}
             links == IF built THEN IF \A u \in vs : <<i, u>> \in linked THEN {200} ELSE {}
                      ELSE IF \E u \in vs : <<i, u>> \in linked THEN {500} ELSE {}
  <2>1. nils \subseteq Statuses /\ links \subseteq Statuses /\ {200} \subseteq Statuses
    BY DEF Statuses
  <2>2. RewriteDownloadLinks(i, vs, built) \in {{200}, nils \cup links}
    BY Zenon DEF RewriteDownloadLinks
  <2>3. QED
    BY <2>1, <2>2
<1>3. QED
  BY <1>1, <1>2
     DEF GetImagesStatus, GetImageStatus, GetDownloadsStatus, GetDownloadStatus, Statuses

\* A read replies with its name and a status, and changes nothing else.
LEMMA ReadTyped ==
  ASSUME ReadTypeOK, Read
  PROVE  ReadTypeOK'
<1>1. PICK i \in Images, v \in Variants, status \in Statuses,
           op \in {"GetImages", "GetImage", "GetDownloads", "GetDownload"} :
         reply' = Reply(op, i, v, status)
  <2>1. PICK i \in Images, v \in Variants, answered \in BOOLEAN, built \in BOOLEAN :
           \/ \E status \in GetImagesStatus(answered, built) :
                 reply' = Reply("GetImages", i, v, status)
           \/ \E status \in GetImageStatus(i, answered, built) :
                 reply' = Reply("GetImage", i, v, status)
           \/ \E status \in GetDownloadsStatus(i, answered, built) :
                 reply' = Reply("GetDownloads", i, v, status)
           \/ \E status \in GetDownloadStatus(i, v, answered, built) :
                 reply' = Reply("GetDownload", i, v, status)
    BY Zenon DEF Read
  <2>2. QED
    BY <2>1, ReadStatuses
<1>2. reply'.op = op /\ reply'.status = status
  BY <1>1 DEF Reply
<1>3. UNCHANGED <<db, linked, enableURLRewriting>>
  BY DEF Read
<1>4. QED
  BY <1>1, <1>2, <1>3 DEF ReadTypeOK, TypeOK

\* The links stay those of variants of images.
LEMMA UpdateTyped ==
  ASSUME ReadTypeOK, TypeOK', Update
  PROVE  ReadTypeOK'
<1>1. linked' \subseteq Images \X Variants
  <2>1. \A type : \A i \in Images, v \in Variants :
           LinkNewDownload(i, v, type) => linked' = linked \cup {<<i, v>>}
    BY DEF LinkNewDownload
  <2>2. QED
    BY <2>1 DEF Update, UpdateOther, KeepLinks, ReadTypeOK
<1>2. reply' = NoReply /\ enableURLRewriting' = enableURLRewriting
  BY DEF Update
<1>3. QED
  BY <1>1, <1>2 DEF ReadTypeOK

-----------------------------------------------------------------------------

\* The store, the links and the replies keep their types.
THEOREM ReadsTyped == ReadSpec => []ReadTypeOK
<1>1. ReadInit => ReadTypeOK
  BY DEF ReadInit, Init, TypeOK, ReadTypeOK
<1>2. TypeOK' /\ ReadTypeOK /\ [ReadNext]_readVars => ReadTypeOK'
  <2>1. ASSUME ReadTypeOK, UNCHANGED readVars PROVE ReadTypeOK'
    BY <2>1 DEF readVars, ReadTypeOK, TypeOK
  <2>2. QED
    BY <2>1, ReadTyped, UpdateTyped DEF ReadNext
<1>3. QED
  BY <1>1, <1>2, UpdatesAreLifecycle, TypeCorrect, PTL DEF ReadSpec

\* What the lifecycle promises of its images holds among the reads.
THEOREM ReadsKeepLifecycle == ReadSpec => []DownloadsFitState /\ NeverGoesBack
  BY UpdatesAreLifecycle, DownloadsFit, NothingGoesBack, PTL

\* Whatever was done to an image before, reading it follows no nil pointer,
\* save for a variant that it does not have.
THEOREM NoNilLinks == ReadSpec => []ReadsFollowNoNil
<1>1. ReadInit => Linked /\ ReadsFollowNoNil
  BY DEF ReadInit, Init, Linked, Stored, ReadsFollowNoNil
<1>2. TypeOK /\ Linked /\ ReadsFollowNoNil /\ [ReadNext]_readVars
         => Linked' /\ ReadsFollowNoNil'
  <2> SUFFICES ASSUME TypeOK, Linked, ReadsFollowNoNil, [ReadNext]_readVars
               PROVE  Linked' /\ ReadsFollowNoNil'
    OBVIOUS
  <2>1. CASE Update
    <3>1. reply' = NoReply
      BY <2>1 DEF Update
    <3>2. QED
      BY <2>1, <3>1, UpdateLinks DEF ReadsFollowNoNil
  <2>2. CASE Read
    <3>1. Linked'
      BY <2>2 DEF Read, Linked, Stored
    <3>2. QED
      BY <2>2, <3>1, ReadPanics
  <2>3. CASE UNCHANGED readVars
    BY <2>3 DEF readVars, Linked, Stored, ReadsFollowNoNil
  <2>4. QED
    BY <2>1, <2>2, <2>3 DEF ReadNext
<1>3. QED
  BY <1>1, <1>2, UpdatesAreLifecycle, TypeCorrect, PTL DEF ReadSpec
=============================================================================
