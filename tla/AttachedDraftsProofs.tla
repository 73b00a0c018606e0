------------------------- MODULE AttachedDraftsProofs -------------------------
(***************************************************************************)
(* What holds of AttachedDrafts for every number of requests, uploads,     *)
(* drafts and restarts.  The byte sums of the quotas are sums over finite  *)
(* sets, which CountingTheorems says how to split: what a reservation or a *)
(* stored row adds, and what retention takes away.                         *)
(***************************************************************************)
EXTENDS AttachedDrafts, CountingTheorems

(* The steps of Next that can disturb each part of the state.               *)
AssetStep ==
    \/ \E u \in Upload : UploadStep(u)
    \/ \E r \in Request : DiscardAsset(r) \/ AssetAges(r)
    \/ ApplyRetention \/ Restart

(* Every other step leaves the assets alone.                               *)
LEMMA OtherSteps ==
    ASSUME [Next]_vars
    PROVE  AssetStep \/ UNCHANGED assetVars
  BY DEF Next, AssetStep, DraftStep, CreateDraft, Delivered, Rejected, HumanCancel, SystemCancel,
         HumanRestore, MonthPasses, Verify, ClaimWon, ClaimedBefore, ApproveRefused, Ends,
         PlanRetention, vars, ownVars

-----------------------------------------------------------------------------
(* Types.  Retention expires what it planned, so the plan must consist of   *)
(* rows that exist: a fact the type invariant needs and does not state.     *)
PlanHasRows == \A r \in plan : asset[r] # "none"

(* A row, once there, never goes away.                                      *)
LEMMA RowsStay ==
    ASSUME TypeOK, [Next]_vars
    PROVE  /\ \A r \in Request : asset[r] # "none" => asset'[r] # "none"
           /\ \A r \in Request : stored[r] # NoContent => stored'[r] = stored[r]
  <1>. USE DEF TypeOK, AssetsTypeOK, assetVars
  <1>1. CASE UNCHANGED assetVars
    BY <1>1
  <1>2. ASSUME NEW u \in Upload, UploadStep(u)
        PROVE  /\ \A r \in Request : asset[r] # "none" => asset'[r] # "none"
               /\ \A r \in Request : stored[r] # NoContent => stored'[r] = stored[r]
    BY <1>2 DEF UploadStep, StartReplay, StartUpload, Replayed, ReplayFails, BodyRead,
                UploadFails, Store
  <1>3. CASE ApplyRetention \/ Restart \/ \E r \in Request : DiscardAsset(r) \/ AssetAges(r)
    BY <1>3 DEF ApplyRetention, Purge, Restart, DiscardAsset, Discard, AssetAges, DayPasses
  <1>. QED
    BY OtherSteps, <1>1, <1>2, <1>3 DEF AssetStep

(* A plan is kept, dropped, or made anew.                                  *)
LEMMA PlanStep ==
    ASSUME [Next]_vars
    PROVE  plan' = plan \/ plan' = {} \/ PlanRetention
  BY DEF Next, UploadStep, DiscardAsset, AssetAges, DraftStep, CreateDraft, Delivered, Rejected,
         HumanCancel, SystemCancel, HumanRestore, MonthPasses, Verify, ClaimWon, ClaimedBefore,
         ApproveRefused, Ends, ApplyRetention, Restart, vars, ownVars

(* Every step keeps the types of the assets,                               *)
LEMMA AssetTypes ==
    ASSUME TypeOK, PlanHasRows, [Next]_vars
    PROVE  AssetsTypeOK'
  <1>. USE AssetAssumption DEF TypeOK, AssetsTypeOK, assetVars
  <1>1. CASE UNCHANGED assetVars
    BY <1>1
  <1>2. ASSUME NEW u \in Upload, UploadStep(u)
        PROVE  AssetsTypeOK'
    <2>1. ASSUME NEW r \in Request, NEW c \in Content, StartReplay(u, r, c)
          PROVE  AssetsTypeOK'
      BY <2>1 DEF StartReplay, Begin
    <2>2. ASSUME NEW r \in Request, NEW c \in Content, NEW size \in 1..MaxFile,
                 StartUpload(u, r, c, size, Linked)
          PROVE  AssetsTypeOK'
      BY <2>2 DEF StartUpload, Begin
    <2>3. CASE Replayed(u)
      BY <2>3 DEF Replayed, End
    <2>4. CASE ReplayFails(u)
      BY <2>4 DEF ReplayFails, End
    <2>5. CASE BodyRead(u)
      BY <2>5 DEF BodyRead
    <2>6. CASE UploadFails(u)
      BY <2>6 DEF UploadFails, End
    <2>7. CASE Store(u)
      BY <2>7 DEF Store, End
    <2>. QED
      BY <1>2, <2>1, <2>2, <2>3, <2>4, <2>5, <2>6, <2>7 DEF UploadStep
  <1>3. ASSUME NEW r \in Request, DiscardAsset(r)
        PROVE  AssetsTypeOK'
    BY <1>3 DEF DiscardAsset, Discard
  <1>4. ASSUME NEW r \in Request, AssetAges(r)
        PROVE  AssetsTypeOK'
    BY <1>4 DEF AssetAges, DayPasses
  <1>6. CASE Restart
    BY <1>6 DEF Restart, UploadsIdle
  <1>5. CASE ApplyRetention
    BY <1>5 DEF ApplyRetention, Purge, PlanHasRows
  <1>. QED
    BY OtherSteps, <1>1, <1>2, <1>3, <1>4, <1>5, <1>6 DEF AssetStep

(* the rows a plan names,                                                  *)
LEMMA PlanKeepsRows ==
    ASSUME TypeOK, PlanHasRows, [Next]_vars
    PROVE  PlanHasRows'
  <1>. USE DEF PlanHasRows
  <1>1. \A r \in Request : asset[r] # "none" => asset'[r] # "none"
    BY RowsStay
  <1>2. CASE PlanRetention
    BY <1>1, <1>2 DEF PlanRetention, Purgeable
  <1>3. CASE plan' = plan \/ plan' = {}
    BY <1>1, <1>3 DEF TypeOK
  <1>. QED
    BY <1>2, <1>3, PlanStep

(* the types of the drafts,                                                *)
LEMMA DraftTypes ==
    ASSUME TypeOK, [Next]_vars
    PROVE  DraftsTypeOK'
  <1>. USE DraftAssumption DEF TypeOK, DraftsTypeOK, Status, Review, Actor, draftVars
  <1>1. ASSUME NEW d \in Draft, DraftStep(d)
        PROVE  DraftsTypeOK'
    <2>1. CASE CreateDraft(d)
      BY <2>1 DEF CreateDraft, Create, FirstReview
    <2>2. CASE Delivered(d) \/ Rejected(d)
      BY <2>2 DEF Delivered, Rejected, RecordReceipt, RecordRejected
    <2>3. CASE HumanCancel(d) \/ SystemCancel(d) \/ HumanRestore(d)
      BY <2>3 DEF HumanCancel, SystemCancel, HumanRestore, CancelBy, Restore
    <2>4. ASSUME NEW a \in Actor, ClaimWon(d, a)
          PROVE  DraftsTypeOK'
      <3>1. ReceiptItem(a, d) \in Actor \X Digest
        BY DEF ReceiptItem
      <3>2. UsedAfter(a, d) \subseteq Receipt \X Digest
        BY <3>1 DEF UsedAfter, ReceiptItem
      <3>3. Enqueued(d) \in [Draft -> {"none", "pending", "leased", "complete"}]
        BY DEF Enqueued
      <3>4. RipeOnEnqueue(d) \subseteq Draft
        BY DEF RipeOnEnqueue
      <3>. QED
        BY <2>4, <3>2, <3>3, <3>4 DEF ClaimWon, ApproveAndClaim
    <2>5. ASSUME NEW a \in Actor, ClaimedBefore(d, a)
          PROVE  DraftsTypeOK'
      <3>1. UsedAfter(a, d) \subseteq Receipt \X Digest
        BY DEF UsedAfter, ReceiptItem
      <3>. QED
        BY <2>5, <3>1 DEF ClaimedBefore, ApproveAgain
    <2>6. CASE UNCHANGED draftVars
      BY <2>6
    <2>. QED
      BY <1>1, <2>1, <2>2, <2>3, <2>4, <2>5, <2>6
      DEF DraftStep, Verify, ApproveRefused, MonthPasses
  <1>2. CASE UNCHANGED draftVars
    BY <1>2
  <1>. QED
    BY <1>1, <1>2 DEF Next, UploadStep, DiscardAsset, AssetAges, PlanRetention, ApplyRetention,
                      Restart, vars, ownVars

(* The steps that touch what drafts and assets share.                      *)
LEMMA OwnSteps ==
    ASSUME [Next]_vars
    PROVE  \/ \E d \in Draft : DraftStep(d) /\ Recalled
           \/ PlanRetention \/ ApplyRetention \/ Restart
           \/ UNCHANGED ownVars
  BY DEF Next, UploadStep, DiscardAsset, AssetAges, vars, ownVars

OwnTypesOK ==
    /\ ended \in [Draft -> {"never", "recent", "old"}]
    /\ verified \subseteq Draft \X Actor
    /\ plan \subseteq Request
    /\ since \subseteq Draft

(* They keep its types.                                                    *)
LEMMA OwnTypes ==
    ASSUME OwnTypesOK, [Next]_vars
    PROVE  OwnTypesOK'
  <1>. USE AttachAssumption DEF OwnTypesOK
  <1>1. ASSUME NEW d \in Draft, DraftStep(d), Recalled
        PROVE  OwnTypesOK'
    <2>5. since' \subseteq Draft
      BY <1>1 DEF Recalled, Needing
    <2>1. ASSUME NEW a \in Actor, Verify(d, a)
          PROVE  OwnTypesOK'
      BY <2>5, <2>1 DEF Verify
    <2>2. ASSUME NEW a \in Actor, ClaimWon(d, a) \/ ClaimedBefore(d, a) \/ ApproveRefused(d, a)
          PROVE  OwnTypesOK'
      BY <2>5, <2>2 DEF ClaimWon, ClaimedBefore, ApproveRefused
    <2>3. CASE Ends(d) \/ MonthPasses(d)
      BY <2>5, <2>3 DEF Ends, MonthPasses
    <2>4. CASE CreateDraft(d) \/ HumanRestore(d)
      BY <2>5, <2>4 DEF CreateDraft, HumanRestore
    <2>. QED
      BY <1>1, <2>1, <2>2, <2>3, <2>4
      DEF DraftStep, Delivered, Rejected, HumanCancel, SystemCancel
  <1>2. CASE UNCHANGED ownVars
    BY <1>2 DEF ownVars
  <1>3. CASE PlanRetention \/ ApplyRetention \/ Restart
    BY <1>3 DEF PlanRetention, ApplyRetention, Restart
  <1>. QED
    BY <1>1, <1>2, <1>3, OwnSteps

(* The store begins empty.                                                 *)
LEMMA TypeInit == Init => TypeOK /\ PlanHasRows
  BY AttachAssumption, AssetAssumption
  DEF Init, DraftsInit, AssetsInit, TypeOK, DraftsTypeOK, AssetsTypeOK, Status, Review, PlanHasRows

(* Types, for every instance: a request id has stored bytes exactly when it  *)
(* has a row, and a busy upload carries a request id and bytes.             *)
THEOREM TypeCorrect == Spec => []TypeOK
  <1>1. TypeOK /\ PlanHasRows /\ [Next]_vars => (TypeOK /\ PlanHasRows)'
    BY AssetTypes, DraftTypes, OwnTypes, PlanKeepsRows DEF TypeOK, OwnTypesOK
  <1>. QED
    BY TypeInit, <1>1, PTL DEF Spec

-----------------------------------------------------------------------------
(* Uploads.  Reservations are bounded, and each upload has one of its own,  *)
(* which keeps others off its request id.                                  *)
HeldBound == Cardinality(Held) <= MaxUploads

UploadInv ==
    /\ SlotGuardsRequest
    /\ HeldBound
    /\ SameRequestSameBytes

(* As many slots are held as there are uploads.                            *)
LEMMA HeldIsFinite == IsFiniteSet(Held)
  BY AssetAssumption, FS_Subset DEF Held

(* No step reserves for a request that holds a slot already.               *)
LEMMA SlotStep ==
    ASSUME TypeOK, SlotGuardsRequest, [Next]_vars
    PROVE  SlotGuardsRequest'
  <1>. USE AssetAssumption DEF TypeOK, AssetsTypeOK, assetVars, SlotGuardsRequest, Uploading
  <1>1. CASE UNCHANGED assetVars
    BY <1>1
  <1>2. ASSUME NEW u \in Upload, UploadStep(u)
        PROVE  SlotGuardsRequest'
    <2>1. ASSUME NEW r \in Request, NEW c \in Content, StartReplay(u, r, c)
          PROVE  SlotGuardsRequest'
      BY <2>1 DEF StartReplay, Begin
    <2>2. ASSUME NEW r \in Request, NEW c \in Content, NEW size \in 1..MaxFile,
                 StartUpload(u, r, c, size, Linked)
          PROVE  SlotGuardsRequest'
      <3>1. SizeOf[c] <= size /\ size # 0
        BY <2>2 DEF StartUpload
      <3>2. \A v \in Uploading : ureq[v] # r
        BY <2>2 DEF StartUpload, Reservable
      <3>. QED
        BY <2>2, <3>1, <3>2 DEF StartUpload, Begin
    <2>3. CASE Replayed(u) \/ ReplayFails(u)
      BY <2>3 DEF Replayed, ReplayFails, End
    <2>4. CASE BodyRead(u)
      BY <2>4 DEF BodyRead
    <2>5. CASE UploadFails(u)
      BY <2>5 DEF UploadFails, End
    <2>6. CASE Store(u)
      BY <2>6 DEF Store, End
    <2>. QED
      BY <1>2, <2>1, <2>2, <2>3, <2>4, <2>5, <2>6 DEF UploadStep
  <1>3. CASE ApplyRetention \/ \E r \in Request : DiscardAsset(r) \/ AssetAges(r)
    BY <1>3 DEF ApplyRetention, Purge, DiscardAsset, Discard, AssetAges, DayPasses
  <1>4. CASE Restart
    BY <1>4 DEF Restart, UploadsIdle
  <1>. QED
    BY OtherSteps, <1>1, <1>2, <1>3, <1>4 DEF AssetStep

(* A slot is taken only below the bound.                                   *)
LEMMA BoundStep ==
    ASSUME TypeOK, HeldBound, [Next]_vars
    PROVE  HeldBound'
  <1>. USE AssetAssumption DEF TypeOK, AssetsTypeOK, HeldBound
  <1>1. ASSUME NEW r \in Request, slot[r] = 0, Cardinality(Held) < MaxUploads, Held' = Held \cup {r}
        PROVE  HeldBound'
    <2>1. r \notin Held
      BY <1>1 DEF Held
    <2>2. Cardinality(Held \cup {r}) = Cardinality(Held) + 1
      BY <2>1, HeldIsFinite, FS_AddElement
    <2>. QED
      BY <1>1, <2>2, HeldIsFinite, FS_CardinalityType
  <1>2. CASE Held' \subseteq Held
    <2>1. Cardinality(Held') <= Cardinality(Held)
      BY <1>2, HeldIsFinite, FS_Subset
    <2>2. IsFiniteSet(Held')
      BY <1>2, HeldIsFinite, FS_Subset
    <2>. QED
      BY <2>1, <2>2, HeldIsFinite, FS_CardinalityType
  <1>3. ASSUME NEW u \in Upload, NEW r \in Request, NEW c \in Content, NEW size \in 1..MaxFile,
               StartUpload(u, r, c, size, Linked)
        PROVE  HeldBound'
    <2>1. Held' = Held \cup {r}
      BY <1>3 DEF StartUpload, Held
    <2>. QED
      BY <1>1, <1>3, <2>1 DEF StartUpload, Reservable
  <1>4. ASSUME NEW u \in Upload, UploadStep(u)
        PROVE  HeldBound'
    <2>1. CASE UNCHANGED slot
      BY <1>2, <2>1 DEF Held
    <2>2. CASE UploadFails(u) \/ Store(u)
      BY <1>2, <2>2 DEF UploadFails, Store, Held
    <2>. QED
      BY <1>3, <1>4, <2>1, <2>2 DEF UploadStep, StartReplay, Replayed, ReplayFails, BodyRead
  <1>5. CASE UNCHANGED slot
    BY <1>2, <1>5 DEF Held
  <1>. QED
    BY OtherSteps, <1>4, <1>5
    DEF AssetStep, assetVars, ApplyRetention, Purge, Restart, DiscardAsset, Discard, AssetAges, DayPasses

(* A request id answers with the bytes it was stored with.                 *)
LEMMA AnswerStep ==
    ASSUME TypeOK, SameRequestSameBytes, [Next]_vars
    PROVE  SameRequestSameBytes'
  <1>. USE AssetAssumption DEF TypeOK, AssetsTypeOK, SameRequestSameBytes
  <1>1. \A a \in answered : stored'[a[1]] = a[2]
    <2>1. \A r \in Request : stored[r] # NoContent => stored'[r] = stored[r]
      BY RowsStay
    <2>2. \A a \in answered : a[1] \in Request /\ a[2] \in Content
      OBVIOUS
    <2>. QED
      BY <2>1, <2>2
  <1>2. CASE answered' = answered
    BY <1>1, <1>2
  <1>3. ASSUME NEW u \in Upload, Replayed(u)
        PROVE  SameRequestSameBytes'
    BY <1>1, <1>3 DEF Replayed
  <1>4. ASSUME NEW u \in Upload, Store(u)
        PROVE  SameRequestSameBytes'
    <2>1. stored'[ureq[u]] = ucontent[u]
      BY <1>4 DEF Store
    <2>. QED
      BY <1>1, <1>4, <2>1 DEF Store
  <1>. QED
    BY OtherSteps, <1>2, <1>3, <1>4
    DEF AssetStep, assetVars, UploadStep, StartReplay, StartUpload, ReplayFails, BodyRead, UploadFails,
        ApplyRetention, Purge, Restart, DiscardAsset, Discard, AssetAges, DayPasses

(* The invariant of the uploads holds at first,                            *)
LEMMA UploadInit == Init => UploadInv
  <1>1. Init => Held = {}
    BY DEF Init, AssetsInit, Held
  <1>2. Init => HeldBound
    BY <1>1, FS_EmptySet, AssetAssumption DEF HeldBound
  <1>. QED
    BY <1>2 DEF Init, AssetsInit, UploadInv, SlotGuardsRequest, Uploading, SameRequestSameBytes

(* and always.                                                             *)
LEMMA UploadHolds == Spec => []UploadInv
  <1>1. TypeOK /\ UploadInv /\ [Next]_vars => UploadInv'
    BY SlotStep, BoundStep, AnswerStep DEF UploadInv
  <1>. QED
    BY UploadInit, TypeCorrect, <1>1, PTL DEF Spec

(* An upload in progress owns its request id, for any number of concurrent  *)
(* uploads and retries and any pattern of restarts.                        *)
THEOREM UploadsDoNotCollide == Spec => []SlotGuardsRequest
  BY UploadHolds, PTL DEF UploadInv

(* Reservations of uploads in progress differ, so there are no more uploads  *)
(* than reservations                                                       *)
LEMMA OneSlotEach ==
    ASSUME TypeOK, SlotGuardsRequest, HeldBound
    PROVE  UploadsBounded
  <1>. DEFINE f == [u \in Uploading |-> ureq[u]]
  <1>1. \A u \in Uploading : ureq[u] \in Held
    BY AssetAssumption DEF SlotGuardsRequest, Uploading, Held, TypeOK, AssetsTypeOK
  <1>2. f \in Injection(Uploading, Held)
    BY <1>1 DEF SlotGuardsRequest, Injection, IsInjective
  <1>3. IsFiniteSet(Uploading) /\ Cardinality(Uploading) <= Cardinality(Held)
    BY <1>2, HeldIsFinite, FS_Injection
  <1>. QED
    BY <1>3, HeldIsFinite, FS_CardinalityType, AssetAssumption DEF HeldBound, UploadsBounded

(* The limit on concurrent uploads holds whatever the limit is.             *)
THEOREM UploadsStayBounded == Spec => []UploadsBounded
  <1>1. TypeOK /\ UploadInv => UploadsBounded
    BY OneSlotEach DEF UploadInv
  <1>. QED
    BY <1>1, TypeCorrect, UploadHolds, PTL

(* All answers for one request id name the same bytes.                      *)
THEOREM RetriesAgree == Spec => []SameRequestSameBytes
  BY UploadHolds, PTL DEF UploadInv

-----------------------------------------------------------------------------
(* Drafts and their files.                                                 *)
LEMMA ClaimStep ==
    ASSUME TypeOK, [Next]_vars, NEW d \in Draft, status[d] # "sending", status'[d] = "sending"
    PROVE  Frozen(d)
  <1>. USE DEF TypeOK, DraftsTypeOK
  <1>1. ASSUME NEW e \in Draft, DraftStep(e)
        PROVE  Frozen(d)
    <2>1. ASSUME NEW a \in Actor, ClaimWon(e, a)
          PROVE  Frozen(d)
      BY <2>1 DEF ClaimWon, ApproveAndClaim
    <2>2. CASE HumanRestore(e)
      BY <2>2 DEF HumanRestore, Restore, Review
    <2>3. CASE CreateDraft(e)
      BY <2>3 DEF CreateDraft, Create, FirstReview
    <2>4. CASE Delivered(e) \/ Rejected(e) \/ HumanCancel(e) \/ SystemCancel(e)
      BY <2>4 DEF Delivered, Rejected, HumanCancel, SystemCancel, RecordReceipt, RecordRejected, CancelBy
    <2>. QED
      BY <1>1, <2>1, <2>2, <2>3, <2>4
      DEF DraftStep, MonthPasses, Verify, ClaimedBefore, ApproveAgain, ApproveRefused, draftVars
  <1>. QED
    BY <1>1 DEF Next, UploadStep, DiscardAsset, AssetAges, PlanRetention, ApplyRetention, Restart,
                vars, ownVars, draftVars

(* No draft is ever claimed without all of its files, retention included.   *)
THEOREM ClaimsAreComplete == Spec => ClaimedWithItsFiles
  <1>1. TypeOK /\ [Next]_vars =>
          [\A d \in Draft : (status[d] # "sending" /\ status'[d] = "sending")
              => \A r \in AttachOf[d] : asset[r] = "ready"]_vars
    BY ClaimStep DEF Frozen
  <1>. QED
    BY TypeCorrect, <1>1, PTL DEF Spec, ClaimedWithItsFiles

(* What retention decided stays right for the drafts that needed their      *)
(* files then: a draft whose file is picked asked for it later.             *)
SinceCovers == \A d \in Needing : \A r \in AttachOf[d] : r \in plan => d \in since

(* A draft that ended was there.                                           *)
EndedIsThere == \A d \in Draft : status[d] = "absent" => ended[d] = "never"

RetentionInv == SinceCovers /\ EndedIsThere

(* A draft stays, and ends only once it is there.                          *)
LEMMA EndedStep ==
    ASSUME TypeOK, EndedIsThere, [Next]_vars
    PROVE  EndedIsThere'
  <1>. USE DEF TypeOK, DraftsTypeOK, EndedIsThere, Review
  <1>1. ASSUME NEW d \in Draft, DraftStep(d)
        PROVE  EndedIsThere'
    <2>1. CASE CreateDraft(d)
      BY <2>1 DEF CreateDraft, Create, FirstReview
    <2>2. CASE Delivered(d) \/ Rejected(d) \/ HumanCancel(d) \/ SystemCancel(d)
      BY <2>2 DEF Delivered, Rejected, HumanCancel, SystemCancel, RecordReceipt, RecordRejected, CancelBy, Ends
    <2>3. CASE HumanRestore(d) \/ MonthPasses(d)
      BY <2>3 DEF HumanRestore, Restore, MonthPasses, draftVars
    <2>4. ASSUME NEW a \in Actor, Verify(d, a) \/ ClaimWon(d, a) \/ ClaimedBefore(d, a) \/ ApproveRefused(d, a)
          PROVE  EndedIsThere'
      BY <2>4 DEF Verify, ClaimWon, ApproveAndClaim, ClaimedBefore, ApproveAgain, ApproveRefused, draftVars
    <2>. QED
      BY <1>1, <2>1, <2>2, <2>3, <2>4 DEF DraftStep
  <1>2. CASE UNCHANGED <<status, ended>>
    BY <1>2
  <1>. QED
    BY <1>1, <1>2 DEF Next, UploadStep, DiscardAsset, AssetAges, PlanRetention, ApplyRetention, Restart,
                      vars, ownVars, draftVars

(* The decision spares what is needed, and who comes to need files after it *)
(* is remembered.                                                          *)
LEMMA SinceStep ==
    ASSUME TypeOK, RetentionInv, [Next]_vars
    PROVE  SinceCovers'
  <1>. USE DEF RetentionInv, SinceCovers
  <1>1. CASE PlanRetention
    <2>1. Needing' = Needing
      BY <1>1 DEF PlanRetention, Needing, draftVars
    <2>2. ASSUME NEW d \in Needing, NEW r \in AttachOf[d]
          PROVE  r \notin plan'
      <3>1. d \in Users(r)
        BY DEF Needing, EndedIsThere, Users
      <3>. QED
        BY <1>1, <3>1 DEF PlanRetention, Purgeable, Needing
    <2>. QED
      BY <2>1, <2>2
  <1>2. CASE ApplyRetention
    BY <1>2 DEF ApplyRetention
  <1>3. ASSUME NEW d \in Draft, DraftStep(d), Recalled
        PROVE  SinceCovers'
    <2>1. plan' = plan
      BY <1>3 DEF DraftStep, CreateDraft, Delivered, Rejected, HumanCancel, SystemCancel, HumanRestore,
                  MonthPasses, Verify, ClaimWon, ClaimedBefore, ApproveRefused, Ends
    <2>. QED
      BY <1>3, <2>1 DEF Recalled
  <1>4. CASE UNCHANGED <<status, ended, plan, since>>
    BY <1>4 DEF Needing
  <1>. QED
    BY <1>1, <1>2, <1>3, <1>4 DEF Next, UploadStep, DiscardAsset, AssetAges, Restart, vars, ownVars, draftVars

(* A file that is needed is lost only as the property says.                 *)
LEMMA LossStep ==
    ASSUME TypeOK, RetentionInv, [Next]_vars, NEW d \in Needing, NEW r \in AttachOf[d],
           asset[r] = "ready", asset'[r] # "ready"
    PROVE  r \in plan /\ d \in since
  <1>. USE AttachAssumption DEF TypeOK, AssetsTypeOK
  <1>1. r \in Request /\ r \in Linked
    BY DEF Needing, RetentionInv, EndedIsThere, Linked
  <1>2. CASE ApplyRetention
    BY <1>1, <1>2 DEF ApplyRetention, Purge, RetentionInv, SinceCovers
  <1>3. ASSUME NEW q \in Request, DiscardAsset(q) \/ AssetAges(q)
        PROVE  FALSE
    BY <1>1, <1>3 DEF DiscardAsset, Discard, AssetAges, DayPasses
  <1>4. ASSUME NEW u \in Upload, UploadStep(u)
        PROVE  FALSE
    BY <1>1, <1>4 DEF UploadStep, StartReplay, StartUpload, Replayed, ReplayFails, BodyRead,
                      UploadFails, Store
  <1>. QED
    BY OtherSteps, <1>2, <1>3, <1>4 DEF AssetStep, Restart, assetVars

(* No draft that may still be sent or ended lately loses a file, for any    *)
(* number of drafts, files and uploads, unless it came to need the file     *)
(* after the retention run decided.                                         *)
THEOREM NeededFilesStay == Spec => NeededFilesAreKept
  <1>1. Init => RetentionInv
    BY DEF Init, RetentionInv, SinceCovers, EndedIsThere
  <1>2. TypeOK /\ RetentionInv /\ [Next]_vars => RetentionInv'
    BY SinceStep, EndedStep DEF RetentionInv
  <1>3. TypeOK /\ RetentionInv /\ [Next]_vars =>
          [\A d \in Needing : \A r \in AttachOf[d] :
              asset[r] = "ready" /\ asset'[r] # "ready" => r \in plan /\ d \in since]_vars
    BY LossStep
  <1>. QED
    BY TypeCorrect, <1>1, <1>2, <1>3, PTL DEF Spec, NeededFilesAreKept

-----------------------------------------------------------------------------

Bytes(content) == [r \in Request |-> SizeOf[content[r]]]
BytesIn(content, rows) == MapThenSumSet(LAMBDA r : SizeOf[content[r]], rows)

(* The sums of the model are totals, in this state and in the next.        *)
LEMMA BytesInIs ==
    ASSUME NEW content, NEW rows \in SUBSET Request
    PROVE  BytesIn(content, rows) = Total(Bytes(content), rows)
  <1>. DEFINE w == Bytes(content)
              P(f) == f = [s \in SUBSET rows |->
                             IF s = {} THEN 0 ELSE SizeOf[content[Pick(s)]] + f[s \ {Pick(s)}]]
              f == CHOOSE g : P(g)
              h == CHOOSE g : Sums(g, w, rows)
  <1>1. BytesIn(content, rows) = f[rows]
    BY DEF BytesIn, MapThenSumSet, MapThenFoldSet, Pick
  <1>2. ASSUME NEW g
        PROVE  P(g) <=> Sums(g, w, rows)
    <2>1. \A s \in SUBSET rows : s # {} => w[Pick(s)] = SizeOf[content[Pick(s)]]
      BY DEF Pick, Bytes
    <2>2. [s \in SUBSET rows |-> IF s = {} THEN 0 ELSE SizeOf[content[Pick(s)]] + g[s \ {Pick(s)}]]
          = [s \in SUBSET rows |-> IF s = {} THEN 0 ELSE w[Pick(s)] + g[s \ {Pick(s)}]]
      <3>. HIDE DEF w
      <3>. QED
        BY <2>1
    <2>. QED
      BY <2>2 DEF Sums
  <1>3. IsFiniteSet(rows)
    BY AssetAssumption, FS_Subset
  <1>4. Sums(h, w, rows)
    BY <1>3, SumsExist
  <1>5. Sums(f, w, rows)
    <2>. HIDE DEF P, h, w
    <2>. QED
      BY <1>2, <1>4
  <1>6. f[rows] = h[rows]
    <2>. HIDE DEF f, h, w
    <2>. QED
      BY <1>3, <1>4, <1>5, SumsAgree
  <1>. QED
    BY <1>1, <1>6, TotalIs

SumsAreTotals ==
    /\ BytesOf(Ready) = Total(Bytes(stored), Ready)
    /\ BytesOf(Loose(Linked)) = Total(Bytes(stored), Loose(Linked))
    /\ Reserved = Total(slot, Held)

LEMMA SumsNow == SumsAreTotals
  <1>1. Ready \in SUBSET Request /\ Loose(Linked) \in SUBSET Request
    BY DEF Ready, Loose
  <1>2. /\ BytesOf(Ready) = BytesIn(stored, Ready)
        /\ BytesOf(Loose(Linked)) = BytesIn(stored, Loose(Linked))
    BY DEF BytesOf, BytesIn, MapThenSumSet, MapThenFoldSet
  <1>3. Reserved = Total(slot, Held)
    BY DEF Reserved, Total, MapThenSumSet, MapThenFoldSet
  <1>. QED
    BY <1>1, <1>2, <1>3, BytesInIs DEF SumsAreTotals

LEMMA SumsNext == SumsAreTotals'
  BY SumsNow, PTL

(* Only finitely many rows are summed.                                     *)
LEMMA RowSetsAreFinite ==
    \A rows \in SUBSET Request : IsFiniteSet(rows)
  BY AssetAssumption, FS_Subset

(* The contents of stored rows have a length.                               *)
LEMMA BytesType ==
    ASSUME TypeOK
    PROVE  \A r \in Ready : Bytes(stored)[r] \in Nat
  BY AssetAssumption DEF TypeOK, AssetsTypeOK, Ready, Bytes

(* The sums are numbers, and a part is no more than the whole.             *)
LEMMA SumTypes ==
    ASSUME TypeOK
    PROVE  /\ \A rows \in SUBSET Ready : Total(Bytes(stored), rows) \in Nat
           /\ Total(slot, Held) \in Nat
  <1>1. \A rows \in SUBSET Ready : rows \in SUBSET Request
    BY DEF Ready
  <1>2. Held \in SUBSET Request /\ \A r \in Request : slot[r] \in Nat
    BY AssetAssumption DEF Held, TypeOK, AssetsTypeOK
  <1>3. \A rows \in SUBSET Ready : Total(Bytes(stored), rows) \in Nat
    BY <1>1, BytesType, RowSetsAreFinite, TotalType
  <1>. QED
    BY <1>2, <1>3, RowSetsAreFinite, TotalType

(* A link to a draft is never removed.                                     *)
LEMMA LinksStay ==
    ASSUME TypeOK, [Next]_vars
    PROVE  Linked \subseteq Linked' /\ late \subseteq late'
  <1>. USE DEF TypeOK, DraftsTypeOK, AssetsTypeOK
  <1>1. \A d \in Draft : status[d] # "absent" => status'[d] # "absent"
    <2>1. ASSUME NEW e \in Draft, DraftStep(e)
          PROVE  \A d \in Draft : status[d] # "absent" => status'[d] # "absent"
      <3>1. CASE Delivered(e) \/ Rejected(e) \/ HumanCancel(e) \/ SystemCancel(e)
        BY <3>1 DEF Delivered, Rejected, HumanCancel, SystemCancel, RecordReceipt, RecordRejected, CancelBy
      <3>2. CASE CreateDraft(e) \/ HumanRestore(e)
        BY <3>2 DEF CreateDraft, Create, HumanRestore, Restore, FirstReview, Review
      <3>3. ASSUME NEW a \in Actor, ClaimWon(e, a)
            PROVE  \A d \in Draft : status[d] # "absent" => status'[d] # "absent"
        BY <3>3 DEF ClaimWon, ApproveAndClaim
      <3>. QED
        BY <2>1, <3>1, <3>2, <3>3
        DEF DraftStep, MonthPasses, Verify, ClaimedBefore, ApproveAgain, ApproveRefused, draftVars
    <2>. QED
      BY <2>1 DEF Next, UploadStep, DiscardAsset, AssetAges, PlanRetention, ApplyRetention, Restart,
                  vars, ownVars, draftVars
  <1>2. CASE UNCHANGED assetVars
    BY <1>1, <1>2 DEF Linked, assetVars
  <1>3. CASE AssetStep
    <2>1. late \subseteq late'
      BY <1>3 DEF AssetStep, UploadStep, StartReplay, StartUpload, Replayed, ReplayFails, BodyRead,
                  UploadFails, Store, ApplyRetention, Purge, Restart, DiscardAsset, Discard,
                  AssetAges, DayPasses
    <2>. QED
      BY <1>1, <2>1 DEF Linked
  <1>. QED
    BY <1>2, <1>3, OtherSteps

(* Rows that only go, or come to be linked or late, free quota.             *)
LEMMA QuotaFrees ==
    ASSUME TypeOK, QuotaKept, slot' = slot, Ready' \subseteq Ready,
           Loose(Linked)' \subseteq Loose(Linked), \A r \in Ready : stored'[r] = stored[r]
    PROVE  QuotaKept'
  <1>1. Loose(Linked) \subseteq Ready /\ Ready \subseteq Request /\ Held' = Held
    BY DEF Loose, Ready, Held
  <1>2. ASSUME NEW now \in SUBSET Ready, NEW next \in SUBSET now
        PROVE  /\ Total(Bytes(stored'), next) <= Total(Bytes(stored), now)
               /\ Total(Bytes(stored'), next) \in Nat
               /\ Total(Bytes(stored), now) \in Nat
    <2>1. IsFiniteSet(now) /\ IsFiniteSet(next)
      BY <1>1, RowSetsAreFinite
    <2>2. Total(Bytes(stored'), next) = Total(Bytes(stored), next)
      <3>1. \A r \in next : Bytes(stored')[r] = Bytes(stored)[r]
        BY <1>1 DEF Bytes
      <3>. QED
        BY <2>1, <3>1, TotalCongruence
    <2>3. Total(Bytes(stored), next) <= Total(Bytes(stored), now)
      BY <2>1, BytesType, TotalMonotone
    <2>. QED
      BY <2>2, <2>3, SumTypes
  <1>3. Total(slot, Held) \in Nat /\ Total(slot', Held') = Total(slot, Held)
    BY <1>1, SumTypes
  <1>4. Total(Bytes(stored'), Ready') <= Total(Bytes(stored), Ready)
        /\ Total(Bytes(stored'), Ready') \in Nat /\ Total(Bytes(stored), Ready) \in Nat
    BY <1>2
  <1>5. Total(Bytes(stored'), Loose(Linked)') <= Total(Bytes(stored), Loose(Linked))
        /\ Total(Bytes(stored'), Loose(Linked)') \in Nat /\ Total(Bytes(stored), Loose(Linked)) \in Nat
    BY <1>1, <1>2
  <1>. QED
    BY <1>3, <1>4, <1>5, SumsNow, SumsNext, AssetAssumption DEF QuotaKept, SumsAreTotals

(* A reservation is only made when both quotas have room for it.            *)
LEMMA QuotaReserves ==
    ASSUME TypeOK, QuotaKept, NEW u \in Upload, NEW r \in Request, NEW c \in Content,
           NEW size \in 1..MaxFile, StartUpload(u, r, c, size, Linked), Linked' = Linked
    PROVE  QuotaKept'
  <1>1. r \notin Held /\ Held' = Held \cup {r} /\ Held \subseteq Request
    BY AssetAssumption DEF StartUpload, Reservable, Held, TypeOK, AssetsTypeOK
  <1>2. slot'[r] = size /\ \A q \in Held : slot'[q] = slot[q] /\ slot[q] \in Nat
    BY <1>1, AssetAssumption DEF StartUpload, TypeOK, AssetsTypeOK
  <1>3. Total(slot', Held') = size + Total(slot, Held)
    <2>1. IsFiniteSet(Held) /\ IsFiniteSet(Held') /\ Held' \ {r} = Held
      BY <1>1, RowSetsAreFinite
    <2>2. Total(slot', Held') = slot'[r] + Total(slot', Held)
      <3>1. \A q \in Held' : slot'[q] \in Nat
        BY <1>1, <1>2
      <3>2. r \in Held'
        BY <1>1
      <3>. HIDE DEF Held
      <3>. QED
        BY <2>1, <3>1, <3>2, TotalOfOne
    <2>3. Total(slot', Held) = Total(slot, Held)
      BY <1>2, <2>1, TotalCongruence
    <2>. QED
      BY <1>2, <2>2, <2>3
  <1>4. Ready' = Ready /\ Loose(Linked)' = Loose(Linked) /\ stored' = stored
    BY DEF StartUpload, Ready, Loose
  <1>5. /\ BytesOf(Loose(Linked)) + Reserved + size <= UnlinkedQuota
        /\ BytesOf(Ready) + Reserved + size <= TotalQuota
    BY DEF StartUpload, Reservable
  <1>6. /\ Total(Bytes(stored), Ready) \in Nat /\ Total(Bytes(stored), Loose(Linked)) \in Nat
        /\ Total(slot, Held) \in Nat
    BY SumTypes DEF Loose
  <1>. QED
    BY <1>3, <1>4, <1>5, <1>6, SumsNow, SumsNext, AssetAssumption DEF QuotaKept, SumsAreTotals

(* What a released reservation gives back.                                  *)
LEMMA SlotReleased ==
    ASSUME TypeOK, NEW r \in Held, slot' = [slot EXCEPT ![r] = 0]
    PROVE  /\ Total(slot, Held) = slot[r] + Total(slot', Held')
           /\ Total(slot', Held') \in Nat /\ slot[r] \in Nat
  <1>1. Held \subseteq Request /\ Held' = Held \ {r}
    BY AssetAssumption DEF Held, TypeOK, AssetsTypeOK
  <1>2. \A q \in Held : slot[q] \in Nat
    BY <1>1, AssetAssumption DEF TypeOK, AssetsTypeOK
  <1>3. \A q \in Held' : slot'[q] = slot[q] /\ slot'[q] \in Nat
    BY <1>1, <1>2 DEF TypeOK, AssetsTypeOK
  <1>4. IsFiniteSet(Held) /\ IsFiniteSet(Held')
    BY <1>1, RowSetsAreFinite
  <1>5. Total(slot, Held) = slot[r] + Total(slot, Held')
    BY <1>1, <1>2, <1>4, TotalOfOne
  <1>6. Total(slot', Held') = Total(slot, Held') /\ Total(slot', Held') \in Nat
    BY <1>3, <1>4, TotalCongruence, TotalType
  <1>. QED
    BY <1>2, <1>5, <1>6

(* A failed upload gives back what it reserved.                            *)
LEMMA QuotaReturns ==
    ASSUME TypeOK, SlotGuardsRequest, QuotaKept, NEW u \in Upload, UploadFails(u), Linked' = Linked
    PROVE  QuotaKept'
  <1>1. ureq[u] \in Held
    BY AssetAssumption DEF UploadFails, SlotGuardsRequest, Uploading, Held, TypeOK, AssetsTypeOK
  <1>2. /\ Total(slot, Held) = slot[ureq[u]] + Total(slot', Held')
        /\ Total(slot', Held') \in Nat /\ slot[ureq[u]] \in Nat
    BY <1>1, SlotReleased DEF UploadFails
  <1>3. Ready' = Ready /\ Loose(Linked)' = Loose(Linked) /\ stored' = stored
    BY DEF UploadFails, Ready, Loose
  <1>4. Total(Bytes(stored), Ready) \in Nat /\ Total(Bytes(stored), Loose(Linked)) \in Nat
    BY SumTypes DEF Loose
  <1>. QED
    BY <1>2, <1>3, <1>4, SumsNow, SumsNext, AssetAssumption DEF QuotaKept, SumsAreTotals

(* A stored file takes no more than was reserved for it.                    *)
LEMMA QuotaMoves ==
    ASSUME TypeOK, TypeOK', SlotGuardsRequest, QuotaKept, NEW u \in Upload, Store(u), Linked' = Linked
    PROVE  QuotaKept'
  <1>. DEFINE r == ureq[u]
              c == ucontent[u]
  <1>1. r \in Request /\ c \in Content /\ r \in Held /\ SizeOf[c] <= slot[r] /\ SizeOf[c] \in Nat
    BY AssetAssumption DEF Store, SlotGuardsRequest, Uploading, Held, TypeOK, AssetsTypeOK
  <1>2. /\ Total(slot, Held) = slot[r] + Total(slot', Held')
        /\ Total(slot', Held') \in Nat /\ slot[r] \in Nat
    BY <1>1, SlotReleased DEF Store
  <1>3. /\ r \notin Ready /\ Ready' = Ready \cup {r} /\ Ready \subseteq Request
        /\ Loose(Linked) \subseteq Ready /\ Loose(Linked)' \subseteq Loose(Linked) \cup {r}
    BY <1>1 DEF Store, Ready, Loose, TypeOK, AssetsTypeOK
  <1>4. Bytes(stored')[r] = SizeOf[c] /\ \A q \in Ready : Bytes(stored')[q] = Bytes(stored)[q]
    BY <1>1, <1>3 DEF Store, Bytes, TypeOK, AssetsTypeOK
  <1>5. \A q \in Ready \cup {r} : Bytes(stored')[q] \in Nat
    BY <1>1, <1>4, BytesType
  <1>6. ASSUME NEW rows \in SUBSET Ready
        PROVE  /\ Total(Bytes(stored'), rows \cup {r}) = SizeOf[c] + Total(Bytes(stored), rows)
               /\ Total(Bytes(stored), rows) \in Nat
    <2>1. IsFiniteSet(rows) /\ IsFiniteSet(rows \cup {r}) /\ (rows \cup {r}) \ {r} = rows
      BY <1>1, <1>3, RowSetsAreFinite
    <2>2. Total(Bytes(stored'), rows \cup {r}) = Bytes(stored')[r] + Total(Bytes(stored'), rows)
      <3>1. \A q \in rows \cup {r} : Bytes(stored')[q] \in Nat
        BY <1>5
      <3>. QED
        BY <2>1, <3>1, TotalOfOne
    <2>3. Total(Bytes(stored'), rows) = Total(Bytes(stored), rows)
      BY <1>4, <2>1, TotalCongruence
    <2>. QED
      BY <1>4, <2>2, <2>3, SumTypes
  <1>7. /\ Total(Bytes(stored'), Ready') = SizeOf[c] + Total(Bytes(stored), Ready)
        /\ Total(Bytes(stored), Ready) \in Nat
    BY <1>3, <1>6
  <1>8. /\ Total(Bytes(stored'), Loose(Linked)') <= SizeOf[c] + Total(Bytes(stored), Loose(Linked))
        /\ Total(Bytes(stored), Loose(Linked)) \in Nat
        /\ Total(Bytes(stored'), Loose(Linked)') \in Nat
    <2>1. \A q \in Loose(Linked) \cup {r} : Bytes(stored')[q] \in Nat
      BY <1>3, <1>5
    <2>2. IsFiniteSet(Loose(Linked) \cup {r}) /\ IsFiniteSet(Loose(Linked)')
      BY <1>1, <1>3, RowSetsAreFinite
    <2>3. Total(Bytes(stored'), Loose(Linked)') <= Total(Bytes(stored'), Loose(Linked) \cup {r})
      BY <1>3, <2>1, <2>2, TotalMonotone
    <2>4. Total(Bytes(stored'), Loose(Linked)') \in Nat
      BY <1>3, <2>1, <2>2, TotalType
    <2>. QED
      BY <1>3, <1>6, <2>3, <2>4
  <1>. HIDE DEF r, c
  <1>. QED
    BY <1>1, <1>2, <1>7, <1>8, SumsNow, SumsNext, AssetAssumption DEF QuotaKept, SumsAreTotals

(* No step exceeds a quota.                                                *)
LEMMA QuotaStep ==
    ASSUME TypeOK, TypeOK', SlotGuardsRequest, QuotaKept, [Next]_vars
    PROVE  QuotaKept'
  <1>1. ASSUME slot' = slot, Ready' \subseteq Ready, \A r \in Ready : stored'[r] = stored[r]
        PROVE  QuotaKept'
    <2>1. Loose(Linked)' \subseteq Loose(Linked)
      BY <1>1, LinksStay DEF Loose
    <2>. QED
      BY <1>1, <2>1, QuotaFrees
  <1>2. CASE UNCHANGED assetVars
    BY <1>1, <1>2 DEF assetVars, Ready
  <1>3. ASSUME NEW u \in Upload, UploadStep(u)
        PROVE  QuotaKept'
    <2>1. Linked' = Linked
      BY <1>3 DEF UploadStep, draftVars, Linked
    <2>2. ASSUME NEW r \in Request, NEW c \in Content, NEW size \in 1..MaxFile,
                 StartUpload(u, r, c, size, Linked)
          PROVE  QuotaKept'
      BY <2>1, <2>2, QuotaReserves
    <2>3. CASE UploadFails(u)
      BY <2>1, <2>3, QuotaReturns
    <2>4. CASE Store(u)
      BY <2>1, <2>4, QuotaMoves
    <2>5. CASE \/ \E r \in Request, c \in Content : StartReplay(u, r, c)
               \/ Replayed(u) \/ ReplayFails(u) \/ BodyRead(u)
      BY <1>1, <2>5 DEF StartReplay, Replayed, ReplayFails, BodyRead, Ready
    <2>. QED
      BY <1>3, <2>2, <2>3, <2>4, <2>5 DEF UploadStep
  <1>4. CASE ApplyRetention \/ Restart \/ \E r \in Request : DiscardAsset(r) \/ AssetAges(r)
    BY <1>1, <1>4 DEF ApplyRetention, Purge, Restart, DiscardAsset, Discard, AssetAges, DayPasses,
                      Ready, TypeOK, AssetsTypeOK
  <1>. QED
    BY <1>2, <1>3, <1>4, OtherSteps DEF AssetStep

(* Stored and reserved bytes stay within both quotas, for any files, quotas, *)
(* number of uploads in flight and pattern of restarts and retention runs.  *)
THEOREM QuotasHold == Spec => []QuotaKept
  <1>1. Init => QuotaKept
    <2>. SUFFICES ASSUME Init PROVE QuotaKept
      OBVIOUS
    <2>1. Ready = {} /\ Loose(Linked) = {} /\ Held = {}
      BY DEF Init, AssetsInit, Ready, Loose, Held
    <2>. QED
      BY <2>1, SumsNow, TotalEmpty, AssetAssumption DEF QuotaKept, SumsAreTotals
  <1>2. TypeOK /\ TypeOK' /\ UploadInv /\ QuotaKept /\ [Next]_vars => QuotaKept'
    BY QuotaStep DEF UploadInv
  <1>. QED
    BY TypeCorrect, UploadHolds, <1>1, <1>2, PTL DEF Spec
=============================================================================
