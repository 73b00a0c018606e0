---------------------------- MODULE AttachedDrafts ----------------------------
(***************************************************************************)
(* Attachments and drafts together: uploads fill the attachment store, a   *)
(* draft freezes the assets it names, an approval verifies them before and *)
(* inside the claim, and the retention script, a process of its own, clears *)
(* old assets on the same database.                                        *)
(*                                                                         *)
(* since is not in the code: the drafts that have come to need their files *)
(* after the retention run under way decided what to clear.                *)
(***************************************************************************)
EXTENDS SendDrafts, AttachmentAssets

CONSTANT AttachOf     \* the assets a draft's create request names

ASSUME AttachAssumption == AttachOf \in [Draft -> SUBSET Request]

VARIABLES ended,     \* age of the draft's last cancelled, failed or sent event
          verified,  \* approvals that hold decrypted buffers: <<draft, approver>>
          plan,      \* assets a retention run has picked and not yet cleared
          since      \* history

ownVars == <<ended, verified, plan, since>>
vars == <<draftVars, assetVars, ownVars>>

TypeOK ==
    /\ DraftsTypeOK
    /\ AssetsTypeOK
    /\ ended \in [Draft -> {"never", "recent", "old"}]
    /\ verified \subseteq Draft \X Actor
    /\ plan \subseteq Request
    /\ since \subseteq Draft

Init ==
    /\ DraftsInit
    /\ AssetsInit
    /\ ended = [d \in Draft |-> "never"]
    /\ verified = {}
    /\ plan = {} /\ since = {}

-----------------------------------------------------------------------------
Linked == UNION {AttachOf[d] : d \in {e \in Draft : status[e] # "absent"}}

UploadStep(u) ==
    /\ \/ \E r \in Request, c \in Content :
             \/ StartReplay(u, r, c)
             \/ \E size \in 1..MaxFile : StartUpload(u, r, c, size, Linked)
       \/ Replayed(u) \/ ReplayFails(u)
       \/ BodyRead(u) \/ UploadFails(u) \/ Store(u)
    /\ UNCHANGED <<draftVars, ownVars>>

DiscardAsset(r) ==
    /\ Discard(r, Linked)
    /\ UNCHANGED <<draftVars, ownVars>>

AssetAges(r) ==
    /\ DayPasses(r)
    /\ UNCHANGED <<draftVars, ownVars>>

-----------------------------------------------------------------------------
(* one mutant forgets that an asset can be gone                             *)
BadFrozen(d) == \A r \in AttachOf[d] : asset[r] # "none"

(* assertFrozenAssets: the rows themselves never change, so a frozen asset   *)
(* differs from its row only by being gone                                  *)
Frozen(d) == \A r \in AttachOf[d] : asset[r] = "ready"

(* loadBoundAssets, then the draft and its links                            *)
CreateDraft(d) ==
    /\ Frozen(d)
    /\ BytesOf(AttachOf[d]) <= MaxFile
    /\ Create(d)
    /\ UNCHANGED <<assetVars, ended, verified, plan>>

MayApprove(a, d) ==
    IF ReceiptGate /\ d \in BotDraft THEN a \in Receipt /\ d \in Covers[a]
                                     ELSE a \in Session

(* verifySendBuffers                                                        *)
Verify(d, a) ==
    /\ status[d] # "absent"
    /\ MayApprove(a, d)
    /\ Frozen(d)
    /\ verified' = verified \cup {<<d, a>>}
    /\ UNCHANGED <<draftVars, assetVars, ended, plan>>

(* the approval transaction: approve and claim both check the assets again  *)
ClaimWon(d, a) ==
    /\ <<d, a>> \in verified
    /\ Frozen(d)
    /\ ApproveAndClaim(d, a)
    /\ verified' = verified \ {<<d, a>>}
    /\ UNCHANGED <<assetVars, ended, plan>>

ClaimedBefore(d, a) ==
    /\ <<d, a>> \in verified
    /\ Frozen(d)
    /\ ApproveAgain(d, a)
    /\ verified' = verified \ {<<d, a>>}
    /\ UNCHANGED <<assetVars, ended, plan>>

ApproveRefused(d, a) ==
    /\ <<d, a>> \in verified
    /\ verified' = verified \ {<<d, a>>}
    /\ UNCHANGED <<draftVars, assetVars, ended, plan>>

Ends(d) ==
    /\ ended' = [ended EXCEPT ![d] = "recent"]
    /\ UNCHANGED <<assetVars, verified, plan>>

Delivered(d) == RecordReceipt(d) /\ Ends(d)
Rejected(d) == RecordRejected(d) /\ Ends(d)
HumanCancel(d) == CancelBy(d, "human") /\ Ends(d)
SystemCancel(d) == CancelBy(d, "system") /\ Ends(d)

HumanRestore(d) ==
    /\ Restore(d)
    /\ UNCHANGED <<assetVars, ended, verified, plan>>

-----------------------------------------------------------------------------
(* planAttachmentRetention: what is about to be sent or may still be, and   *)
(* what ended less than thirty days ago, keeps its files; a draft that asks *)
(* for something does not.                                                  *)
Needing == {d \in Draft : status[d] \in {"approved", "sending", "needs_approval"} \/ ended[d] = "recent"}

Users(r) == {d \in Draft : status[d] # "absent" /\ r \in AttachOf[d]}

BadPurgeable(r) ==
    /\ asset[r] = "ready"
    /\ \A d \in Users(r) : status[d] \notin {"approved", "sending", "needs_approval"}
    /\ IF Users(r) = {} THEN r \in late ELSE \E d \in Users(r) : ended[d] = "old"

Purgeable(r) ==
    /\ asset[r] = "ready"
    /\ \A d \in Users(r) : status[d] \notin {"approved", "sending", "needs_approval"}
    /\ IF Users(r) = {}
       THEN r \in late
       ELSE /\ \E d \in Users(r) : ended[d] # "never"
            /\ \A d \in Users(r) : ended[d] # "recent"

(* the candidates are read before the transaction that clears them          *)
PlanRetention ==
    /\ plan' = {r \in Request : Purgeable(r)} /\ since' = {}
    /\ UNCHANGED <<draftVars, assetVars, ended, verified>>

ApplyRetention ==
    /\ plan # {}
    /\ Purge(plan)
    /\ plan' = {} /\ since' = {}
    /\ UNCHANGED <<draftVars, ended, verified>>

(* RETAIN_AFTER_TERMINAL_MS passes                                          *)
MonthPasses(d) ==
    /\ ended[d] = "recent"
    /\ ended' = [ended EXCEPT ![d] = "old"]
    /\ UNCHANGED <<draftVars, assetVars, verified, plan>>

(* The server stops and starts: reservations stay as they are               *)
Restart ==
    /\ UploadsIdle
    /\ verified' = {}
    /\ UNCHANGED <<draftVars, asset, stored, late, slot, answered, ended, plan, since>>

-----------------------------------------------------------------------------
DraftStep(d) ==
    \/ CreateDraft(d) \/ Delivered(d) \/ Rejected(d)
    \/ HumanCancel(d) \/ SystemCancel(d) \/ HumanRestore(d) \/ MonthPasses(d)
    \/ \E a \in Actor :
          Verify(d, a) \/ ClaimWon(d, a) \/ ClaimedBefore(d, a) \/ ApproveRefused(d, a)

(* who has come to need files since the decision                            *)
Recalled == since' = IF plan = {} THEN {} ELSE since \cup (Needing' \ Needing)

Next ==
    \/ \E u \in Upload : UploadStep(u)
    \/ \E r \in Request : DiscardAsset(r) \/ AssetAges(r)
    \/ \E d \in Draft : DraftStep(d) /\ Recalled
    \/ PlanRetention \/ ApplyRetention
    \/ Restart

Spec == Init /\ [][Next]_vars

-----------------------------------------------------------------------------
(* Stored and reserved bytes together stay within both quotas, with uploads *)
(* in flight whose size nobody knows yet and reservations a crash left.      *)
QuotaKept ==
    /\ BytesOf(Ready) + Reserved <= TotalQuota
    /\ BytesOf(Loose(Linked)) + Reserved <= UnlinkedQuota

Uploading == {u \in Upload : upc[u] \in {"reading", "scanning"}}

(* No more than MaxUploads files are read or scanned at the same time, also  *)
(* when uploads fail or end between the reservations of others.             *)
UploadsBounded == Cardinality(Uploading) <= MaxUploads

(* An upload in progress owns the reservation of its request id: no other   *)
(* upload works on that id, none releases its reservation, and no row for   *)
(* the id appears before it is done (so upload()'s branch for a row that    *)
(* raced in, which returns without releasing, is never taken).              *)
SlotGuardsRequest ==
    \A u \in Uploading :
        /\ slot[ureq[u]] >= SizeOf[ucontent[u]]
        /\ asset[ureq[u]] # "ready"
        /\ \A v \in Uploading : ureq[v] = ureq[u] => v = u

(* A request id is only ever answered with the bytes stored for it, however  *)
(* its retries overlap (R07: same id with other bytes is a conflict).        *)
SameRequestSameBytes ==
    \A a \in answered : stored[a[1]] = a[2]

(* A draft is claimed for sending only while every file it froze is there,   *)
(* also when retention clears files between the verification and the claim.  *)
ClaimedWithItsFiles ==
    [][\A d \in Draft : (status[d] # "sending" /\ status'[d] = "sending")
          => \A r \in AttachOf[d] : asset[r] = "ready"]_vars

(* A draft that may still be sent, or ended less than thirty days ago, keeps *)
(* its files, whatever is discarded, sent, cancelled or restored while a    *)
(* retention run is between its decision and its clearing.  The one that    *)
(* can lose them is a draft that came to need them after that decision: the *)
(* run does not look again (planAttachmentRetention).                       *)
NeededFilesAreKept ==
    [][\A d \in Needing : \A r \in AttachOf[d] :
          asset[r] = "ready" /\ asset'[r] # "ready" => r \in plan /\ d \in since]_vars

(* A reservation is held only while its upload runs ("the reserved capacity  *)
(* of an aborted request is returned").                                      *)
SlotsComeBack ==
    \A r \in Held : \E u \in Uploading : ureq[u] = r
=============================================================================
