----------------------------- MODULE SendDrafts -----------------------------
(***************************************************************************)
(* The tables behind outgoing mail and the transactions that change them:  *)
(* mail_send_drafts with its event log, mail_send_reconciliation_jobs,     *)
(* jarvis_receipt_uses and the sent-draft rows of the company memory       *)
(* outbox.  Every operation of MailSendDrafts runs in one BEGIN IMMEDIATE  *)
(* transaction without an await, so it is one atomic step here; a          *)
(* statement that throws rolls everything back and is a guard here.        *)
(*                                                                         *)
(* The module holds the operations only: MailSend says who calls them.     *)
(* A definition whose name starts with Bad is the operation after it with  *)
(* one plausible mistake; no specification uses it.                        *)
(***************************************************************************)
EXTENDS Naturals

CONSTANTS Draft,        \* every draft that will ever be submitted
          Digest,       \* payload digests
          DigestOf,     \* the digest create() freezes for a draft
          Unclear,      \* drafts whose body draftNeedsClarification() flags
          Incomplete,   \* drafts without recipient, subject or text
          BotDraft,     \* drafts with owner_principal agent:grok-bot
          Session,      \* browser sessions of the operator
          Receipt,      \* signed Jarvis decision receipts
          Covers,       \* the drafts listed in a receipt's command
          ReceiptGate,  \* jarvisReceiptGate
          NoActor

ASSUME DraftAssumption ==
    /\ DigestOf \in [Draft -> Digest]
    /\ Unclear \subseteq Draft
    /\ Incomplete \subseteq Draft
    /\ BotDraft \subseteq Draft

ASSUME ActorAssumption ==
    /\ Covers \in [Receipt -> SUBSET Draft]
    /\ ReceiptGate \in BOOLEAN
    /\ Session \cap Receipt = {}
    /\ NoActor \notin Session \cup Receipt

VARIABLES status,      \* mail_send_drafts.status, "absent" before the row exists
          approvedBy,  \* mail_send_drafts.approved_by
          reviewed,    \* the status of the latest needs_* event
          cancelledBy, \* who wrote the latest cancelled event
          job,         \* state of the draft's reconciliation job
          ripe,        \* drafts whose next_attempt_at / lease_expires_at has passed
          used,        \* jarvis_receipt_uses: pairs <<receipt, digest>>
          outbox       \* drafts with a company memory outbox row

draftVars == <<status, approvedBy, reviewed, cancelledBy, job, ripe, used, outbox>>

Review == {"needs_approval", "needs_clarification"}
Status == Review \cup {"absent", "approved", "sending", "sent", "failed", "cancelled"}
Actor == Session \cup Receipt

DraftsTypeOK ==
    /\ status \in [Draft -> Status]
    /\ approvedBy \in [Draft -> Actor \cup {NoActor}]
    /\ reviewed \in [Draft -> Review]
    /\ cancelledBy \in [Draft -> {"none", "human", "system"}]
    /\ job \in [Draft -> {"none", "pending", "leased", "complete"}]
    /\ ripe \subseteq Draft
    /\ used \subseteq Receipt \X Digest
    /\ outbox \subseteq Draft

DraftsInit ==
    /\ status = [d \in Draft |-> "absent"]
    /\ approvedBy = [d \in Draft |-> NoActor]
    /\ reviewed = [d \in Draft |-> "needs_approval"]
    /\ cancelledBy = [d \in Draft |-> "none"]
    /\ job = [d \in Draft |-> "none"]
    /\ ripe = {}
    /\ used = {}
    /\ outbox = {}

-----------------------------------------------------------------------------
(* create: a replayed request finds its row and changes nothing.           *)
FirstReview(d) ==
    IF d \in Unclear \cup Incomplete THEN "needs_clarification" ELSE "needs_approval"

Create(d) ==
    /\ status[d] = "absent"
    /\ status' = [status EXCEPT ![d] = FirstReview(d)]
    /\ reviewed' = [reviewed EXCEPT ![d] = FirstReview(d)]
    /\ UNCHANGED <<approvedBy, cancelledBy, job, ripe, used, outbox>>

(* enqueueReconciliation, called only while the row is 'sending': a job     *)
(* that is complete or leased is left alone, any other is due at once.      *)
Enqueued(d) == [job EXCEPT ![d] = IF @ \in {"complete", "leased"} THEN @ ELSE "pending"]
RipeOnEnqueue(d) == IF job[d] \in {"complete", "leased"} THEN ripe ELSE ripe \cup {d}

BadApprovable(d) == status[d] \in Review

(* The guards of approve: 409 for a body that still asks for something and  *)
(* for every status but needs_approval and those already past it.           *)
Approvable(d) == status[d] = "needs_approval" /\ d \notin Unclear
PastApproval(d) == status[d] \in {"approved", "sending", "sent"}

BadReceiptItem(a, d) == <<a, d>>

(* consumeReceiptItem: the primary key of jarvis_receipt_uses is the receipt *)
(* and the item digest, whichever draft used it.                            *)
ReceiptItem(a, d) == <<a, DigestOf[d]>>
Unused(a, d) == a \in Receipt => ReceiptItem(a, d) \notin used
UsedAfter(a, d) == IF a \in Receipt THEN used \cup {ReceiptItem(a, d)} ELSE used

BadClaimTwice(d, a) ==
    /\ Approvable(d) \/ PastApproval(d)
    /\ approvedBy' = [approvedBy EXCEPT ![d] = a]
    /\ status' = [status EXCEPT ![d] = "sending"]
    /\ job' = Enqueued(d)
    /\ ripe' = RipeOnEnqueue(d)
    /\ UNCHANGED <<reviewed, cancelledBy, outbox, used>>

BadClaimUnwatched(d, a) ==
    /\ Approvable(d)
    /\ approvedBy' = [approvedBy EXCEPT ![d] = a]
    /\ status' = [status EXCEPT ![d] = "sending"]
    /\ UNCHANGED <<reviewed, cancelledBy, outbox, used, job, ripe>>

(* approve followed by claim in the approval transaction, winning the claim *)
ApproveAndClaim(d, a) ==
    /\ Unused(a, d)
    /\ Approvable(d) \/ status[d] = "approved"
    /\ used' = UsedAfter(a, d)
    /\ approvedBy' = [approvedBy EXCEPT ![d] = IF Approvable(d) THEN a ELSE @]
    /\ status' = [status EXCEPT ![d] = "sending"]
    /\ job' = Enqueued(d)
    /\ ripe' = RipeOnEnqueue(d)
    /\ UNCHANGED <<reviewed, cancelledBy, outbox>>

(* the same transaction when the draft was claimed before: the repeated     *)
(* approval spends its receipt item and sends nothing                       *)
ApproveAgain(d, a) ==
    /\ Unused(a, d)
    /\ PastApproval(d)
    /\ status[d] # "approved"
    /\ used' = UsedAfter(a, d)
    /\ UNCHANGED <<status, approvedBy, reviewed, cancelledBy, job, ripe, outbox>>

-----------------------------------------------------------------------------
(* recordOutcome.  A row that is already 'sent' keeps its receipt and only  *)
(* repeats the outbox insert; any other row must be 'sending'.              *)
RecordAfterSent(d) ==
    /\ status[d] = "sent"
    /\ outbox' = outbox \cup {d}
    /\ UNCHANGED <<status, approvedBy, reviewed, cancelledBy, job, ripe, used>>

RecordReceipt(d) ==
    /\ status[d] = "sending"
    /\ status' = [status EXCEPT ![d] = "sent"]
    /\ job' = [job EXCEPT ![d] = IF @ = "none" THEN @ ELSE "complete"]
    /\ outbox' = outbox \cup {d}
    /\ UNCHANGED <<approvedBy, reviewed, cancelledBy, ripe, used>>

RecordRejected(d) ==
    /\ status[d] = "sending"
    /\ status' = [status EXCEPT ![d] = "failed"]
    /\ UNCHANGED <<approvedBy, reviewed, cancelledBy, job, ripe, used, outbox>>

BadRecordUncertain(d) ==
    /\ status' = [status EXCEPT ![d] = "sending"]
    /\ job' = Enqueued(d)
    /\ ripe' = RipeOnEnqueue(d)
    /\ UNCHANGED <<approvedBy, reviewed, cancelledBy, used, outbox>>

RecordUncertain(d) ==
    /\ status[d] = "sending"
    /\ job' = Enqueued(d)
    /\ ripe' = RipeOnEnqueue(d)
    /\ UNCHANGED <<status, approvedBy, reviewed, cancelledBy, used, outbox>>

RecordOutcome(d, outcome) ==
    \/ RecordAfterSent(d)
    \/ outcome = "receipt" /\ RecordReceipt(d)
    \/ outcome = "rejected" /\ RecordRejected(d)
    \/ outcome = "uncertain" /\ RecordUncertain(d)

(* recordOutcome throws DRAFT_NOT_SENDING *)
NotRecordable(d) == status[d] \notin {"sending", "sent"}

-----------------------------------------------------------------------------
BadCancelBy(d, who) ==
    /\ status[d] \in Review \cup {"approved", "sending"}
    /\ status' = [status EXCEPT ![d] = "cancelled"]
    /\ cancelledBy' = [cancelledBy EXCEPT ![d] = who]
    /\ UNCHANGED <<approvedBy, reviewed, job, ripe, used, outbox>>

(* cancel: a human may withdraw a draft until it is claimed; the system     *)
(* (already replied, handled elsewhere) only while it is under review.      *)
CancelBy(d, who) ==
    /\ status[d] \in IF who = "system" THEN Review ELSE Review \cup {"approved"}
    /\ status' = [status EXCEPT ![d] = "cancelled"]
    /\ cancelledBy' = [cancelledBy EXCEPT ![d] = who]
    /\ UNCHANGED <<approvedBy, reviewed, job, ripe, used, outbox>>

BadRestore(d) ==
    /\ status[d] = "cancelled"
    /\ cancelledBy[d] = "system"
    /\ status' = [status EXCEPT ![d] = "needs_approval"]
    /\ UNCHANGED <<approvedBy, reviewed, cancelledBy, job, ripe, used, outbox>>

(* restore: only what the system cancelled, back to its last review status  *)
Restore(d) ==
    /\ status[d] = "cancelled"
    /\ cancelledBy[d] = "system"
    /\ status' = [status EXCEPT ![d] = reviewed[d]]
    /\ UNCHANGED <<approvedBy, reviewed, cancelledBy, job, ripe, used, outbox>>

-----------------------------------------------------------------------------
(* The reconciliation jobs.  Time is abstract: a due time passes in a step  *)
(* of its own.                                                              *)
BadDue == {d \in Draft : status[d] = "sending" /\ job[d] = "pending" /\ d \in ripe}

Due == {d \in Draft : status[d] = "sending" /\ job[d] \in {"pending", "leased"} /\ d \in ripe}

(* claimDue leases every due job *)
LeaseDue(batch) ==
    /\ job' = [d \in Draft |-> IF d \in batch THEN "leased" ELSE job[d]]
    /\ ripe' = ripe \ batch
    /\ UNCHANGED <<status, approvedBy, reviewed, cancelledBy, used, outbox>>

(* finish after an uncertain answer: recordOutcome, then, when the worker   *)
(* still owns the lease, the job waits for its backoff                      *)
BackOff(d) ==
    /\ status[d] = "sending"
    /\ job' = [job EXCEPT ![d] = IF @ = "complete" THEN @ ELSE "pending"]
    /\ ripe' = IF job[d] = "leased" THEN ripe \ {d} ELSE RipeOnEnqueue(d)
    /\ UNCHANGED <<status, approvedBy, reviewed, cancelledBy, used, outbox>>

DueTimePasses(d) ==
    /\ job[d] \in {"pending", "leased"}
    /\ d \notin ripe
    /\ ripe' = ripe \cup {d}
    /\ UNCHANGED <<status, approvedBy, reviewed, cancelledBy, job, used, outbox>>
=============================================================================
