------------------------------ MODULE MailSend ------------------------------
(***************************************************************************)
(* Outgoing mail end to end: the HTTP handlers of createMailSendApi, the   *)
(* calls GraphSendClient makes, the SendReconciliationWorker that a timer  *)
(* starts, Microsoft Graph on the other side of the wire, and a process    *)
(* that may stop at any moment.                                            *)
(*                                                                         *)
(* A handler is a chain of awaits; the steps below are the stretches       *)
(* between two of them.  Transactions are the operations of SendDrafts.    *)
(***************************************************************************)
EXTENDS SendDrafts

CONSTANTS Handler,      \* requests being served at the same time
          Run,          \* runOnce calls in progress: the timer does not wait
          NoDraft,
          MaxRestarts   \* bound: how often the process is restarted

ASSUME ProcessAssumption ==
    /\ NoDraft \notin Draft
    /\ MaxRestarts \in Nat

VARIABLES hpc,     \* where a handler is
          hdraft,  \* the draft it serves
          hactor,  \* the approver it derived from the request
          hout,    \* the outcome it holds and has not recorded yet
          rtodo,   \* jobs a worker run leased and has not looked at
          rcur,    \* the job it is working on
          rout,    \* the outcome it holds for rcur
          wire,    \* what became of the sendMail POST of a draft, at Graph
          posts,   \* how many sendMail POSTs were issued for a draft
          restarts

handlerVars == <<hpc, hdraft, hactor, hout>>
runVars == <<rtodo, rcur, rout>>
wireVars == <<wire, posts>>
vars == <<draftVars, handlerVars, runVars, wireVars, restarts>>

Outcome == {"receipt", "rejected", "uncertain"}
Serving == {"claimed", "posted", "reading", "record"}  \* an approval that won its claim
Polling == {"polling", "pollrecord"}                   \* a GET that reconciles
InSentItems == {"filed"}
Taken == {"accepted", "filed", "purged"}               \* Graph will deliver the mail
Proven == {"filed", "purged"}                          \* a copy reached Sent Items

TypeOK ==
    /\ DraftsTypeOK
    /\ hpc \in [Handler -> {"idle", "checking"} \cup Serving \cup Polling]
    /\ hdraft \in [Handler -> Draft \cup {NoDraft}]
    /\ \A h \in Handler : hpc[h] = "idle" <=> hdraft[h] = NoDraft
    /\ hactor \in [Handler -> Actor \cup {NoActor}]
    /\ hout \in [Handler -> Outcome \cup {"none"}]
    /\ rtodo \in [Run -> SUBSET Draft]
    /\ rcur \in [Run -> Draft \cup {NoDraft}]
    /\ rout \in [Run -> Outcome \cup {"none"}]
    /\ wire \in [Draft -> {"none", "inflight", "refused"} \cup Taken]
    /\ posts \in [Draft -> Nat]
    /\ restarts \in 0..MaxRestarts

AllIdle ==
    /\ hpc' = [h \in Handler |-> "idle"]
    /\ hdraft' = [h \in Handler |-> NoDraft]
    /\ hactor' = [h \in Handler |-> NoActor]
    /\ hout' = [h \in Handler |-> "none"]
    /\ rtodo' = [r \in Run |-> {}]
    /\ rcur' = [r \in Run |-> NoDraft]
    /\ rout' = [r \in Run |-> "none"]

Init ==
    /\ DraftsInit
    /\ hpc = [h \in Handler |-> "idle"]
    /\ hdraft = [h \in Handler |-> NoDraft]
    /\ hactor = [h \in Handler |-> NoActor]
    /\ hout = [h \in Handler |-> "none"]
    /\ rtodo = [r \in Run |-> {}]
    /\ rcur = [r \in Run |-> NoDraft]
    /\ rout = [r \in Run |-> "none"]
    /\ wire = [d \in Draft |-> "none"]
    /\ posts = [d \in Draft |-> 0]
    /\ restarts = 0

-----------------------------------------------------------------------------
(* Requests that are one transaction.                                      *)
Quiet == UNCHANGED <<handlerVars, runVars, wireVars, restarts>>

CreateDraft(d) == Create(d) /\ Quiet
HumanCancel(d) == CancelBy(d, "human") /\ Quiet
SystemCancel(d) == CancelBy(d, "system") /\ Quiet
HumanRestore(d) == Restore(d) /\ Quiet

-----------------------------------------------------------------------------
(* POST .../approve.                                                       *)
Goto(h, pc, out) ==
    /\ hpc' = [hpc EXCEPT ![h] = pc]
    /\ hout' = [hout EXCEPT ![h] = out]
    /\ UNCHANGED <<hdraft, hactor, runVars, wireVars, restarts>>

Leave(h) ==
    /\ hpc' = [hpc EXCEPT ![h] = "idle"]
    /\ hdraft' = [hdraft EXCEPT ![h] = NoDraft]
    /\ hactor' = [hactor EXCEPT ![h] = NoActor]
    /\ hout' = [hout EXCEPT ![h] = "none"]
    /\ UNCHANGED <<runVars, wireVars, restarts>>

(* Behind the receipt gate the bot approves its own drafts with a receipt   *)
(* whose command lists them, and a session may not; otherwise only a        *)
(* session approves.                                                       *)
MayApprove(a, d) ==
    IF ReceiptGate /\ d \in BotDraft THEN a \in Receipt /\ d \in Covers[a]
                                     ELSE a \in Session

StartApprove(h, d, a) ==
    /\ hpc[h] = "idle"
    /\ status[d] # "absent"
    /\ MayApprove(a, d)
    /\ hpc' = [hpc EXCEPT ![h] = "checking"]
    /\ hdraft' = [hdraft EXCEPT ![h] = d]
    /\ hactor' = [hactor EXCEPT ![h] = a]
    /\ UNCHANGED <<draftVars, hout, runVars, wireVars, restarts>>

ApproveRefused(h) ==
    /\ hpc[h] = "checking"
    /\ Leave(h)
    /\ UNCHANGED draftVars

ClaimWon(h) ==
    /\ hpc[h] = "checking"
    /\ ApproveAndClaim(hdraft[h], hactor[h])
    /\ Goto(h, "claimed", "none")

ClaimedBefore(h) ==
    /\ hpc[h] = "checking"
    /\ ApproveAgain(hdraft[h], hactor[h])
    /\ Leave(h)

(* sendOnce checks scope, recipients, partner names and attachments again;  *)
(* when one of them fails now the handler cannot tell it from a lost POST   *)
PreflightFails(h) ==
    /\ hpc[h] = "claimed"
    /\ Goto(h, "record", "uncertain")
    /\ UNCHANGED draftVars

Post(h) ==
    /\ hpc[h] = "claimed"
    /\ hpc' = [hpc EXCEPT ![h] = "posted"]
    /\ wire' = [wire EXCEPT ![hdraft[h]] = "inflight"]
    /\ posts' = [posts EXCEPT ![hdraft[h]] = @ + 1]
    /\ UNCHANGED <<draftVars, hdraft, hactor, hout, runVars, restarts>>

(* The answer: 202, a definite 4xx, or nothing that can be relied on        *)
(* (timeout, lost response, 408, 5xx).                                     *)
BadAnswer202(h) ==
    /\ hpc[h] = "posted"
    /\ wire[hdraft[h]] \in Taken
    /\ Goto(h, "record", "receipt")
    /\ UNCHANGED draftVars

Answer202(h) ==
    /\ hpc[h] = "posted"
    /\ wire[hdraft[h]] \in Taken
    /\ Goto(h, "reading", "none")
    /\ UNCHANGED draftVars

Answer4xx(h) ==
    /\ hpc[h] = "posted"
    /\ wire[hdraft[h]] = "refused"
    /\ Goto(h, "record", "rejected")
    /\ UNCHANGED draftVars

AnswerUnknown(h) ==
    /\ hpc[h] = "posted"
    /\ Goto(h, "record", "uncertain")
    /\ UNCHANGED draftVars

(* GraphSendClient.reconcile: a receipt needs the one matching Sent Items   *)
(* message and a row still 'sending' when the scan started; every other     *)
(* scan is uncertain.                                                      *)
SeesReceipt(d) == wire[d] \in InSentItems /\ status[d] \in {"sending", "sent"}

ReceiptFound(h) ==
    /\ hpc[h] = "reading"
    /\ SeesReceipt(hdraft[h])
    /\ Goto(h, "record", "receipt")
    /\ UNCHANGED draftVars

ReceiptNotFound(h) ==
    /\ hpc[h] = "reading"
    /\ Goto(h, "record", "uncertain")
    /\ UNCHANGED draftVars

RecordAnswer(h) ==
    /\ hpc[h] = "record"
    /\ RecordOutcome(hdraft[h], hout[h])
    /\ Leave(h)

-----------------------------------------------------------------------------
(* GET .../:id of a draft that is 'sending'.  Requests for the same draft    *)
(* share one operation; whatever it throws is swallowed.                    *)
StartPoll(h, d) ==
    /\ hpc[h] = "idle"
    /\ status[d] = "sending"
    /\ \A g \in Handler : hpc[g] \in Polling => hdraft[g] # d
    /\ hpc' = [hpc EXCEPT ![h] = "polling"]
    /\ hdraft' = [hdraft EXCEPT ![h] = d]
    /\ UNCHANGED <<draftVars, hactor, hout, runVars, wireVars, restarts>>

PollFound(h) ==
    /\ hpc[h] = "polling"
    /\ SeesReceipt(hdraft[h])
    /\ Goto(h, "pollrecord", "receipt")
    /\ UNCHANGED draftVars

PollNotFound(h) ==
    /\ hpc[h] = "polling"
    /\ Goto(h, "pollrecord", "uncertain")
    /\ UNCHANGED draftVars

PollRecord(h) ==
    /\ hpc[h] = "pollrecord"
    /\ RecordOutcome(hdraft[h], hout[h])
    /\ Leave(h)

(* the token could not be had, or recordOutcome threw DRAFT_NOT_SENDING     *)
PollSwallowed(h) ==
    /\ \/ hpc[h] = "polling"
       \/ hpc[h] = "pollrecord" /\ NotRecordable(hdraft[h])
    /\ Leave(h)
    /\ UNCHANGED draftVars

-----------------------------------------------------------------------------
(* The reconciliation worker.  A run takes every due job, then looks at     *)
(* them one by one; two runs may be in progress.                            *)
Tick(r) ==
    /\ rtodo[r] = {} /\ rcur[r] = NoDraft
    /\ Due # {}
    /\ LeaseDue(Due)
    /\ rtodo' = [rtodo EXCEPT ![r] = Due]
    /\ UNCHANGED <<rcur, rout, handlerVars, wireVars, restarts>>

Look(r, d, out) ==
    /\ rcur[r] = NoDraft
    /\ d \in rtodo[r]
    /\ rtodo' = [rtodo EXCEPT ![r] = @ \ {d}]
    /\ rcur' = [rcur EXCEPT ![r] = d]
    /\ rout' = [rout EXCEPT ![r] = out]
    /\ UNCHANGED <<draftVars, handlerVars, wireVars, restarts>>

LookFound(r, d) == SeesReceipt(d) /\ Look(r, d, "receipt")
LookNotFound(r, d) == Look(r, d, "uncertain")

Next1(r) ==
    /\ rcur' = [rcur EXCEPT ![r] = NoDraft]
    /\ rout' = [rout EXCEPT ![r] = "none"]
    /\ UNCHANGED <<handlerVars, wireVars, restarts>>

Finish(r) ==
    /\ rcur[r] # NoDraft
    /\ \/ RecordAfterSent(rcur[r])
       \/ rout[r] = "receipt" /\ RecordReceipt(rcur[r])
       \/ rout[r] = "uncertain" /\ BackOff(rcur[r])
    /\ Next1(r)
    /\ UNCHANGED rtodo

(* recordOutcome throws: the run ends, and the rest of its batch stays      *)
(* leased                                                                  *)
FinishThrows(r) ==
    /\ rcur[r] # NoDraft
    /\ NotRecordable(rcur[r])
    /\ Next1(r)
    /\ rtodo' = [rtodo EXCEPT ![r] = {}]
    /\ UNCHANGED draftVars

TimePasses(d) == DueTimePasses(d) /\ Quiet

-----------------------------------------------------------------------------
(* Microsoft Graph: takes or refuses a POST whether or not anyone still     *)
(* waits for the answer, files the sent copy later, and a person may remove *)
(* that copy.                                                              *)
Graph(d, from, to) ==
    /\ wire[d] = from
    /\ wire' = [wire EXCEPT ![d] = to]
    /\ UNCHANGED <<draftVars, handlerVars, runVars, posts, restarts>>

GraphAccepts(d) == Graph(d, "inflight", "accepted")
GraphRefuses(d) == Graph(d, "inflight", "refused")
GraphFiles(d) == Graph(d, "accepted", "filed")
CopyRemoved(d) == Graph(d, "filed", "purged")

(* The process stops and starts: what was in memory is gone.               *)
Restart ==
    /\ restarts < MaxRestarts
    /\ restarts' = restarts + 1
    /\ AllIdle
    /\ UNCHANGED <<draftVars, wireVars>>

-----------------------------------------------------------------------------
ApproveStep(h) ==
    \/ \E d \in Draft, a \in Actor : StartApprove(h, d, a)
    \/ ApproveRefused(h) \/ ClaimWon(h) \/ ClaimedBefore(h)
    \/ PreflightFails(h) \/ Post(h)
    \/ Answer202(h) \/ Answer4xx(h) \/ AnswerUnknown(h)
    \/ ReceiptFound(h) \/ ReceiptNotFound(h) \/ RecordAnswer(h)

PollStep(h) ==
    \/ \E d \in Draft : StartPoll(h, d)
    \/ PollFound(h) \/ PollNotFound(h) \/ PollRecord(h) \/ PollSwallowed(h)

WorkerStep(r) ==
    \/ Tick(r) \/ Finish(r) \/ FinishThrows(r)
    \/ \E d \in Draft : LookFound(r, d) \/ LookNotFound(r, d)

DraftStep(d) ==
    \/ CreateDraft(d) \/ HumanCancel(d) \/ SystemCancel(d) \/ HumanRestore(d)
    \/ TimePasses(d)
    \/ GraphAccepts(d) \/ GraphRefuses(d) \/ GraphFiles(d) \/ CopyRemoved(d)

Next ==
    \/ \E h \in Handler : ApproveStep(h) \/ PollStep(h)
    \/ \E r \in Run : WorkerStep(r)
    \/ \E d \in Draft : DraftStep(d)
    \/ Restart

Spec == Init /\ [][Next]_vars

(* The timer keeps firing and started runs keep going; due times pass;      *)
(* Graph files what it accepted; and a Graph read that is tried again and   *)
(* again while the copy is there succeeds at some point.                    *)
Fairness ==
    /\ \A r \in Run :
          /\ WF_vars(Tick(r))
          /\ WF_vars(Finish(r))
          /\ WF_vars(FinishThrows(r))
          /\ \A d \in Draft :
                /\ WF_vars(LookFound(r, d) \/ LookNotFound(r, d))
                /\ SF_vars(LookFound(r, d))
    /\ \A d \in Draft : WF_vars(TimePasses(d)) /\ WF_vars(GraphFiles(d))

-----------------------------------------------------------------------------
(* Safety.                                                                 *)

Committed == {"sending", "sent", "failed"}

(* No draft is POSTed twice, however approvals, repeated approvals, polls,  *)
(* worker runs and restarts interleave ("A sending/ambiguous result can     *)
(* only reconcile by read; repeated approval cannot send again").           *)
AtMostOnePost == \A d \in Draft : posts[d] <= 1

(* A POST is made only for a draft whose row says so and that went through  *)
(* a legitimate approval: by a session, or, behind the receipt gate, for a  *)
(* bot's draft by a spent receipt item that lists it; never for a draft     *)
(* that was still asking for something.                                     *)
PostedWasApproved ==
    \A d \in Draft : posts[d] > 0 =>
        /\ status[d] \in Committed
        /\ d \notin Unclear \cup Incomplete
        /\ MayApprove(approvedBy[d], d)
        /\ approvedBy[d] \in Receipt => ReceiptItem(approvedBy[d], d) \in used

(* The row never claims more than Graph did: 'sent' only with a copy in     *)
(* Sent Items, 'failed' only for a mail Graph will not deliver.             *)
RecordedTruth ==
    \A d \in Draft :
        /\ status[d] = "sent" => wire[d] \in Proven
        /\ status[d] = "failed" => wire[d] = "refused"

(* One item of a receipt authorises one send: two drafts with the same      *)
(* payload listed in one command are not both approved by it.               *)
ReceiptItemSendsOnce ==
    \A d, e \in Draft :
        (d # e /\ approvedBy[d] \in Receipt /\ approvedBy[d] = approvedBy[e])
            => DigestOf[d] # DigestOf[e]

(* An approval that did not go through leaves its receipt unspent: a spent  *)
(* item belongs to a draft that left review.                                *)
SpentReceiptWasClaimed ==
    \A u \in used : \E d \in Draft :
        u[1] \in Receipt /\ d \in Covers[u[1]] /\ u[2] = DigestOf[d] /\ status[d] \in Committed

(* No draft hangs in 'sending' without a job that will look at it again,    *)
(* and the job, the row and the company memory outbox agree on 'sent'.      *)
SendingIsWatched ==
    \A d \in Draft :
        /\ status[d] = "sending" => job[d] \in {"pending", "leased"}
        /\ status[d] = "sent" <=> job[d] = "complete"
        /\ status[d] = "sent" <=> d \in outbox

(* Late answers cannot reopen a draft: once claimed it only moves to 'sent'  *)
(* or 'failed' and stays there, and what a person cancelled stays cancelled *)
(* (only system cancellations are restorable).                              *)
SettledForGood ==
    [][\A d \in Draft :
        /\ status[d] \in {"sent", "failed"} => status'[d] = status[d]
        /\ status[d] = "sending" => status'[d] \in Committed
        /\ (status[d] = "cancelled" /\ cancelledBy[d] = "human") => status'[d] = status[d]]_vars

(* A restored draft is back where review had put it: restoring is no way    *)
(* around a clarification that is still open.                               *)
RestoreKeepsReview ==
    [][\A d \in Draft :
        (status[d] = "cancelled" /\ status'[d] # "cancelled") => status'[d] = FirstReview(d)]_vars

-----------------------------------------------------------------------------
(* Liveness: a mail whose copy reached Sent Items is recorded as sent, after *)
(* lost answers and restarts too, unless somebody removes that copy first.  *)
FiledIsRecorded ==
    \A d \in Draft : wire[d] = "filed" ~> (status[d] = "sent" \/ wire[d] = "purged")

-----------------------------------------------------------------------------
(* The abstract view: every draft is handed over once and reported          *)
(* truthfully.                                                             *)
Phase(s) ==
    CASE s = "cancelled" -> "withdrawn"
      [] s = "sending" -> "committed"
      [] s = "sent" -> "delivered"
      [] s = "failed" -> "failed"
      [] OTHER -> "open"

MailAt(w) ==
    CASE w = "inflight" -> "underway"
      [] w \in Taken -> "delivered"
      [] OTHER -> w

PhaseOf == [d \in Draft |-> Phase(status[d])]
MailOf == [d \in Draft |-> MailAt(wire[d])]

Abstract == INSTANCE SendOnce WITH phase <- PhaseOf, mail <- MailOf

(* The store, the handlers, the worker and the wire together implement      *)
(* SendOnce.                                                               *)
ImplementsSendOnce == Abstract!Spec
=============================================================================
