--------------------------- MODULE MailSendProofs ---------------------------
(***************************************************************************)
(* Proofs about what an operator reads and answers: the sending of a draft, *)
(* for any number of drafts, requests, worker runs and restarts, the reply  *)
(* drafts of a mailbox, and the screen that shows its mails.                *)
(*                                                                          *)
(* Core is the inductive invariant of the sending: the properties of the    *)
(* tables alone are not inductive, because an answer that a handler or a    *)
(* worker run still holds in memory will be written later.                  *)
(*                                                                          *)
(* That an undo restores everything is not inductive: a draft may be        *)
(* cancelled for a mark that is gone as long as the undo still has it to    *)
(* do (OnlyUndoOwes), and a sync must not cancel for a mark it read and     *)
(* that was undone since (CancelsForMarks): marks change only while the     *)
(* server rests.  That a restore holds needs that what a run read of the    *)
(* Sent folder is there (RunsReadWhatIsSent).                               *)
(***************************************************************************)
EXTENDS MCReplies, TLAPS

(* Recording an outcome keeps the types of the drafts.                     *)
LEMMA RecordType ==
    ASSUME NEW d \in Draft, NEW out, DraftsTypeOK, RecordOutcome(d, out)
    PROVE  DraftsTypeOK'
<1>1. CASE RecordAfterSent(d)
  BY <1>1 DEF RecordAfterSent, DraftsTypeOK
<1>2. CASE RecordReceipt(d)
  BY <1>2 DEF RecordReceipt, DraftsTypeOK, Status
<1>3. CASE RecordRejected(d)
  BY <1>3 DEF RecordRejected, DraftsTypeOK, Status
<1>4. CASE RecordUncertain(d)
  BY <1>4 DEF RecordUncertain, Enqueued, RipeOnEnqueue, DraftsTypeOK
<1>5. QED
  BY <1>1, <1>2, <1>3, <1>4 DEF RecordOutcome

(* So does every step.                                                     *)
LEMMA TypeStep == TypeOK /\ [Next]_vars => TypeOK'
<1> SUFFICES ASSUME TypeOK, [Next]_vars PROVE TypeOK'
  OBVIOUS
<1> USE DraftAssumption, ActorAssumption, ProcessAssumption
<1>1. CASE UNCHANGED vars
  BY <1>1 DEF vars, draftVars, handlerVars, runVars, wireVars, TypeOK, DraftsTypeOK,
      Actor, Outcome, Serving, Polling, Status, Review, Taken
<1>2. ASSUME NEW h \in Handler, NEW d \in Draft, NEW a \in Actor, StartApprove(h, d, a)
      PROVE  TypeOK'
  BY <1>2 DEF StartApprove, MayApprove, vars, draftVars, handlerVars, runVars,
      wireVars, TypeOK, DraftsTypeOK, Actor, Outcome, Serving, Polling,
      Status, Review, Taken
<1>3. ASSUME NEW h \in Handler, ApproveRefused(h) PROVE TypeOK'
  BY <1>3 DEF ApproveRefused, Leave, vars, draftVars, handlerVars, runVars, wireVars,
      TypeOK, DraftsTypeOK, Actor, Outcome, Serving, Polling, Status, Review,
      Taken
<1>4. ASSUME NEW h \in Handler, ClaimWon(h) PROVE TypeOK'
  BY <1>4 DEF ClaimWon, Goto, ApproveAndClaim, Enqueued, RipeOnEnqueue, UsedAfter,
      ReceiptItem, Approvable, Unused, vars, draftVars, handlerVars, runVars,
      wireVars, TypeOK, DraftsTypeOK, Actor, Outcome, Serving, Polling,
      Status, Review, Taken
<1>5. ASSUME NEW h \in Handler, ClaimedBefore(h) PROVE TypeOK'
  BY <1>5 DEF ClaimedBefore, ApproveAgain, UsedAfter, ReceiptItem, Leave,
      PastApproval, Unused, vars, draftVars, handlerVars, runVars, wireVars,
      TypeOK, DraftsTypeOK, Actor, Outcome, Serving, Polling, Status, Review,
      Taken
<1>6. ASSUME NEW h \in Handler, PreflightFails(h) PROVE TypeOK'
  BY <1>6 DEF PreflightFails, Goto, vars, draftVars, handlerVars, runVars, wireVars,
      TypeOK, DraftsTypeOK, Actor, Outcome, Serving, Polling, Status, Review,
      Taken
<1>7. ASSUME NEW h \in Handler, Post(h) PROVE TypeOK'
  BY <1>7 DEF Post, vars, draftVars, handlerVars, runVars, wireVars, TypeOK,
      DraftsTypeOK, Actor, Outcome, Serving, Polling, Status, Review, Taken
<1>8. ASSUME NEW h \in Handler, Answer202(h) PROVE TypeOK'
  BY <1>8 DEF Answer202, Goto, vars, draftVars, handlerVars, runVars, wireVars,
      TypeOK, DraftsTypeOK, Actor, Outcome, Serving, Polling, Status, Review,
      Taken
<1>9. ASSUME NEW h \in Handler, Answer4xx(h) PROVE TypeOK'
  BY <1>9 DEF Answer4xx, Goto, vars, draftVars, handlerVars, runVars, wireVars,
      TypeOK, DraftsTypeOK, Actor, Outcome, Serving, Polling, Status, Review,
      Taken
<1>10. ASSUME NEW h \in Handler, AnswerUnknown(h) PROVE TypeOK'
  BY <1>10 DEF AnswerUnknown, Goto, vars, draftVars, handlerVars, runVars, wireVars,
      TypeOK, DraftsTypeOK, Actor, Outcome, Serving, Polling, Status, Review,
      Taken
<1>11. ASSUME NEW h \in Handler, ReceiptFound(h) PROVE TypeOK'
  BY <1>11 DEF ReceiptFound, Goto, SeesReceipt, InSentItems, vars, draftVars,
      handlerVars, runVars, wireVars, TypeOK, DraftsTypeOK, Actor, Outcome,
      Serving, Polling, Status, Review, Taken
<1>12. ASSUME NEW h \in Handler, ReceiptNotFound(h) PROVE TypeOK'
  BY <1>12 DEF ReceiptNotFound, Goto, vars, draftVars, handlerVars, runVars, wireVars,
      TypeOK, DraftsTypeOK, Actor, Outcome, Serving, Polling, Status, Review,
      Taken
<1>13. ASSUME NEW h \in Handler, RecordAnswer(h) PROVE TypeOK'
  <2>1. hdraft[h] \in Draft
    BY <1>13 DEF RecordAnswer, TypeOK
  <2>2. PICK d \in Draft : d = hdraft[h] /\ RecordOutcome(d, hout[h])
    BY <2>1, <1>13 DEF RecordAnswer
  <2>3. DraftsTypeOK'
    BY <2>2, RecordType DEF TypeOK
  <2> QED
    BY <2>3, <1>13 DEF RecordAnswer, Leave, vars, draftVars, handlerVars, runVars, wireVars,
      TypeOK, DraftsTypeOK, Actor, Outcome, Serving, Polling, Status, Review,
      Taken
<1>14. ASSUME NEW h \in Handler, NEW d \in Draft, StartPoll(h, d) PROVE TypeOK'
  BY <1>14 DEF StartPoll, vars, draftVars, handlerVars, runVars, wireVars, TypeOK,
      DraftsTypeOK, Actor, Outcome, Serving, Polling, Status, Review, Taken
<1>15. ASSUME NEW h \in Handler, PollFound(h) PROVE TypeOK'
  BY <1>15 DEF PollFound, Goto, SeesReceipt, InSentItems, vars, draftVars,
      handlerVars, runVars, wireVars, TypeOK, DraftsTypeOK, Actor, Outcome,
      Serving, Polling, Status, Review, Taken
<1>16. ASSUME NEW h \in Handler, PollNotFound(h) PROVE TypeOK'
  BY <1>16 DEF PollNotFound, Goto, vars, draftVars, handlerVars, runVars, wireVars,
      TypeOK, DraftsTypeOK, Actor, Outcome, Serving, Polling, Status, Review,
      Taken
<1>17. ASSUME NEW h \in Handler, PollRecord(h) PROVE TypeOK'
  <2>1. hdraft[h] \in Draft
    BY <1>17 DEF PollRecord, TypeOK
  <2>2. PICK d \in Draft : d = hdraft[h] /\ RecordOutcome(d, hout[h])
    BY <2>1, <1>17 DEF PollRecord
  <2>3. DraftsTypeOK'
    BY <2>2, RecordType DEF TypeOK
  <2> QED
    BY <2>3, <1>17 DEF PollRecord, Leave, vars, draftVars, handlerVars, runVars, wireVars,
      TypeOK, DraftsTypeOK, Actor, Outcome, Serving, Polling, Status, Review,
      Taken
<1>18. ASSUME NEW h \in Handler, PollSwallowed(h) PROVE TypeOK'
  BY <1>18 DEF PollSwallowed, Leave, NotRecordable, vars, draftVars, handlerVars,
      runVars, wireVars, TypeOK, DraftsTypeOK, Actor, Outcome, Serving,
      Polling, Status, Review, Taken
<1>19. ASSUME NEW r \in Run, Tick(r) PROVE TypeOK'
  BY <1>19 DEF Tick, LeaseDue, Due, vars, draftVars, handlerVars, runVars, wireVars,
      TypeOK, DraftsTypeOK, Actor, Outcome, Serving, Polling, Status, Review,
      Taken
<1>20. ASSUME NEW r \in Run, Finish(r) PROVE TypeOK'
  BY <1>20 DEF Finish, Next1, RecordAfterSent, RecordReceipt, BackOff, RipeOnEnqueue,
      vars, draftVars, handlerVars, runVars, wireVars, TypeOK, DraftsTypeOK,
      Actor, Outcome, Serving, Polling, Status, Review, Taken
<1>21. ASSUME NEW r \in Run, FinishThrows(r) PROVE TypeOK'
  BY <1>21 DEF FinishThrows, Next1, NotRecordable, vars, draftVars, handlerVars,
      runVars, wireVars, TypeOK, DraftsTypeOK, Actor, Outcome, Serving,
      Polling, Status, Review, Taken
<1>22. ASSUME NEW r \in Run, NEW d \in Draft, LookFound(r, d) PROVE TypeOK'
  BY <1>22 DEF LookFound, Look, SeesReceipt, InSentItems, vars, draftVars,
      handlerVars, runVars, wireVars, TypeOK, DraftsTypeOK, Actor, Outcome,
      Serving, Polling, Status, Review, Taken
<1>23. ASSUME NEW r \in Run, NEW d \in Draft, LookNotFound(r, d) PROVE TypeOK'
  BY <1>23 DEF LookNotFound, Look, vars, draftVars, handlerVars, runVars, wireVars,
      TypeOK, DraftsTypeOK, Actor, Outcome, Serving, Polling, Status, Review,
      Taken
<1>24. ASSUME NEW d \in Draft, CreateDraft(d) PROVE TypeOK'
  BY <1>24 DEF CreateDraft, Create, FirstReview, Quiet, vars, draftVars, handlerVars,
      runVars, wireVars, TypeOK, DraftsTypeOK, Actor, Outcome, Serving,
      Polling, Status, Review, Taken
<1>25. ASSUME NEW d \in Draft, HumanCancel(d) PROVE TypeOK'
  BY <1>25 DEF HumanCancel, CancelBy, Quiet, vars, draftVars, handlerVars, runVars,
      wireVars, TypeOK, DraftsTypeOK, Actor, Outcome, Serving, Polling,
      Status, Review, Taken
<1>26. ASSUME NEW d \in Draft, SystemCancel(d) PROVE TypeOK'
  BY <1>26 DEF SystemCancel, CancelBy, Quiet, vars, draftVars, handlerVars, runVars,
      wireVars, TypeOK, DraftsTypeOK, Actor, Outcome, Serving, Polling,
      Status, Review, Taken
<1>27. ASSUME NEW d \in Draft, HumanRestore(d) PROVE TypeOK'
  BY <1>27 DEF HumanRestore, Restore, Quiet, vars, draftVars, handlerVars, runVars,
      wireVars, TypeOK, DraftsTypeOK, Actor, Outcome, Serving, Polling,
      Status, Review, Taken
<1>28. ASSUME NEW d \in Draft, TimePasses(d) PROVE TypeOK'
  BY <1>28 DEF TimePasses, DueTimePasses, Quiet, vars, draftVars, handlerVars,
      runVars, wireVars, TypeOK, DraftsTypeOK, Actor, Outcome, Serving,
      Polling, Status, Review, Taken
<1>29. ASSUME NEW d \in Draft, GraphAccepts(d) PROVE TypeOK'
  BY <1>29 DEF GraphAccepts, Graph, vars, draftVars, handlerVars, runVars, wireVars,
      TypeOK, DraftsTypeOK, Actor, Outcome, Serving, Polling, Status, Review,
      Taken
<1>30. ASSUME NEW d \in Draft, GraphRefuses(d) PROVE TypeOK'
  BY <1>30 DEF GraphRefuses, Graph, vars, draftVars, handlerVars, runVars, wireVars,
      TypeOK, DraftsTypeOK, Actor, Outcome, Serving, Polling, Status, Review,
      Taken
<1>31. ASSUME NEW d \in Draft, GraphFiles(d) PROVE TypeOK'
  BY <1>31 DEF GraphFiles, Graph, vars, draftVars, handlerVars, runVars, wireVars,
      TypeOK, DraftsTypeOK, Actor, Outcome, Serving, Polling, Status, Review,
      Taken
<1>32. ASSUME NEW d \in Draft, CopyRemoved(d) PROVE TypeOK'
  BY <1>32 DEF CopyRemoved, Graph, vars, draftVars, handlerVars, runVars, wireVars,
      TypeOK, DraftsTypeOK, Actor, Outcome, Serving, Polling, Status, Review,
      Taken
<1>33. CASE Restart
  BY <1>33 DEF Restart, AllIdle, vars, draftVars, handlerVars, runVars, wireVars,
      TypeOK, DraftsTypeOK, Actor, Outcome, Serving, Polling, Status, Review,
      Taken
<1>34. QED
  BY <1>1, <1>2, <1>3, <1>4, <1>5, <1>6, <1>7, <1>8, <1>9, <1>10, <1>11, <1>12, <1>13, <1>14, <1>15, <1>16, <1>17, <1>18, <1>19, <1>20, <1>21, <1>22, <1>23, <1>24, <1>25, <1>26, <1>27, <1>28, <1>29, <1>30, <1>31, <1>32, <1>33
  DEF Next, ApproveStep, PollStep, WorkerStep, DraftStep

(* Every reachable state is well typed, and a busy handler serves a draft.  *)
THEOREM TypeCorrect == Spec => []TypeOK
<1>1. Init => TypeOK
  BY ProcessAssumption DEF Init, DraftsInit, TypeOK, DraftsTypeOK, Status, Review
<1>2. QED
  BY <1>1, TypeStep, PTL DEF Spec

-----------------------------------------------------------------------------
Untouched(d) == posts[d] = 0 /\ wire[d] = "none"

(* the table and the wire *)
DraftTruth ==
    \A d \in Draft :
        /\ posts[d] <= 1
        /\ status[d] \notin Committed => Untouched(d)
        /\ status[d] = "sent" => wire[d] \in Proven
        /\ status[d] = "failed" => wire[d] = "refused"
        /\ status[d] # "approved"

(* the claim gives a draft to one handler at most *)
OneServer ==
    \A g, h \in Handler :
        (hpc[g] \in Serving /\ hpc[h] \in Serving /\ hdraft[g] = hdraft[h]) => g = h

(* what a handler holds in memory *)
HandlerTruth ==
    \A h \in Handler :
        /\ hpc[h] \in Serving => status[hdraft[h]] \in Committed
        /\ hpc[h] = "claimed" => status[hdraft[h]] = "sending" /\ Untouched(hdraft[h])
        /\ hout[h] = "receipt" => wire[hdraft[h]] \in Proven
        /\ hout[h] = "rejected" => wire[hdraft[h]] = "refused"
        /\ hpc[h] = "idle" => hout[h] = "none"
        /\ hpc[h] = "checking" => hactor[h] \in Actor /\ MayApprove(hactor[h], hdraft[h])

(* what a worker run holds in memory *)
RunTruth ==
    \A r \in Run : rout[r] = "receipt" => rcur[r] \in Draft /\ wire[rcur[r]] \in Proven

Core == TypeOK /\ DraftTruth /\ OneServer /\ HandlerTruth /\ RunTruth

(* Core is inductive:                                                      *)
LEMMA CoreStep == Core /\ [Next]_vars => Core'
<1> SUFFICES ASSUME Core, [Next]_vars PROVE Core'
  OBVIOUS
<1> USE DraftAssumption, ActorAssumption, ProcessAssumption
<1>0. TypeOK /\ TypeOK'
  BY TypeStep DEF Core
<1>1. CASE UNCHANGED vars
  BY <1>1, <1>0 DEF vars, draftVars, handlerVars, runVars, wireVars, Core, DraftTruth,
      OneServer, HandlerTruth, RunTruth, Untouched, Committed, Serving,
      Polling, Proven, Taken, Review, TypeOK, DraftsTypeOK, Actor,
      MayApprove
<1>2. ASSUME NEW h \in Handler, NEW d \in Draft, NEW a \in Actor, StartApprove(h, d, a)
      PROVE  Core'
  BY <1>2, <1>0 DEF StartApprove, MayApprove, vars, draftVars, handlerVars, runVars,
      wireVars, Core, DraftTruth, OneServer, HandlerTruth, RunTruth,
      Untouched, Committed, Serving, Polling, Proven, Taken, Review, TypeOK,
      DraftsTypeOK, Actor
<1>3. ASSUME NEW h \in Handler, ApproveRefused(h) PROVE Core'
  BY <1>3, <1>0 DEF ApproveRefused, Leave, vars, draftVars, handlerVars, runVars, wireVars,
      Core, DraftTruth, OneServer, HandlerTruth, RunTruth, Untouched,
      Committed, Serving, Polling, Proven, Taken, Review, TypeOK,
      DraftsTypeOK, Actor, MayApprove
<1>4. ASSUME NEW h \in Handler, ClaimWon(h) PROVE Core'
  BY <1>4, <1>0 DEF ClaimWon, Goto, ApproveAndClaim, Enqueued, RipeOnEnqueue, UsedAfter,
      ReceiptItem, Approvable, Unused, vars, draftVars, handlerVars, runVars,
      wireVars, Core, DraftTruth, OneServer, HandlerTruth, RunTruth,
      Untouched, Committed, Serving, Polling, Proven, Taken, Review, TypeOK,
      DraftsTypeOK, Actor, MayApprove
<1>5. ASSUME NEW h \in Handler, ClaimedBefore(h) PROVE Core'
  BY <1>5, <1>0 DEF ClaimedBefore, ApproveAgain, UsedAfter, ReceiptItem, Leave,
      PastApproval, Unused, vars, draftVars, handlerVars, runVars, wireVars,
      Core, DraftTruth, OneServer, HandlerTruth, RunTruth, Untouched,
      Committed, Serving, Polling, Proven, Taken, Review, TypeOK,
      DraftsTypeOK, Actor, MayApprove
<1>6. ASSUME NEW h \in Handler, PreflightFails(h) PROVE Core'
  BY <1>6, <1>0 DEF PreflightFails, Goto, vars, draftVars, handlerVars, runVars, wireVars,
      Core, DraftTruth, OneServer, HandlerTruth, RunTruth, Untouched,
      Committed, Serving, Polling, Proven, Taken, Review, TypeOK,
      DraftsTypeOK, Actor, MayApprove
<1>7. ASSUME NEW h \in Handler, Post(h) PROVE Core'
  BY <1>7, <1>0 DEF Post, vars, draftVars, handlerVars, runVars, wireVars, Core,
      DraftTruth, OneServer, HandlerTruth, RunTruth, Untouched, Committed,
      Serving, Polling, Proven, Taken, Review, TypeOK, DraftsTypeOK, Actor,
      MayApprove
<1>8. ASSUME NEW h \in Handler, Answer202(h) PROVE Core'
  BY <1>8, <1>0 DEF Answer202, Goto, vars, draftVars, handlerVars, runVars, wireVars, Core,
      DraftTruth, OneServer, HandlerTruth, RunTruth, Untouched, Committed,
      Serving, Polling, Proven, Taken, Review, TypeOK, DraftsTypeOK, Actor,
      MayApprove
<1>9. ASSUME NEW h \in Handler, Answer4xx(h) PROVE Core'
  BY <1>9, <1>0 DEF Answer4xx, Goto, vars, draftVars, handlerVars, runVars, wireVars, Core,
      DraftTruth, OneServer, HandlerTruth, RunTruth, Untouched, Committed,
      Serving, Polling, Proven, Taken, Review, TypeOK, DraftsTypeOK, Actor,
      MayApprove
<1>10. ASSUME NEW h \in Handler, AnswerUnknown(h) PROVE Core'
  BY <1>10, <1>0 DEF AnswerUnknown, Goto, vars, draftVars, handlerVars, runVars, wireVars,
      Core, DraftTruth, OneServer, HandlerTruth, RunTruth, Untouched,
      Committed, Serving, Polling, Proven, Taken, Review, TypeOK,
      DraftsTypeOK, Actor, MayApprove
<1>11. ASSUME NEW h \in Handler, ReceiptFound(h) PROVE Core'
  BY <1>11, <1>0 DEF ReceiptFound, Goto, SeesReceipt, InSentItems, vars, draftVars,
      handlerVars, runVars, wireVars, Core, DraftTruth, OneServer,
      HandlerTruth, RunTruth, Untouched, Committed, Serving, Polling, Proven,
      Taken, Review, TypeOK, DraftsTypeOK, Actor, MayApprove
<1>12. ASSUME NEW h \in Handler, ReceiptNotFound(h) PROVE Core'
  BY <1>12, <1>0 DEF ReceiptNotFound, Goto, vars, draftVars, handlerVars, runVars, wireVars,
      Core, DraftTruth, OneServer, HandlerTruth, RunTruth, Untouched,
      Committed, Serving, Polling, Proven, Taken, Review, TypeOK,
      DraftsTypeOK, Actor, MayApprove
<1>13. ASSUME NEW h \in Handler, RecordAnswer(h) PROVE Core'
  BY <1>13, <1>0 DEF RecordAnswer, Leave, RecordOutcome, RecordAfterSent, RecordReceipt,
      RecordRejected, RecordUncertain, Enqueued, RipeOnEnqueue, vars,
      draftVars, handlerVars, runVars, wireVars, Core, DraftTruth, OneServer,
      HandlerTruth, RunTruth, Untouched, Committed, Serving, Polling, Proven,
      Taken, Review, TypeOK, DraftsTypeOK, Actor, MayApprove
<1>14. ASSUME NEW h \in Handler, NEW d \in Draft, StartPoll(h, d) PROVE Core'
  BY <1>14, <1>0 DEF StartPoll, vars, draftVars, handlerVars, runVars, wireVars, Core,
      DraftTruth, OneServer, HandlerTruth, RunTruth, Untouched, Committed,
      Serving, Polling, Proven, Taken, Review, TypeOK, DraftsTypeOK, Actor,
      MayApprove
<1>15. ASSUME NEW h \in Handler, PollFound(h) PROVE Core'
  BY <1>15, <1>0 DEF PollFound, Goto, SeesReceipt, InSentItems, vars, draftVars,
      handlerVars, runVars, wireVars, Core, DraftTruth, OneServer,
      HandlerTruth, RunTruth, Untouched, Committed, Serving, Polling, Proven,
      Taken, Review, TypeOK, DraftsTypeOK, Actor, MayApprove
<1>16. ASSUME NEW h \in Handler, PollNotFound(h) PROVE Core'
  BY <1>16, <1>0 DEF PollNotFound, Goto, vars, draftVars, handlerVars, runVars, wireVars,
      Core, DraftTruth, OneServer, HandlerTruth, RunTruth, Untouched,
      Committed, Serving, Polling, Proven, Taken, Review, TypeOK,
      DraftsTypeOK, Actor, MayApprove
<1>17. ASSUME NEW h \in Handler, PollRecord(h) PROVE Core'
  BY <1>17, <1>0 DEF PollRecord, Leave, RecordOutcome, RecordAfterSent, RecordReceipt,
      RecordRejected, RecordUncertain, Enqueued, RipeOnEnqueue, vars,
      draftVars, handlerVars, runVars, wireVars, Core, DraftTruth, OneServer,
      HandlerTruth, RunTruth, Untouched, Committed, Serving, Polling, Proven,
      Taken, Review, TypeOK, DraftsTypeOK, Actor, MayApprove
<1>18. ASSUME NEW h \in Handler, PollSwallowed(h) PROVE Core'
  BY <1>18, <1>0 DEF PollSwallowed, Leave, NotRecordable, vars, draftVars, handlerVars,
      runVars, wireVars, Core, DraftTruth, OneServer, HandlerTruth, RunTruth,
      Untouched, Committed, Serving, Polling, Proven, Taken, Review, TypeOK,
      DraftsTypeOK, Actor, MayApprove
<1>19. ASSUME NEW r \in Run, Tick(r) PROVE Core'
  BY <1>19, <1>0 DEF Tick, LeaseDue, Due, vars, draftVars, handlerVars, runVars, wireVars,
      Core, DraftTruth, OneServer, HandlerTruth, RunTruth, Untouched,
      Committed, Serving, Polling, Proven, Taken, Review, TypeOK,
      DraftsTypeOK, Actor, MayApprove
<1>20. ASSUME NEW r \in Run, Finish(r) PROVE Core'
  BY <1>20, <1>0 DEF Finish, Next1, RecordAfterSent, RecordReceipt, BackOff, RipeOnEnqueue,
      vars, draftVars, handlerVars, runVars, wireVars, Core, DraftTruth,
      OneServer, HandlerTruth, RunTruth, Untouched, Committed, Serving,
      Polling, Proven, Taken, Review, TypeOK, DraftsTypeOK, Actor,
      MayApprove
<1>21. ASSUME NEW r \in Run, FinishThrows(r) PROVE Core'
  BY <1>21, <1>0 DEF FinishThrows, Next1, NotRecordable, vars, draftVars, handlerVars,
      runVars, wireVars, Core, DraftTruth, OneServer, HandlerTruth, RunTruth,
      Untouched, Committed, Serving, Polling, Proven, Taken, Review, TypeOK,
      DraftsTypeOK, Actor, MayApprove
<1>22. ASSUME NEW r \in Run, NEW d \in Draft, LookFound(r, d) PROVE Core'
  BY <1>22, <1>0 DEF LookFound, Look, SeesReceipt, InSentItems, vars, draftVars,
      handlerVars, runVars, wireVars, Core, DraftTruth, OneServer,
      HandlerTruth, RunTruth, Untouched, Committed, Serving, Polling, Proven,
      Taken, Review, TypeOK, DraftsTypeOK, Actor, MayApprove
<1>23. ASSUME NEW r \in Run, NEW d \in Draft, LookNotFound(r, d) PROVE Core'
  BY <1>23, <1>0 DEF LookNotFound, Look, vars, draftVars, handlerVars, runVars, wireVars,
      Core, DraftTruth, OneServer, HandlerTruth, RunTruth, Untouched,
      Committed, Serving, Polling, Proven, Taken, Review, TypeOK,
      DraftsTypeOK, Actor, MayApprove
<1>24. ASSUME NEW d \in Draft, CreateDraft(d) PROVE Core'
  BY <1>24, <1>0 DEF CreateDraft, Create, FirstReview, Quiet, vars, draftVars, handlerVars,
      runVars, wireVars, Core, DraftTruth, OneServer, HandlerTruth, RunTruth,
      Untouched, Committed, Serving, Polling, Proven, Taken, Review, TypeOK,
      DraftsTypeOK, Actor, MayApprove
<1>25. ASSUME NEW d \in Draft, HumanCancel(d) PROVE Core'
  BY <1>25, <1>0 DEF HumanCancel, CancelBy, Quiet, vars, draftVars, handlerVars, runVars,
      wireVars, Core, DraftTruth, OneServer, HandlerTruth, RunTruth,
      Untouched, Committed, Serving, Polling, Proven, Taken, Review, TypeOK,
      DraftsTypeOK, Actor, MayApprove
<1>26. ASSUME NEW d \in Draft, SystemCancel(d) PROVE Core'
  BY <1>26, <1>0 DEF SystemCancel, CancelBy, Quiet, vars, draftVars, handlerVars, runVars,
      wireVars, Core, DraftTruth, OneServer, HandlerTruth, RunTruth,
      Untouched, Committed, Serving, Polling, Proven, Taken, Review, TypeOK,
      DraftsTypeOK, Actor, MayApprove
<1>27. ASSUME NEW d \in Draft, HumanRestore(d) PROVE Core'
  BY <1>27, <1>0 DEF HumanRestore, Restore, Quiet, vars, draftVars, handlerVars, runVars,
      wireVars, Core, DraftTruth, OneServer, HandlerTruth, RunTruth,
      Untouched, Committed, Serving, Polling, Proven, Taken, Review, TypeOK,
      DraftsTypeOK, Actor, MayApprove
<1>28. ASSUME NEW d \in Draft, TimePasses(d) PROVE Core'
  BY <1>28, <1>0 DEF TimePasses, DueTimePasses, Quiet, vars, draftVars, handlerVars,
      runVars, wireVars, Core, DraftTruth, OneServer, HandlerTruth, RunTruth,
      Untouched, Committed, Serving, Polling, Proven, Taken, Review, TypeOK,
      DraftsTypeOK, Actor, MayApprove
<1>29. ASSUME NEW d \in Draft, GraphAccepts(d) PROVE Core'
  BY <1>29, <1>0 DEF GraphAccepts, Graph, vars, draftVars, handlerVars, runVars, wireVars,
      Core, DraftTruth, OneServer, HandlerTruth, RunTruth, Untouched,
      Committed, Serving, Polling, Proven, Taken, Review, TypeOK,
      DraftsTypeOK, Actor, MayApprove
<1>30. ASSUME NEW d \in Draft, GraphRefuses(d) PROVE Core'
  BY <1>30, <1>0 DEF GraphRefuses, Graph, vars, draftVars, handlerVars, runVars, wireVars,
      Core, DraftTruth, OneServer, HandlerTruth, RunTruth, Untouched,
      Committed, Serving, Polling, Proven, Taken, Review, TypeOK,
      DraftsTypeOK, Actor, MayApprove
<1>31. ASSUME NEW d \in Draft, GraphFiles(d) PROVE Core'
  BY <1>31, <1>0 DEF GraphFiles, Graph, vars, draftVars, handlerVars, runVars, wireVars,
      Core, DraftTruth, OneServer, HandlerTruth, RunTruth, Untouched,
      Committed, Serving, Polling, Proven, Taken, Review, TypeOK,
      DraftsTypeOK, Actor, MayApprove
<1>32. ASSUME NEW d \in Draft, CopyRemoved(d) PROVE Core'
  BY <1>32, <1>0 DEF CopyRemoved, Graph, vars, draftVars, handlerVars, runVars, wireVars,
      Core, DraftTruth, OneServer, HandlerTruth, RunTruth, Untouched,
      Committed, Serving, Polling, Proven, Taken, Review, TypeOK,
      DraftsTypeOK, Actor, MayApprove
<1>33. CASE Restart
  BY <1>33, <1>0 DEF Restart, AllIdle, vars, draftVars, handlerVars, runVars, wireVars,
      Core, DraftTruth, OneServer, HandlerTruth, RunTruth, Untouched,
      Committed, Serving, Polling, Proven, Taken, Review, TypeOK,
      DraftsTypeOK, Actor, MayApprove
<1>34. QED
  BY <1>1, <1>2, <1>3, <1>4, <1>5, <1>6, <1>7, <1>8, <1>9, <1>10, <1>11, <1>12, <1>13, <1>14, <1>15, <1>16, <1>17, <1>18, <1>19, <1>20, <1>21, <1>22, <1>23, <1>24, <1>25, <1>26, <1>27, <1>28, <1>29, <1>30, <1>31, <1>32, <1>33
  DEF Next, ApproveStep, PollStep, WorkerStep, DraftStep

(* it holds of the empty tables.                                           *)
LEMMA CoreInit == Init => Core
  BY ProcessAssumption DEF Init, DraftsInit, TypeOK, DraftsTypeOK, Status, Review, Core,
      DraftTruth, OneServer, HandlerTruth, RunTruth, Untouched, Committed,
      Serving, Polling

(* What the tables, the handlers and the worker runs know of a draft fits  *)
(* what Graph was asked to send and has delivered.                         *)
THEOREM CoreHolds == Spec => []Core
  BY CoreInit, CoreStep, PTL DEF Spec

(* No draft is POSTed twice.                                               *)
THEOREM NeverSentTwice == Spec => []AtMostOnePost
<1>1. Core => AtMostOnePost
  BY DEF Core, DraftTruth, AtMostOnePost
<1>2. QED
  BY <1>1, CoreHolds, PTL

(* 'sent' and 'failed' are what happened at Graph.                         *)
THEOREM NeverMisreported == Spec => []RecordedTruth
<1>1. Core => RecordedTruth
  BY DEF Core, DraftTruth, RecordedTruth
<1>2. QED
  BY <1>1, CoreHolds, PTL

-----------------------------------------------------------------------------
(* the review a draft was created with, and restored to *)
ReviewTruth ==
    \A d \in Draft :
        /\ status[d] # "absent" => reviewed[d] = FirstReview(d)
        /\ status[d] \in Review => status[d] = reviewed[d]

(* who approved a claimed draft *)
ApprovalTruth ==
    \A d \in Draft :
        /\ status[d] \in Committed => d \notin Unclear \cup Incomplete /\ MayApprove(approvedBy[d], d)
        /\ approvedBy[d] \in Receipt => ReceiptItem(approvedBy[d], d) \in used

Full == Core /\ ReviewTruth /\ ApprovalTruth /\ ReceiptItemSendsOnce /\ SpentReceiptWasClaimed /\ SendingIsWatched

-----------------------------------------------------------------------------
(* What a step may do to the tables: one operation of SendDrafts, called    *)
(* as its caller calls it.  The invariants of the tables need only this.    *)
Claims(d, a) == a \in Actor /\ MayApprove(a, d) /\ (ApproveAndClaim(d, a) \/ ApproveAgain(d, a))

TableOperation(d) ==
    \/ Create(d) \/ CancelBy(d, "human") \/ CancelBy(d, "system") \/ Restore(d)
    \/ \E a \in Actor : Claims(d, a)
    \/ RecordAfterSent(d) \/ RecordReceipt(d) \/ RecordRejected(d) \/ RecordUncertain(d)
    \/ BackOff(d) \/ DueTimePasses(d)

(* A change of the drafts is one of the operations on their table.         *)
LEMMA TableStep ==
    ASSUME Core, [Next]_vars
    PROVE  UNCHANGED draftVars \/ LeaseDue(Due) \/ \E d \in Draft : TableOperation(d)
<1> DEFINE Goal == UNCHANGED draftVars \/ LeaseDue(Due) \/ \E d \in Draft : TableOperation(d)
<1>0. TypeOK /\ HandlerTruth
  BY DEF Core
<1>1. ASSUME NEW h \in Handler, ApproveStep(h) PROVE Goal
  <2>1. CASE ClaimWon(h) \/ ClaimedBefore(h)
    <3>1. hdraft[h] \in Draft /\ Claims(hdraft[h], hactor[h])
      BY <1>0, <2>1 DEF ClaimWon, ClaimedBefore, TypeOK, HandlerTruth, Claims
    <3>2. TableOperation(hdraft[h])
      BY <3>1 DEF TableOperation, Claims
    <3> QED
      BY <3>1, <3>2
  <2>2. CASE RecordAnswer(h)
    BY <1>0, <2>2 DEF RecordAnswer, TypeOK, RecordOutcome, TableOperation
  <2>3. CASE ~(ClaimWon(h) \/ ClaimedBefore(h) \/ RecordAnswer(h))
    BY <1>1, <2>3 DEF ApproveStep, StartApprove, ApproveRefused, PreflightFails, Post,
      Answer202, Answer4xx, AnswerUnknown, ReceiptFound, ReceiptNotFound
  <2> QED
    BY <2>1, <2>2, <2>3
<1>2. ASSUME NEW h \in Handler, PollStep(h) PROVE Goal
  BY <1>0, <1>2 DEF PollStep, StartPoll, PollFound, PollNotFound, PollSwallowed,
      PollRecord, TypeOK, RecordOutcome, TableOperation
<1>3. ASSUME NEW r \in Run, WorkerStep(r) PROVE Goal
  BY <1>0, <1>3 DEF WorkerStep, Tick, Finish, FinishThrows, LookFound, LookNotFound, Look,
      TypeOK, TableOperation
<1>4. ASSUME NEW d \in Draft, DraftStep(d) PROVE Goal
  BY <1>4 DEF DraftStep, CreateDraft, HumanCancel, SystemCancel, HumanRestore,
      TimePasses, GraphAccepts, GraphRefuses, GraphFiles, CopyRemoved, Graph,
      TableOperation
<1>5. CASE Restart \/ UNCHANGED vars
  BY <1>5 DEF Restart, vars
<1>6. QED
  BY <1>1, <1>2, <1>3, <1>4, <1>5 DEF Next

(* only create and restore bring a draft to review *)
LEMMA ReviewStep ==
    ASSUME Core, ReviewTruth, [Next]_vars
    PROVE  ReviewTruth'
<1> USE DraftAssumption, ActorAssumption
<1>0. TypeOK /\ DraftTruth
  BY DEF Core
<1>1. CASE UNCHANGED draftVars
  BY <1>1, <1>0 DEF draftVars, ReviewTruth, FirstReview, TypeOK, DraftsTypeOK, Status,
      Review, DraftTruth, Committed
<1>2. CASE LeaseDue(Due)
  BY <1>2, <1>0 DEF LeaseDue, Due, ReviewTruth, FirstReview, TypeOK, DraftsTypeOK, Status,
      Review, DraftTruth, Committed
<1>3. ASSUME NEW d \in Draft, Create(d) PROVE ReviewTruth'
  BY <1>3, <1>0 DEF Create, FirstReview, ReviewTruth, TypeOK, DraftsTypeOK, Status, Review,
      DraftTruth, Committed
<1>4. ASSUME NEW d \in Draft, CancelBy(d, "human") \/ CancelBy(d, "system")
      PROVE  ReviewTruth'
  BY <1>4, <1>0 DEF CancelBy, ReviewTruth, FirstReview, TypeOK, DraftsTypeOK, Status,
      Review, DraftTruth, Committed
<1>5. ASSUME NEW d \in Draft, Restore(d) PROVE ReviewTruth'
  BY <1>5, <1>0 DEF Restore, ReviewTruth, FirstReview, TypeOK, DraftsTypeOK, Status,
      Review, DraftTruth, Committed
<1>6. ASSUME NEW d \in Draft, NEW a \in Actor, Claims(d, a) PROVE ReviewTruth'
  BY <1>6, <1>0 DEF Claims, ApproveAndClaim, ApproveAgain, Approvable, PastApproval,
      UsedAfter, Unused, Enqueued, RipeOnEnqueue, ReviewTruth, FirstReview,
      TypeOK, DraftsTypeOK, Status, Review, DraftTruth, Committed
<1>7. ASSUME NEW d \in Draft, RecordAfterSent(d) \/ RecordReceipt(d)
      PROVE  ReviewTruth'
  BY <1>7, <1>0 DEF RecordAfterSent, RecordReceipt, ReviewTruth, FirstReview, TypeOK,
      DraftsTypeOK, Status, Review, DraftTruth, Committed
<1>8. ASSUME NEW d \in Draft, RecordRejected(d) \/ RecordUncertain(d)
      PROVE  ReviewTruth'
  BY <1>8, <1>0 DEF RecordRejected, RecordUncertain, Enqueued, RipeOnEnqueue, ReviewTruth,
      FirstReview, TypeOK, DraftsTypeOK, Status, Review, DraftTruth,
      Committed
<1>9. ASSUME NEW d \in Draft, BackOff(d) \/ DueTimePasses(d)
      PROVE  ReviewTruth'
  BY <1>9, <1>0 DEF BackOff, DueTimePasses, RipeOnEnqueue, ReviewTruth, FirstReview,
      TypeOK, DraftsTypeOK, Status, Review, DraftTruth, Committed
<1>10. QED
  BY TableStep, <1>1, <1>2, <1>3, <1>4, <1>5, <1>6, <1>7, <1>8, <1>9 DEF TableOperation

(* only a won claim names an approver *)
LEMMA ApprovalStep ==
    ASSUME Core, ReviewTruth, ApprovalTruth, [Next]_vars
    PROVE  ApprovalTruth'
<1> USE DraftAssumption, ActorAssumption
<1>0. TypeOK /\ DraftTruth
  BY DEF Core
<1>1. CASE UNCHANGED draftVars
  BY <1>1, <1>0 DEF draftVars, ReviewTruth, ApprovalTruth, FirstReview, MayApprove, TypeOK,
      DraftsTypeOK, Review, Actor, Committed, ReceiptItem, DraftTruth
<1>2. CASE LeaseDue(Due)
  BY <1>2, <1>0 DEF LeaseDue, Due, ReviewTruth, ApprovalTruth, FirstReview, MayApprove,
      TypeOK, DraftsTypeOK, Review, Actor, Committed, ReceiptItem,
      DraftTruth
<1>3. ASSUME NEW d \in Draft, Create(d) PROVE ApprovalTruth'
  BY <1>3, <1>0 DEF Create, FirstReview, ReviewTruth, ApprovalTruth, MayApprove, TypeOK,
      DraftsTypeOK, Review, Actor, Committed, ReceiptItem, DraftTruth
<1>4. ASSUME NEW d \in Draft, CancelBy(d, "human") \/ CancelBy(d, "system")
      PROVE  ApprovalTruth'
  BY <1>4, <1>0 DEF CancelBy, ReviewTruth, ApprovalTruth, FirstReview, MayApprove, TypeOK,
      DraftsTypeOK, Review, Actor, Committed, ReceiptItem, DraftTruth
<1>5. ASSUME NEW d \in Draft, Restore(d) PROVE ApprovalTruth'
  BY <1>5, <1>0 DEF Restore, ReviewTruth, ApprovalTruth, FirstReview, MayApprove, TypeOK,
      DraftsTypeOK, Review, Actor, Committed, ReceiptItem, DraftTruth
<1>6. ASSUME NEW d \in Draft, NEW a \in Actor, Claims(d, a) PROVE ApprovalTruth'
  BY <1>6, <1>0 DEF Claims, ApproveAndClaim, ApproveAgain, Approvable, PastApproval,
      UsedAfter, Unused, Enqueued, RipeOnEnqueue, ReviewTruth, ApprovalTruth,
      FirstReview, MayApprove, TypeOK, DraftsTypeOK, Review, Actor,
      Committed, ReceiptItem, DraftTruth
<1>7. ASSUME NEW d \in Draft, RecordAfterSent(d) \/ RecordReceipt(d)
      PROVE  ApprovalTruth'
  BY <1>7, <1>0 DEF RecordAfterSent, RecordReceipt, ReviewTruth, ApprovalTruth,
      FirstReview, MayApprove, TypeOK, DraftsTypeOK, Review, Actor,
      Committed, ReceiptItem, DraftTruth
<1>8. ASSUME NEW d \in Draft, RecordRejected(d) \/ RecordUncertain(d)
      PROVE  ApprovalTruth'
  BY <1>8, <1>0 DEF RecordRejected, RecordUncertain, Enqueued, RipeOnEnqueue, ReviewTruth,
      ApprovalTruth, FirstReview, MayApprove, TypeOK, DraftsTypeOK, Review,
      Actor, Committed, ReceiptItem, DraftTruth
<1>9. ASSUME NEW d \in Draft, BackOff(d) \/ DueTimePasses(d)
      PROVE  ApprovalTruth'
  BY <1>9, <1>0 DEF BackOff, DueTimePasses, RipeOnEnqueue, ReviewTruth, ApprovalTruth,
      FirstReview, MayApprove, TypeOK, DraftsTypeOK, Review, Actor,
      Committed, ReceiptItem, DraftTruth
<1>10. QED
  BY TableStep, <1>1, <1>2, <1>3, <1>4, <1>5, <1>6, <1>7, <1>8, <1>9 DEF TableOperation

(* the item a second draft would need is spent *)
LEMMA ReceiptStep ==
    ASSUME Core, ApprovalTruth, ReceiptItemSendsOnce, [Next]_vars
    PROVE  ReceiptItemSendsOnce'
<1> USE DraftAssumption, ActorAssumption
<1>0. TypeOK /\ DraftTruth
  BY DEF Core
<1>1. CASE UNCHANGED draftVars
  BY <1>1, <1>0 DEF draftVars, ApprovalTruth, ReceiptItemSendsOnce, ReceiptItem, TypeOK,
      DraftsTypeOK, Actor, DraftTruth
<1>2. CASE LeaseDue(Due)
  BY <1>2, <1>0 DEF LeaseDue, Due, ApprovalTruth, ReceiptItemSendsOnce, ReceiptItem,
      TypeOK, DraftsTypeOK, Actor, DraftTruth
<1>3. ASSUME NEW d \in Draft, Create(d) PROVE ReceiptItemSendsOnce'
  BY <1>3, <1>0 DEF Create, FirstReview, ApprovalTruth, ReceiptItemSendsOnce, ReceiptItem,
      TypeOK, DraftsTypeOK, Actor, DraftTruth
<1>4. ASSUME NEW d \in Draft, CancelBy(d, "human") \/ CancelBy(d, "system")
      PROVE  ReceiptItemSendsOnce'
  BY <1>4, <1>0 DEF CancelBy, ApprovalTruth, ReceiptItemSendsOnce, ReceiptItem, TypeOK,
      DraftsTypeOK, Actor, DraftTruth
<1>5. ASSUME NEW d \in Draft, Restore(d) PROVE ReceiptItemSendsOnce'
  BY <1>5, <1>0 DEF Restore, ApprovalTruth, ReceiptItemSendsOnce, ReceiptItem, TypeOK,
      DraftsTypeOK, Actor, DraftTruth
<1>6. ASSUME NEW d \in Draft, NEW a \in Actor, Claims(d, a) PROVE ReceiptItemSendsOnce'
  BY <1>6, <1>0 DEF Claims, ApproveAndClaim, ApproveAgain, Approvable, PastApproval,
      UsedAfter, Unused, Enqueued, RipeOnEnqueue, ApprovalTruth,
      ReceiptItemSendsOnce, ReceiptItem, TypeOK, DraftsTypeOK, Actor,
      DraftTruth
<1>7. ASSUME NEW d \in Draft, RecordAfterSent(d) \/ RecordReceipt(d)
      PROVE  ReceiptItemSendsOnce'
  BY <1>7, <1>0 DEF RecordAfterSent, RecordReceipt, ApprovalTruth, ReceiptItemSendsOnce,
      ReceiptItem, TypeOK, DraftsTypeOK, Actor, DraftTruth
<1>8. ASSUME NEW d \in Draft, RecordRejected(d) \/ RecordUncertain(d)
      PROVE  ReceiptItemSendsOnce'
  BY <1>8, <1>0 DEF RecordRejected, RecordUncertain, Enqueued, RipeOnEnqueue,
      ApprovalTruth, ReceiptItemSendsOnce, ReceiptItem, TypeOK, DraftsTypeOK,
      Actor, DraftTruth
<1>9. ASSUME NEW d \in Draft, BackOff(d) \/ DueTimePasses(d)
      PROVE  ReceiptItemSendsOnce'
  BY <1>9, <1>0 DEF BackOff, DueTimePasses, RipeOnEnqueue, ApprovalTruth,
      ReceiptItemSendsOnce, ReceiptItem, TypeOK, DraftsTypeOK, Actor,
      DraftTruth
<1>10. QED
  BY TableStep, <1>1, <1>2, <1>3, <1>4, <1>5, <1>6, <1>7, <1>8, <1>9 DEF TableOperation

(* an item is spent in the transaction that claims, or after it *)
LEMMA SpentStep ==
    ASSUME Core, SpentReceiptWasClaimed, [Next]_vars
    PROVE  SpentReceiptWasClaimed'
<1> USE DraftAssumption, ActorAssumption
<1>0. TypeOK /\ DraftTruth
  BY DEF Core
<1>1. CASE UNCHANGED draftVars
  BY <1>1, <1>0 DEF draftVars, SpentReceiptWasClaimed, ReceiptItem, MayApprove, TypeOK,
      DraftsTypeOK, Actor, Committed, Review, DraftTruth
<1>2. CASE LeaseDue(Due)
  BY <1>2, <1>0 DEF LeaseDue, Due, SpentReceiptWasClaimed, ReceiptItem, MayApprove, TypeOK,
      DraftsTypeOK, Actor, Committed, Review, DraftTruth
<1>3. ASSUME NEW d \in Draft, Create(d) PROVE SpentReceiptWasClaimed'
  BY <1>3, <1>0 DEF Create, FirstReview, SpentReceiptWasClaimed, ReceiptItem, MayApprove,
      TypeOK, DraftsTypeOK, Actor, Committed, Review, DraftTruth
<1>4. ASSUME NEW d \in Draft, CancelBy(d, "human") \/ CancelBy(d, "system")
      PROVE  SpentReceiptWasClaimed'
  BY <1>4, <1>0 DEF CancelBy, SpentReceiptWasClaimed, ReceiptItem, MayApprove, TypeOK,
      DraftsTypeOK, Actor, Committed, Review, DraftTruth
<1>5. ASSUME NEW d \in Draft, Restore(d) PROVE SpentReceiptWasClaimed'
  BY <1>5, <1>0 DEF Restore, SpentReceiptWasClaimed, ReceiptItem, MayApprove, TypeOK,
      DraftsTypeOK, Actor, Committed, Review, DraftTruth
<1>6. ASSUME NEW d \in Draft, NEW a \in Actor, Claims(d, a) PROVE SpentReceiptWasClaimed'
  BY <1>6, <1>0 DEF Claims, ApproveAndClaim, ApproveAgain, Approvable, PastApproval,
      UsedAfter, Unused, Enqueued, RipeOnEnqueue, SpentReceiptWasClaimed,
      ReceiptItem, MayApprove, TypeOK, DraftsTypeOK, Actor, Committed,
      Review, DraftTruth
<1>7. ASSUME NEW d \in Draft, RecordAfterSent(d) \/ RecordReceipt(d)
      PROVE  SpentReceiptWasClaimed'
  BY <1>7, <1>0 DEF RecordAfterSent, RecordReceipt, SpentReceiptWasClaimed, ReceiptItem,
      MayApprove, TypeOK, DraftsTypeOK, Actor, Committed, Review, DraftTruth
<1>8. ASSUME NEW d \in Draft, RecordRejected(d) \/ RecordUncertain(d)
      PROVE  SpentReceiptWasClaimed'
  BY <1>8, <1>0 DEF RecordRejected, RecordUncertain, Enqueued, RipeOnEnqueue,
      SpentReceiptWasClaimed, ReceiptItem, MayApprove, TypeOK, DraftsTypeOK,
      Actor, Committed, Review, DraftTruth
<1>9. ASSUME NEW d \in Draft, BackOff(d) \/ DueTimePasses(d)
      PROVE  SpentReceiptWasClaimed'
  BY <1>9, <1>0 DEF BackOff, DueTimePasses, RipeOnEnqueue, SpentReceiptWasClaimed,
      ReceiptItem, MayApprove, TypeOK, DraftsTypeOK, Actor, Committed,
      Review, DraftTruth
<1>10. QED
  BY TableStep, <1>1, <1>2, <1>3, <1>4, <1>5, <1>6, <1>7, <1>8, <1>9 DEF TableOperation

(* the job is written in the transaction that claims *)
LEMMA WatchStep ==
    ASSUME Core, SendingIsWatched, [Next]_vars
    PROVE  SendingIsWatched'
<1> USE DraftAssumption, ActorAssumption
<1>0. TypeOK /\ DraftTruth
  BY DEF Core
<1>1. CASE UNCHANGED draftVars
  BY <1>1, <1>0 DEF draftVars, SendingIsWatched, TypeOK, DraftsTypeOK, Review, DraftTruth,
      Enqueued, RipeOnEnqueue
<1>2. CASE LeaseDue(Due)
  BY <1>2, <1>0 DEF LeaseDue, Due, SendingIsWatched, TypeOK, DraftsTypeOK, Review,
      DraftTruth, Enqueued, RipeOnEnqueue
<1>3. ASSUME NEW d \in Draft, Create(d) PROVE SendingIsWatched'
  BY <1>3, <1>0 DEF Create, FirstReview, SendingIsWatched, TypeOK, DraftsTypeOK, Review,
      DraftTruth, Enqueued, RipeOnEnqueue
<1>4. ASSUME NEW d \in Draft, CancelBy(d, "human") \/ CancelBy(d, "system")
      PROVE  SendingIsWatched'
  BY <1>4, <1>0 DEF CancelBy, SendingIsWatched, TypeOK, DraftsTypeOK, Review, DraftTruth,
      Enqueued, RipeOnEnqueue
<1>5. ASSUME NEW d \in Draft, Restore(d) PROVE SendingIsWatched'
  BY <1>5, <1>0 DEF Restore, SendingIsWatched, TypeOK, DraftsTypeOK, Review, DraftTruth,
      Enqueued, RipeOnEnqueue
<1>6. ASSUME NEW d \in Draft, NEW a \in Actor, Claims(d, a) PROVE SendingIsWatched'
  BY <1>6, <1>0 DEF Claims, ApproveAndClaim, ApproveAgain, Approvable, PastApproval,
      UsedAfter, Unused, Enqueued, RipeOnEnqueue, SendingIsWatched, TypeOK,
      DraftsTypeOK, Review, DraftTruth
<1>7. ASSUME NEW d \in Draft, RecordAfterSent(d) \/ RecordReceipt(d)
      PROVE  SendingIsWatched'
  BY <1>7, <1>0 DEF RecordAfterSent, RecordReceipt, SendingIsWatched, TypeOK, DraftsTypeOK,
      Review, DraftTruth, Enqueued, RipeOnEnqueue
<1>8. ASSUME NEW d \in Draft, RecordRejected(d) \/ RecordUncertain(d)
      PROVE  SendingIsWatched'
  BY <1>8, <1>0 DEF RecordRejected, RecordUncertain, Enqueued, RipeOnEnqueue,
      SendingIsWatched, TypeOK, DraftsTypeOK, Review, DraftTruth
<1>9. ASSUME NEW d \in Draft, BackOff(d) \/ DueTimePasses(d)
      PROVE  SendingIsWatched'
  BY <1>9, <1>0 DEF BackOff, DueTimePasses, RipeOnEnqueue, SendingIsWatched, TypeOK,
      DraftsTypeOK, Review, DraftTruth, Enqueued
<1>10. QED
  BY TableStep, <1>1, <1>2, <1>3, <1>4, <1>5, <1>6, <1>7, <1>8, <1>9 DEF TableOperation

(* Full is inductive as well.                                              *)
LEMMA FullStep == Full /\ [Next]_vars => Full'
  BY CoreStep, ReviewStep, ApprovalStep, ReceiptStep, SpentStep, WatchStep DEF Full

(* Core, and with it what approvals, receipts and the queue of the worker  *)
(* say of a draft.                                                         *)
THEOREM FullHolds == Spec => []Full
<1>1. Init => Full
  <2>1. ASSUME Init PROVE Core
    BY <2>1, CoreInit
  <2>2. ASSUME Init
        PROVE  ReviewTruth /\ ApprovalTruth /\ ReceiptItemSendsOnce /\ SpentReceiptWasClaimed /\ SendingIsWatched
    BY <2>2, ActorAssumption DEF Init, DraftsInit, ReviewTruth, ApprovalTruth, ReceiptItemSendsOnce,
      SpentReceiptWasClaimed, SendingIsWatched, Review, Committed
  <2>3. QED
    BY <2>1, <2>2 DEF Full
<1>2. QED
  BY <1>1, FullStep, PTL DEF Spec

(* Only what was approved, by someone who may approve it, is POSTed.        *)
THEOREM OnlyApprovedIsPosted == Spec => []PostedWasApproved
<1>1. Full => PostedWasApproved
  BY DEF Full, Core, TypeOK, DraftTruth, Untouched, ApprovalTruth,
      PostedWasApproved
<1>2. QED
  BY <1>1, FullHolds, PTL

(* One receipt item approves one draft.                                    *)
THEOREM ReceiptItemsAreSingleUse == Spec => []ReceiptItemSendsOnce
<1>1. Full => ReceiptItemSendsOnce
  BY DEF Full
<1>2. QED
  BY <1>1, FullHolds, PTL

(* A receipt item is spent only together with a claim.                     *)
THEOREM ReceiptItemsAreNotWasted == Spec => []SpentReceiptWasClaimed
<1>1. Full => SpentReceiptWasClaimed
  BY DEF Full
<1>2. QED
  BY <1>1, FullHolds, PTL

(* Row, job and outbox agree.                                              *)
THEOREM NothingHangsUnwatched == Spec => []SendingIsWatched
<1>1. Full => SendingIsWatched
  BY DEF Full
<1>2. QED
  BY <1>1, FullHolds, PTL

-----------------------------------------------------------------------------
(* Late answers do not reopen a draft.                                     *)
THEOREM SettledStaysSettled == Spec => SettledForGood
<1> DEFINE Settled == \A d \in Draft :
        /\ status[d] \in {"sent", "failed"} => status'[d] = status[d]
        /\ status[d] = "sending" => status'[d] \in Committed
        /\ (status[d] = "cancelled" /\ cancelledBy[d] = "human") => status'[d] = status[d]
<1>1. ASSUME Full, [Next]_vars PROVE Settled
  <2>0. Core /\ TypeOK
    BY <1>1 DEF Full, Core
  <2>1. CASE UNCHANGED draftVars \/ LeaseDue(Due)
    BY <2>1 DEF draftVars, LeaseDue, Committed
  <2>2. ASSUME NEW d \in Draft, TableOperation(d) PROVE Settled
    BY <2>0, <2>2 DEF TableOperation, Create, CancelBy, Restore, Claims, ApproveAndClaim,
      ApproveAgain, Approvable, PastApproval, RecordAfterSent, RecordReceipt,
      RecordRejected, RecordUncertain, BackOff, DueTimePasses, Review,
      Committed, TypeOK, DraftsTypeOK
  <2>3. QED
    BY <1>1, <2>0, <2>1, <2>2, TableStep
<1>2. QED
  BY <1>1, FullHolds, PTL DEF Spec, SettledForGood

(* Restoring leads back to the review status of creation.                  *)
THEOREM RestoreIsNoShortcut == Spec => RestoreKeepsReview
<1> DEFINE Kept == \A d \in Draft :
        (status[d] = "cancelled" /\ status'[d] # "cancelled") => status'[d] = FirstReview(d)
<1>1. ASSUME Full, [Next]_vars PROVE Kept
  <2>0. Core /\ TypeOK /\ ReviewTruth
    BY <1>1 DEF Full, Core
  <2>1. CASE UNCHANGED draftVars \/ LeaseDue(Due)
    BY <2>1 DEF draftVars, LeaseDue
  <2>2. ASSUME NEW d \in Draft, TableOperation(d) PROVE Kept
    BY <2>0, <2>2 DEF TableOperation, Create, CancelBy, Restore, Claims, ApproveAndClaim,
      ApproveAgain, Approvable, PastApproval, RecordAfterSent, RecordReceipt,
      RecordRejected, RecordUncertain, BackOff, DueTimePasses, Review,
      ReviewTruth, TypeOK, DraftsTypeOK
  <2>3. QED
    BY <1>1, <2>0, <2>1, <2>2, TableStep
<1>2. QED
  BY <1>1, FullHolds, PTL DEF Spec, RestoreKeepsReview

-----------------------------------------------------------------------------
(* The detailed specification implements SendOnce.  A step that changes the *)
(* row or the mail of one draft changes one phase or one mail there.        *)
LEMMA MapStep ==
    ASSUME TypeOK, NEW d \in Draft, NEW s, NEW w,
           status' = [status EXCEPT ![d] = s], wire' = [wire EXCEPT ![d] = w]
    PROVE  /\ PhaseOf' = [PhaseOf EXCEPT ![d] = Phase(s)]
           /\ MailOf' = [MailOf EXCEPT ![d] = MailAt(w)]
<1>1. \A e \in Draft : status'[e] = IF e = d THEN s ELSE status[e]
  BY DEF TypeOK, DraftsTypeOK
<1>2. \A e \in Draft : wire'[e] = IF e = d THEN w ELSE wire[e]
  BY DEF TypeOK
<1>3. PhaseOf' = [e \in Draft |-> Phase(status'[e])] /\ MailOf' = [e \in Draft |-> MailAt(wire'[e])]
  BY DEF PhaseOf, MailOf
<1>4. PhaseOf' = [e \in Draft |-> IF e = d THEN Phase(s) ELSE Phase(status[e])]
  BY <1>1, <1>3
<1>5. MailOf' = [e \in Draft |-> IF e = d THEN MailAt(w) ELSE MailAt(wire[e])]
  BY <1>2, <1>3
<1>6. PhaseOf' = [PhaseOf EXCEPT ![d] = Phase(s)]
  BY <1>4 DEF PhaseOf
<1>7. MailOf' = [MailOf EXCEPT ![d] = MailAt(w)]
  BY <1>5 DEF MailOf
<1>8. QED
  BY <1>6, <1>7

(* a step of one draft's row *)
LEMMA RowStep ==
    ASSUME TypeOK, NEW d \in Draft, NEW s, wire' = wire, status' = [status EXCEPT ![d] = s],
           \/ Phase(s) = Phase(status[d])
           \/ status[d] \in Review \cup {"approved"} /\ s \in {"cancelled", "sending"}
           \/ status[d] = "cancelled" /\ s \in Review
           \/ status[d] = "sending" /\ s = "sent" /\ wire[d] \in Proven
           \/ status[d] = "sending" /\ s = "failed" /\ wire[d] = "refused"
    PROVE  [Abstract!Next]_<<PhaseOf, MailOf>>
<1>1. wire' = [wire EXCEPT ![d] = wire[d]]
  BY DEF TypeOK
<1>2. /\ PhaseOf' = [PhaseOf EXCEPT ![d] = Phase(s)]
      /\ MailOf' = [MailOf EXCEPT ![d] = MailOf[d]]
      /\ PhaseOf[d] = Phase(status[d]) /\ MailOf[d] = MailAt(wire[d])
  BY <1>1, MapStep DEF MailOf, PhaseOf
<1>3. CASE Phase(s) = Phase(status[d])
  <2>1. PhaseOf' = PhaseOf /\ MailOf' = MailOf
    BY <1>2, <1>3 DEF PhaseOf, MailOf
  <2>2. QED
    BY <2>1
<1>4. CASE status[d] \in Review \cup {"approved"} /\ s \in {"cancelled", "sending"}
  <2>1. Abstract!Withdraw(d) \/ Abstract!Commit(d)
    BY <1>2, <1>4 DEF Abstract!Withdraw, Abstract!Commit, Abstract!Set, Phase, Review
  <2>2. QED
    BY <2>1 DEF Abstract!Next
<1>5. CASE status[d] = "cancelled" /\ s \in Review
  <2>1. Abstract!Reopen(d)
    BY <1>2, <1>5 DEF Abstract!Reopen, Abstract!Set, Phase, Review
  <2>2. QED
    BY <2>1 DEF Abstract!Next
<1>6. CASE status[d] = "sending" /\ s = "sent" /\ wire[d] \in Proven
  <2>1. Abstract!Report(d, "delivered", "delivered")
    BY <1>2, <1>6 DEF Abstract!Report, Abstract!Set, Phase, MailAt, Proven, Taken
  <2>2. QED
    BY <2>1 DEF Abstract!Next
<1>7. CASE status[d] = "sending" /\ s = "failed" /\ wire[d] = "refused"
  <2>1. Abstract!Report(d, "failed", "refused")
    BY <1>2, <1>7 DEF Abstract!Report, Abstract!Set, Phase, MailAt, Taken
  <2>2. QED
    BY <2>1 DEF Abstract!Next
<1>8. QED
  BY <1>3, <1>4, <1>5, <1>6, <1>7

(* a step of one draft's mail *)
LEMMA WireStep ==
    ASSUME TypeOK, NEW d \in Draft, NEW w, status' = status, wire' = [wire EXCEPT ![d] = w],
           \/ wire[d] = "none" /\ w = "inflight" /\ status[d] = "sending"
           \/ wire[d] = "inflight" /\ w \in {"accepted", "refused"}
           \/ wire[d] \in Taken /\ w \in Taken
    PROVE  [Abstract!Next]_<<PhaseOf, MailOf>>
<1>1. status' = [status EXCEPT ![d] = status[d]]
  BY DEF TypeOK, DraftsTypeOK
<1>0. PhaseOf[d] = Phase(status[d]) /\ MailOf[d] = MailAt(wire[d])
  BY DEF PhaseOf, MailOf
<1>2. /\ PhaseOf' = [PhaseOf EXCEPT ![d] = PhaseOf[d]]
      /\ MailOf' = [MailOf EXCEPT ![d] = MailAt(w)]
  <2> DEFINE s == status[d]
  <2>0. status' = [status EXCEPT ![d] = s] /\ wire' = [wire EXCEPT ![d] = w]
    BY <1>1
  <2> HIDE DEF s
  <2>1. PhaseOf' = [PhaseOf EXCEPT ![d] = Phase(s)] /\ MailOf' = [MailOf EXCEPT ![d] = MailAt(w)]
    BY ONLY TypeOK, d \in Draft, <2>0, MapStep
  <2>2. QED
    BY <1>0, <2>1 DEF s
<1>3. CASE wire[d] = "none" /\ w = "inflight" /\ status[d] = "sending"
  <2>1. Abstract!HandOver(d)
    BY <1>0, <1>2, <1>3 DEF Abstract!HandOver, Abstract!Set, Phase, MailAt, Taken
  <2>2. QED
    BY <2>1 DEF Abstract!Next
<1>4. CASE wire[d] = "inflight" /\ w \in {"accepted", "refused"}
  <2>1. Abstract!Fate(d, "delivered") \/ Abstract!Fate(d, "refused")
    BY <1>0, <1>2, <1>4 DEF Abstract!Fate, Abstract!Set, MailAt, Taken
  <2>2. QED
    BY <2>1 DEF Abstract!Next
<1>5. CASE wire[d] \in Taken /\ w \in Taken
  <2>1. PhaseOf' = PhaseOf /\ MailOf' = MailOf
    BY <1>0, <1>2, <1>5 DEF PhaseOf, MailOf, MailAt, Taken
  <2>2. QED
    BY <2>1
<1>6. QED
  BY <1>3, <1>4, <1>5

(* every operation of the tables is one of RowStep's *)
LEMMA TableRefines ==
    ASSUME TypeOK, NEW d \in Draft, TableOperation(d), wire' = wire,
           reviewed[d] \in Review,
           RecordReceipt(d) => wire[d] \in Proven,
           RecordRejected(d) => wire[d] = "refused"
    PROVE  [Abstract!Next]_<<PhaseOf, MailOf>>
<1>1. CASE status' = status
  <2>1. status' = [status EXCEPT ![d] = status[d]]
    BY <1>1 DEF TypeOK, DraftsTypeOK
  <2>2. QED
    BY <2>1, RowStep
<1>2. CASE Create(d)
  <2>1. Phase(FirstReview(d)) = Phase(status[d])
    BY <1>2 DEF Create, FirstReview, Phase
  <2>2. QED
    BY <1>2, <2>1, RowStep DEF Create
<1>3. CASE CancelBy(d, "human") \/ CancelBy(d, "system") \/ Restore(d)
  BY <1>3, RowStep DEF CancelBy, Restore
<1>4. ASSUME NEW a \in Actor, ApproveAndClaim(d, a) PROVE [Abstract!Next]_<<PhaseOf, MailOf>>
  BY <1>4, RowStep DEF ApproveAndClaim, Approvable, Review
<1>5. CASE RecordReceipt(d) \/ RecordRejected(d)
  BY <1>5, RowStep DEF RecordReceipt, RecordRejected
<1>6. QED
  BY <1>1, <1>2, <1>3, <1>4, <1>5 DEF TableOperation, Claims, ApproveAgain, RecordAfterSent, RecordUncertain,
      BackOff, DueTimePasses

(* A step of the detailed specification is one of the abstract one, or     *)
(* none.                                                                   *)
LEMMA RefinesStep ==
    ASSUME Core, [Next]_vars
    PROVE  [Abstract!Next]_<<PhaseOf, MailOf>>
<1>0. TypeOK /\ HandlerTruth /\ RunTruth
  BY DEF Core
<1>1. ASSUME NEW d \in Draft, GraphAccepts(d) \/ GraphRefuses(d) \/ GraphFiles(d) \/ CopyRemoved(d)
      PROVE  [Abstract!Next]_<<PhaseOf, MailOf>>
  BY <1>0, <1>1, WireStep DEF GraphAccepts, GraphRefuses, GraphFiles, CopyRemoved, Graph, draftVars,
      Taken
<1>2. ASSUME NEW h \in Handler, Post(h) PROVE [Abstract!Next]_<<PhaseOf, MailOf>>
  <2>1. hdraft[h] \in Draft
    BY <1>0, <1>2 DEF Post, TypeOK
  <2>2. QED
    BY <1>0, <1>2, <2>1, WireStep DEF Post, draftVars, HandlerTruth, Untouched
<1>3. CASE UNCHANGED <<status, wire>>
  BY <1>3 DEF PhaseOf, MailOf
<1>4. ASSUME NEW h \in Handler, RecordAnswer(h) \/ PollRecord(h)
      PROVE  [Abstract!Next]_<<PhaseOf, MailOf>>
  <2>1. hdraft[h] \in Draft /\ RecordOutcome(hdraft[h], hout[h]) /\ wire' = wire
    BY <1>0, <1>4 DEF RecordAnswer, PollRecord, TypeOK, Leave, wireVars
  <2>2. TableOperation(hdraft[h])
    BY <2>1 DEF RecordOutcome, TableOperation
  <2>3. /\ RecordReceipt(hdraft[h]) => wire[hdraft[h]] \in Proven
        /\ RecordRejected(hdraft[h]) => wire[hdraft[h]] = "refused"
    BY <1>0, <2>1 DEF HandlerTruth, RecordOutcome, RecordReceipt, RecordRejected,
      RecordAfterSent, RecordUncertain, TypeOK, DraftsTypeOK
  <2>4. QED
    BY <1>0, <2>1, <2>2, <2>3, TableRefines DEF TypeOK, DraftsTypeOK
<1>5. ASSUME NEW r \in Run, Finish(r) PROVE [Abstract!Next]_<<PhaseOf, MailOf>>
  <2>1. rcur[r] \in Draft /\ wire' = wire
    BY <1>0, <1>5 DEF Finish, Next1, TypeOK, wireVars
  <2>2. CASE rout[r] = "receipt" /\ RecordReceipt(rcur[r])
    BY <1>0, <2>1, <2>2, RowStep DEF RunTruth, RecordReceipt
  <2>3. CASE status' = status
    BY <2>1, <2>3 DEF PhaseOf, MailOf
  <2>4. QED
    BY <1>5, <2>2, <2>3 DEF Finish, RecordAfterSent, BackOff
<1>6. ASSUME NEW h \in Handler, ClaimWon(h) PROVE [Abstract!Next]_<<PhaseOf, MailOf>>
  <2>1. hdraft[h] \in Draft /\ wire' = wire
    BY <1>0, <1>6 DEF ClaimWon, Goto, TypeOK, wireVars
  <2>2. QED
    BY <1>0, <1>6, <2>1, RowStep DEF ClaimWon, ApproveAndClaim, Approvable, Review
<1>7. ASSUME NEW d \in Draft, CreateDraft(d) \/ HumanCancel(d) \/ SystemCancel(d) \/ HumanRestore(d)
      PROVE  [Abstract!Next]_<<PhaseOf, MailOf>>
  <2>1. TableOperation(d) /\ wire' = wire
    BY <1>7 DEF CreateDraft, HumanCancel, SystemCancel, HumanRestore, Quiet, wireVars,
      TableOperation
  <2>2. ~RecordReceipt(d) /\ ~RecordRejected(d)
    BY <1>0, <1>7 DEF CreateDraft, HumanCancel, SystemCancel, HumanRestore, Create, CancelBy,
      Restore, RecordReceipt, RecordRejected, Review, TypeOK, DraftsTypeOK
  <2>3. QED
    BY <1>0, <2>1, <2>2, TableRefines DEF TypeOK, DraftsTypeOK
<1>8. QED
  <2>1. ASSUME NEW h \in Handler, ApproveStep(h) PROVE [Abstract!Next]_<<PhaseOf, MailOf>>
    BY <1>2, <1>3, <1>4, <1>6, <2>1 DEF ApproveStep, StartApprove, ApproveRefused, ClaimedBefore, ApproveAgain,
      PreflightFails, Answer202, Answer4xx, AnswerUnknown, ReceiptFound,
      ReceiptNotFound, Goto, Leave, draftVars, wireVars
  <2>2. ASSUME NEW h \in Handler, PollStep(h) PROVE [Abstract!Next]_<<PhaseOf, MailOf>>
    BY <1>3, <1>4, <2>2 DEF PollStep, StartPoll, PollFound, PollNotFound, PollSwallowed, Goto,
      Leave, draftVars, wireVars
  <2>3. ASSUME NEW r \in Run, WorkerStep(r) PROVE [Abstract!Next]_<<PhaseOf, MailOf>>
    BY <1>3, <1>5, <2>3 DEF WorkerStep, Tick, LeaseDue, FinishThrows, Next1, LookFound,
      LookNotFound, Look, draftVars, wireVars
  <2>4. ASSUME NEW d \in Draft, DraftStep(d) PROVE [Abstract!Next]_<<PhaseOf, MailOf>>
    BY <1>1, <1>3, <1>7, <2>4 DEF DraftStep, TimePasses, DueTimePasses, Quiet, wireVars
  <2>5. CASE Restart \/ UNCHANGED vars
    BY <1>3, <2>5 DEF Restart, vars, draftVars, wireVars
  <2>6. QED
    BY <2>1, <2>2, <2>3, <2>4, <2>5 DEF Next

(* Each draft is handed over at most once and its outcome is reported       *)
(* truthfully: the whole of MailSend is an implementation of SendOnce.      *)
THEOREM Refinement == Spec => ImplementsSendOnce
<1>1. Init => Abstract!Init
  BY DEF Init, DraftsInit, Abstract!Init, PhaseOf, MailOf, Phase, MailAt, Taken
<1>2. QED
  BY <1>1, CoreHolds, RefinesStep, PTL DEF Spec, ImplementsSendOnce, Abstract!Spec

-----------------------------------------------------------------------------
(* The reply drafts.                                                        *)
CancelledElsewhere(m) == replyDraft[m].status = "cancelled" /\ replyDraft[m].why = "elsewhere"

OnlyUndoOwes ==
    \A m \in InMails \ (marked \cup leftBehind) :
        CancelledElsewhere(m) => runner["server"].kind = "undo" /\ m \in runner["server"].todo

CancelsForMarks ==
    /\ runner["server"].kind = "mark" => runner["server"].todo \subseteq marked
    /\ runner["server"].kind = "cancel" => runner["server"].marked \subseteq marked

RunsReadWhatIsSent == \A r \in Runners : runner[r].replies \subseteq sentMails

ReviewInv == ReplyTypeOK /\ OnlyUndoOwes /\ CancelsForMarks /\ RunsReadWhatIsSent

-----------------------------------------------------------------------------
(* The mailbox begins without drafts and marks.                            *)
LEMMA ReviewTypesAtFirst == ReviewInit => ReplyTypeOK
  <1>1. AtRest \in Runs /\ NoReplyDraft \in ReplyDrafts /\ 1 \in Moments
    BY ReviewAssumption DEF AtRest, Runs, NoReplyDraft, ReplyDrafts, Moments
  <1> QED
    BY <1>1 DEF ReviewInit, ReplyTypeOK

(* So the invariant holds at first.                                        *)
LEMMA ReviewInitInv == ReviewInit => ReviewInv
  <1> SUFFICES ASSUME ReviewInit PROVE ReviewInv
    OBVIOUS
  <1>1. OnlyUndoOwes
    BY DEF ReviewInit, OnlyUndoOwes, CancelledElsewhere, NoReplyDraft
  <1>2. CancelsForMarks /\ RunsReadWhatIsSent
    BY DEF ReviewInit, CancelsForMarks, RunsReadWhatIsSent, AtRest, Runners
  <1> QED
    BY <1>1, <1>2, ReviewTypesAtFirst DEF ReviewInv

(* The mailbox moves on, and what it holds is stored.                       *)
LEMMA MailboxSteps ==
    ASSUME ReviewInv,
           \/ MomentPasses
           \/ \E c \in Conversations : ReplyIsSent(c)
           \/ \E s \in ReplyRecords : ReplyIsStored(s)
           \/ \E m \in InMails : MailIsStored(m)
    PROVE  ReviewInv'
  <1>1. UNCHANGED <<marked, replyDraft, runner, leftBehind>> /\ sentMails \subseteq sentMails'
    BY DEF MomentPasses, ReplyIsSent, ReplyIsStored, MailIsStored
  <1>2. ReplyTypeOK'
    <2>1. moment' \in Moments
      BY ReviewAssumption DEF ReviewInv, ReplyTypeOK, Moments, MomentPasses, ReplyIsSent, ReplyIsStored, MailIsStored
    <2>2. sentMails' \subseteq ReplyRecords /\ replies' \subseteq sentMails' /\ stored' \subseteq InMails
      BY DEF ReviewInv, ReplyTypeOK, ReplyRecords, MomentPasses, ReplyIsSent, ReplyIsStored, MailIsStored
    <2> QED
      BY <1>1, <2>1, <2>2 DEF ReviewInv, ReplyTypeOK
  <1>3. OnlyUndoOwes' /\ CancelsForMarks' /\ RunsReadWhatIsSent'
    BY <1>1 DEF ReviewInv, OnlyUndoOwes, CancelledElsewhere, CancelsForMarks, RunsReadWhatIsSent
  <1> QED
    BY <1>2, <1>3 DEF ReviewInv

(* Marks are set and taken back only while the server rests, and what it    *)
(* then has to do is noted with them.                                       *)
LEMMA MarkSteps ==
    ASSUME ReviewInv, NEW m \in InMails, markHandledElsewhere(m) \/ undoHandledElsewhere(m)
    PROVE  ReviewInv'
  <1> USE DEF ServerFree, AtRest, Runners
  <1>1. /\ UNCHANGED <<replyDraft, leftBehind, sentMails>>
        /\ runner["server"].kind = "rest"
        /\ runner' \in [Runners -> Runs]
        /\ runner'["server"].kind \in {"mark", "undo"}
        /\ \A r \in Runners : runner'[r].replies = runner[r].replies
    BY DEF ReviewInv, ReplyTypeOK, Runs, markHandledElsewhere, undoHandledElsewhere
  <1>2. ReplyTypeOK'
    BY <1>1 DEF ReviewInv, ReplyTypeOK, Runs, markHandledElsewhere, undoHandledElsewhere
  <1>3. OnlyUndoOwes'
    <2> SUFFICES ASSUME NEW d \in InMails \ (marked' \cup leftBehind'), CancelledElsewhere(d)'
                 PROVE  runner'["server"].kind = "undo" /\ d \in runner'["server"].todo
      BY DEF OnlyUndoOwes
    <2>1. CancelledElsewhere(d) /\ d \in marked
      BY <1>1 DEF ReviewInv, OnlyUndoOwes, CancelledElsewhere, markHandledElsewhere, undoHandledElsewhere
    <2>2. d = m /\ undoHandledElsewhere(m)
      BY <2>1 DEF markHandledElsewhere, undoHandledElsewhere
    <2> QED
      BY <2>1, <2>2 DEF ReviewInv, ReplyTypeOK, Runs, CancelledElsewhere, undoHandledElsewhere
  <1>4. CancelsForMarks' /\ RunsReadWhatIsSent'
    BY <1>1 DEF ReviewInv, ReplyTypeOK, Runs, CancelsForMarks, RunsReadWhatIsSent, markHandledElsewhere, undoHandledElsewhere
  <1> QED
    BY <1>2, <1>3, <1>4 DEF ReviewInv

(* One draft after the other is cancelled for a mark, restored by an undo,  *)
(* or looked at by a sync.                                                  *)
LEMMA TakingOff ==
    ASSUME ReviewInv, NEW r \in Runners, NEW m \in InMails, TakeOff(r, m)
    PROVE  /\ runner' \in [Runners -> Runs]
           /\ \A q \in Runners : /\ runner'[q].kind = runner[q].kind /\ runner'[q].marked = runner[q].marked
                                 /\ runner'[q].replies = runner[q].replies
                                 /\ runner'[q].todo \subseteq runner[q].todo
                                 /\ runner[q].todo \subseteq runner'[q].todo \cup {m}
           /\ \A q \in Runners \ {r} : runner'[q] = runner[q]
  BY DEF ReviewInv, ReplyTypeOK, Runs, TakeOff

(* Writing the draft of one mail leaves the others.                        *)
LEMMA DraftSet ==
    ASSUME ReviewInv, NEW m \in InMails, NEW draft \in ReplyDrafts, Set(m, draft)
    PROVE  /\ replyDraft' \in [InMails -> ReplyDrafts]
           /\ replyDraft'[m] = draft
           /\ \A d \in InMails \ {m} : replyDraft'[d] = replyDraft[d]
  BY DEF ReviewInv, ReplyTypeOK, Set

(* The invariant over a mark that cancels,                                 *)
LEMMA CancelStep ==
    ASSUME ReviewInv, NEW m \in InMails, cancelPendingDrafts(m)
    PROVE  ReviewInv'
  <1> DEFINE draft == [replyDraft[m] EXCEPT !.status = "cancelled", !.why = "elsewhere"]
  <1>1. draft \in ReplyDrafts /\ "server" \in Runners
    BY DEF ReviewInv, ReplyTypeOK, ReplyDrafts, Runners
  <1> HIDE DEF draft
  <1>2. Set(m, draft) /\ TakeOff("server", m) /\ UNCHANGED <<moment, stored, sentMails, replies, marked, leftBehind>>
    BY DEF cancelPendingDrafts, draft
  <1>3. m \in marked
    BY DEF cancelPendingDrafts, ReviewInv, CancelsForMarks
  <1>4. ReplyTypeOK'
    BY <1>1, <1>2, TakingOff, DraftSet DEF ReviewInv, ReplyTypeOK
  <1>5. OnlyUndoOwes'
    BY <1>1, <1>2, <1>3, TakingOff, DraftSet DEF ReviewInv, OnlyUndoOwes, CancelledElsewhere
  <1>6. CancelsForMarks' /\ RunsReadWhatIsSent'
    BY <1>1, <1>2, TakingOff DEF ReviewInv, CancelsForMarks, RunsReadWhatIsSent
  <1> QED
    BY <1>4, <1>5, <1>6 DEF ReviewInv

(* an undo that restores,                                                  *)
LEMMA UndoStep ==
    ASSUME ReviewInv, NEW m \in InMails, restoreSystemCancelledDrafts(m)
    PROVE  ReviewInv'
  <1> DEFINE draft == [status |-> "pending", why |-> "", restoredAt |-> moment]
  <1>1. draft \in ReplyDrafts /\ "server" \in Runners
    BY DEF ReviewInv, ReplyTypeOK, ReplyDrafts, Runners
  <1>2. TakeOff("server", m) /\ UNCHANGED <<moment, stored, sentMails, replies, marked>>
    BY DEF restoreSystemCancelledDrafts
  <1>3. CASE isHandledElsewhereCancellation(m)
    <2>1. Set(m, draft) /\ leftBehind' = leftBehind \ {m} /\ draft.status = "pending"
      BY <1>3 DEF restoreSystemCancelledDrafts
    <2> HIDE DEF draft
    <2>2. ReplyTypeOK'
      BY <1>1, <1>2, <2>1, TakingOff, DraftSet DEF ReviewInv, ReplyTypeOK
    <2>3. OnlyUndoOwes'
      <3> SUFFICES ASSUME NEW d \in InMails \ (marked' \cup leftBehind'), CancelledElsewhere(d)'
                   PROVE  runner'["server"].kind = "undo" /\ d \in runner'["server"].todo
        BY DEF OnlyUndoOwes
      <3>1. d # m
        BY <1>1, <2>1, DraftSet DEF CancelledElsewhere
      <3>2. CancelledElsewhere(d) /\ d \notin marked \cup leftBehind
        BY <1>1, <1>2, <2>1, <3>1, DraftSet DEF CancelledElsewhere
      <3> QED
        BY <1>1, <1>2, <3>1, <3>2, TakingOff DEF ReviewInv, OnlyUndoOwes
    <2> QED
      BY <1>1, <1>2, <2>2, <2>3, TakingOff DEF ReviewInv, CancelsForMarks, RunsReadWhatIsSent
  <1>4. CASE ~isHandledElsewhereCancellation(m)
    <2>1. UNCHANGED <<replyDraft, leftBehind>>
      BY <1>4 DEF restoreSystemCancelledDrafts
    <2>2. OnlyUndoOwes'
      <3> SUFFICES ASSUME NEW d \in InMails \ (marked \cup leftBehind), CancelledElsewhere(d)
                   PROVE  runner'["server"].kind = "undo" /\ d \in runner'["server"].todo
        BY <1>2, <2>1 DEF OnlyUndoOwes, CancelledElsewhere
      <3>1. d # m
        BY <1>4 DEF CancelledElsewhere, isHandledElsewhereCancellation
      <3> QED
        BY <1>1, <1>2, <3>1, TakingOff DEF ReviewInv, OnlyUndoOwes
    <2> QED
      BY <1>1, <1>2, <2>1, <2>2, TakingOff DEF ReviewInv, ReplyTypeOK, CancelsForMarks, RunsReadWhatIsSent
  <1> QED
    BY <1>3, <1>4

(* a sync that cancels what was answered,                                  *)
LEMMA AnsweredStep ==
    ASSUME ReviewInv, NEW m \in InMails, CancelOrSkip(m)
    PROVE  ReviewInv'
  <1> DEFINE read == m \in runner["server"].marked
             draft == [replyDraft[m] EXCEPT !.status = "cancelled", !.why = IF read THEN "elsewhere" ELSE "replied"]
  <1>1. draft \in ReplyDrafts /\ "server" \in Runners
    BY DEF ReviewInv, ReplyTypeOK, ReplyDrafts, Runners
  <1>2. /\ TakeOff("server", m) /\ UNCHANGED <<moment, stored, sentMails, replies, marked, leftBehind>>
        /\ runner["server"].kind = "cancel"
        /\ Set(m, draft) \/ UNCHANGED replyDraft
    BY DEF CancelOrSkip
  <1>3. draft.why = "elsewhere" => m \in marked
    BY <1>2 DEF ReviewInv, ReplyTypeOK, ReplyDrafts, CancelsForMarks
  <1> HIDE DEF draft
  <1>4. ReplyTypeOK'
    BY <1>1, <1>2, TakingOff, DraftSet DEF ReviewInv, ReplyTypeOK
  <1>5. OnlyUndoOwes'
    BY <1>1, <1>2, <1>3, TakingOff, DraftSet DEF ReviewInv, OnlyUndoOwes, CancelledElsewhere
  <1> QED
    BY <1>1, <1>2, <1>4, <1>5, TakingOff DEF ReviewInv, CancelsForMarks, RunsReadWhatIsSent

(* a run that drafts,                                                      *)
LEMMA DraftingStep ==
    ASSUME ReviewInv, NEW r \in Runners, NEW m \in InMails, DraftOrSkip(r, m)
    PROVE  ReviewInv'
  <1> DEFINE draft == [NoReplyDraft EXCEPT !.status = "pending"]
  <1>1. draft \in ReplyDrafts /\ draft.status = "pending"
    BY DEF NoReplyDraft, ReplyDrafts
  <1> HIDE DEF draft
  <1>2. /\ TakeOff(r, m) /\ UNCHANGED <<moment, stored, sentMails, replies, marked, leftBehind>>
        /\ runner[r].kind = "draft"
        /\ Set(m, draft) \/ UNCHANGED replyDraft
    BY DEF DraftOrSkip, draft
  <1>3. ReplyTypeOK'
    BY <1>1, <1>2, TakingOff, DraftSet DEF ReviewInv, ReplyTypeOK
  <1>4. OnlyUndoOwes'
    BY <1>1, <1>2, TakingOff, DraftSet DEF ReviewInv, OnlyUndoOwes, CancelledElsewhere, Runners
  <1> QED
    BY <1>2, <1>3, <1>4, TakingOff DEF ReviewInv, CancelsForMarks, RunsReadWhatIsSent, Runners

-----------------------------------------------------------------------------
(* Runs begin, end and die.                                                 *)
LEMMA RunSteps ==
    ASSUME ReviewInv, NEW r \in Runners,
           \/ r = "server" /\ cancelAnsweredDrafts
           \/ runReplyDraftPipeline(r) \/ RunEnds(r) \/ RunDies(r)
           \/ \E m \in InMails : DraftConflicts(r, m)
    PROVE  ReviewInv'
  <1> USE DEF Runners
  <1>1. /\ UNCHANGED <<moment, stored, sentMails, replies, marked, replyDraft>>
        /\ leftBehind \subseteq leftBehind' /\ leftBehind' \subseteq InMails
    BY DEF ReviewInv, ReplyTypeOK, Runs, cancelAnsweredDrafts, runReplyDraftPipeline, RunEnds, RunDies, DraftConflicts
  <1>2. /\ runner' \in [Runners -> Runs]
        /\ \A q \in Runners \ {r} : runner'[q] = runner[q]
        /\ runner'[r].replies \subseteq sentMails
    BY DEF ReviewInv, ReplyTypeOK, Runs, AtRest,
           cancelAnsweredDrafts, runReplyDraftPipeline, RunEnds, RunDies, DraftConflicts
  <1>3. runner'[r].kind \in {"rest", "cancel", "draft"} /\ runner'[r].marked \subseteq marked
    BY DEF ReviewInv, ReplyTypeOK, Runs, AtRest,
           cancelAnsweredDrafts, runReplyDraftPipeline, RunEnds, RunDies, DraftConflicts
  <1>4. OnlyUndoOwes'
    <2> SUFFICES ASSUME NEW m \in InMails \ (marked \cup leftBehind'), CancelledElsewhere(m)
                 PROVE  runner'["server"].kind = "undo" /\ m \in runner'["server"].todo
      BY <1>1 DEF OnlyUndoOwes, CancelledElsewhere
    <2>1. runner["server"].kind = "undo" /\ m \in runner["server"].todo
      BY <1>1 DEF ReviewInv, OnlyUndoOwes
    <2>2. r # "server"
      BY <2>1, <1>1 DEF CancelledElsewhere, isHandledElsewhereCancellation, ServerFree, AtRest,
             cancelAnsweredDrafts, runReplyDraftPipeline, RunEnds, RunDies, DraftConflicts
    <2> QED
      BY <1>2, <2>1, <2>2
  <1> QED
    BY <1>1, <1>2, <1>3, <1>4 DEF ReviewInv, ReplyTypeOK, CancelsForMarks, RunsReadWhatIsSent

(* and what a person decides.                                              *)
LEMMA PersonSteps ==
    ASSUME ReviewInv, NEW m \in InMails, PersonApproves(m) \/ PersonCancels(m) \/ PersonRestores(m)
    PROVE  ReviewInv'
  <1>1. /\ UNCHANGED <<moment, stored, sentMails, replies, marked, runner>>
        /\ leftBehind' \subseteq InMails
    BY DEF ReviewInv, ReplyTypeOK, PersonApproves, PersonCancels, PersonRestores
  <1>2. PICK draft \in ReplyDrafts : Set(m, draft) /\ ~(draft.status = "cancelled" /\ draft.why = "elsewhere")
    <2>1. replyDraft[m] \in ReplyDrafts /\ moment \in Moments
      BY DEF ReviewInv, ReplyTypeOK
    <2>2. CASE PersonApproves(m)
      <3>1. [replyDraft[m] EXCEPT !.status = "approved"] \in ReplyDrafts
        BY <2>1 DEF ReplyDrafts
      <3>2. [replyDraft[m] EXCEPT !.status = "approved"].status = "approved"
        BY <2>1 DEF ReplyDrafts
      <3> QED
        BY <2>2, <3>1, <3>2 DEF PersonApproves
    <2>3. CASE PersonCancels(m)
      <3> DEFINE draft == [replyDraft[m] EXCEPT !.status = "cancelled", !.why = "person"]
      <3>1. draft \in ReplyDrafts /\ draft.why = "person"
        BY <2>1 DEF ReplyDrafts
      <3> QED
        BY <2>3, <3>1 DEF PersonCancels
    <2>4. CASE PersonRestores(m)
      <3> DEFINE draft == [status |-> "pending", why |-> "", restoredAt |-> moment]
      <3>1. draft \in ReplyDrafts /\ draft.status = "pending"
        BY <2>1 DEF ReplyDrafts
      <3> QED
        BY <2>4, <3>1 DEF PersonRestores
    <2> QED
      BY <2>2, <2>3, <2>4
  <1>3. leftBehind' \in {leftBehind, leftBehind \ {m}}
    BY DEF PersonApproves, PersonCancels, PersonRestores
  <1>4. ReplyTypeOK'
    BY <1>1, <1>2, DraftSet DEF ReviewInv, ReplyTypeOK
  <1>5. OnlyUndoOwes'
    BY <1>1, <1>2, <1>3, DraftSet DEF ReviewInv, OnlyUndoOwes, CancelledElsewhere
  <1> QED
    BY <1>1, <1>4, <1>5 DEF ReviewInv, CancelsForMarks, RunsReadWhatIsSent

(* A draft cancelled for a mark has that mark, or an undo or a start       *)
(* still owes its return; no sync cancels for a mark it read and that was  *)
(* undone since.                                                           *)
THEOREM ReviewInvariant == ReviewSpec => []ReviewInv
  <1>1. ASSUME ReviewInv, [ReviewNext]_reviewVars PROVE ReviewInv'
    <2>1. CASE UNCHANGED reviewVars
      BY <1>1, <2>1 DEF reviewVars, ReviewInv, ReplyTypeOK, OnlyUndoOwes, CancelledElsewhere, CancelsForMarks, RunsReadWhatIsSent
    <2>2. CASE \E m \in InMails : cancelPendingDrafts(m) \/ restoreSystemCancelledDrafts(m) \/ CancelOrSkip(m)
      BY <1>1, <2>2, CancelStep, UndoStep, AnsweredStep
    <2>3. CASE \E r \in Runners, m \in InMails : DraftOrSkip(r, m)
      BY <1>1, <2>3, DraftingStep
    <2>4. CASE \E m \in InMails : PersonApproves(m) \/ PersonCancels(m) \/ PersonRestores(m)
      BY <1>1, <2>4, PersonSteps
    <2>5. CASE \E m \in InMails : markHandledElsewhere(m) \/ undoHandledElsewhere(m)
      BY <1>1, <2>5, MarkSteps
    <2>6. CASE cancelAnsweredDrafts
      BY <1>1, <2>6, RunSteps DEF Runners
    <2> QED
      BY <1>1, <2>1, <2>2, <2>3, <2>4, <2>5, <2>6, MailboxSteps, RunSteps DEF ReviewNext
  <1> QED
    BY ReviewInitInv, <1>1, PTL DEF ReviewSpec

-----------------------------------------------------------------------------
(* Types of the drafts, the marks and the runs: no run keeps a reply that   *)
(* is not in the Sent folder of the mailbox.                                *)
THEOREM ReviewTypeCorrect == ReviewSpec => []ReplyTypeOK
  BY ReviewInvariant, PTL DEF ReviewInv

(* With a mark undone and the server at rest no draft is still cancelled    *)
(* for it, whoever cancelled it and in whatever order, but for those an     *)
(* undo had not reached when the server died.                               *)
THEOREM UndoLeavesNothing == ReviewSpec => []UndoRestoresAll
  <1>1. ReviewInv => UndoRestoresAll
    BY DEF ReviewInv, OnlyUndoOwes, CancelledElsewhere, UndoRestoresAll, ServerFree, AtRest
  <1> QED
    BY <1>1, ReviewInvariant, PTL

(* A restored draft is cancelled as answered only for a reply that was sent *)
(* after the restore, however old the look at the Sent folder is.           *)
THEOREM RestoresHold == ReviewSpec => RestoreHolds
  <1> DEFINE Holds ==
        \A m \in InMails :
          AwaitsReview(m) /\ replyDraft'[m].status = "cancelled" /\ replyDraft'[m].why = "replied"
          => \E s \in sentMails : s[1] = ConversationOf[m] /\ s[2] > replyDraft[m].restoredAt
  <1>1. ASSUME ReviewInv, ReviewNext PROVE Holds
    <2> SUFFICES ASSUME NEW m \in InMails, AwaitsReview(m), replyDraft'[m].status = "cancelled",
                        replyDraft'[m].why = "replied"
                 PROVE  \E s \in sentMails : s[1] = ConversationOf[m] /\ s[2] > replyDraft[m].restoredAt
      OBVIOUS
    <2> USE DEF ReviewInv, ReplyTypeOK, ReplyDrafts, Set, AwaitsReview
    <2>1. replyDraft' # replyDraft
      OBVIOUS
    <2>a. ASSUME NEW d \in InMails, cancelPendingDrafts(d) \/ restoreSystemCancelledDrafts(d) PROVE FALSE
      <3>1. CASE cancelPendingDrafts(d)
        <4> DEFINE draft == [replyDraft[d] EXCEPT !.status = "cancelled", !.why = "elsewhere"]
        <4>1. draft \in ReplyDrafts /\ draft.why = "elsewhere"
          BY <1>1
        <4> HIDE DEF draft
        <4>2. Set(d, draft)
          BY <3>1 DEF cancelPendingDrafts, draft
        <4> QED
          BY <1>1, <4>1, <4>2, DraftSet
      <3>2. CASE restoreSystemCancelledDrafts(d)
        <4> DEFINE draft == [status |-> "pending", why |-> "", restoredAt |-> moment]
        <4>1. draft \in ReplyDrafts /\ draft.status = "pending"
          BY <1>1
        <4> HIDE DEF draft
        <4>2. Set(d, draft)
          BY <2>1, <3>2 DEF restoreSystemCancelledDrafts, draft
        <4> QED
          BY <1>1, <4>1, <4>2, DraftSet
      <3> QED
        BY <2>a, <3>1, <3>2
    <2>b. ASSUME NEW d \in InMails, PersonApproves(d) \/ PersonCancels(d) \/ PersonRestores(d) PROVE FALSE
      <3>1. CASE PersonApproves(d)
        <4> DEFINE draft == [replyDraft[d] EXCEPT !.status = "approved"]
        <4>1. draft \in ReplyDrafts /\ draft.status = "approved"
          BY <1>1
        <4> HIDE DEF draft
        <4>2. Set(d, draft)
          BY <3>1 DEF PersonApproves, draft
        <4> QED
          BY <1>1, <4>1, <4>2, DraftSet
      <3>2. CASE PersonCancels(d)
        BY <1>1, <3>2 DEF PersonCancels
      <3>3. CASE PersonRestores(d)
        BY <1>1, <3>3 DEF PersonRestores
      <3> QED
        BY <2>b, <3>1, <3>2, <3>3
    <2>c. ASSUME NEW d \in InMails, NEW r \in Runners, DraftOrSkip(r, d) PROVE FALSE
      BY <1>1, <2>c DEF DraftOrSkip, NoReplyDraft
    <2>d. ASSUME NEW d \in InMails, MailIsStored(d) \/ markHandledElsewhere(d) \/ undoHandledElsewhere(d) PROVE FALSE
      BY <2>1, <2>d DEF MailIsStored, markHandledElsewhere, undoHandledElsewhere
    <2>e. ASSUME NEW r \in Runners,
                 runReplyDraftPipeline(r) \/ RunEnds(r) \/ RunDies(r) \/ \E d \in InMails : DraftConflicts(r, d)
          PROVE FALSE
      BY <2>1, <2>e DEF runReplyDraftPipeline, RunEnds, RunDies, DraftConflicts
    <2>f. ~MomentPasses /\ ~cancelAnsweredDrafts
      BY <2>1 DEF MomentPasses, cancelAnsweredDrafts
    <2>g. (\A c \in Conversations : ~ReplyIsSent(c)) /\ (\A s \in ReplyRecords : ~ReplyIsStored(s))
      BY <2>1 DEF ReplyIsSent, ReplyIsStored
    <2>h. PICK d \in InMails : CancelOrSkip(d)
      BY <1>1, <2>a, <2>b, <2>c, <2>d, <2>e, <2>f, <2>g DEF ReviewNext
    <2>2. d = m /\ Answered(m) /\ m \notin runner["server"].marked
      BY <1>1, <2>h DEF CancelOrSkip
    <2>3. PICK s \in runner["server"].replies : s[1] = ConversationOf[m] /\ s[2] > replyDraft[m].restoredAt
      BY <2>2 DEF Answered, hasLaterSentReply
    <2> QED
      BY <1>1, <2>3 DEF RunsReadWhatIsSent, Runners
  <1>2. ReviewInv /\ [ReviewNext]_reviewVars => [Holds]_reviewVars
    BY <1>1
  <1> QED
    BY <1>2, ReviewInvariant, PTL DEF ReviewSpec, RestoreHolds

-----------------------------------------------------------------------------
(* The screen.  Whatever draws the panel for a mail of a list empties what  *)
(* it shows, so only an answer can fill it, and an answer is compared with  *)
(* the selection.                                                           *)
PanelInv ==
    /\ {selected, panel, output, files} \subseteq MailOrNone
    /\ fileRequests \subseteq FileRequests
    /\ AnswersAreOfTheSelection

RequestsTyped ==
    /\ toolRequests \subseteq ToolRequests
    /\ confirmed \subseteq ScreenMails /\ hashFetches \subseteq ScreenMails
    /\ loading \in 0..MaxLoads /\ saving \in 0..MaxLoads

ScreenInv == listed \subseteq ScreenMails /\ PanelInv /\ RequestsTyped

(* A replaced request is one of the requests there were.                   *)
LEMMA FilesReplaced ==
    ASSUME NEW requests \in SUBSET FileRequests PROVE Replaced(requests) \subseteq FileRequests
  BY DEF FileRequests, Replaced

(* So for the tools.                                                       *)
LEMMA ToolsReplaced ==
    ASSUME NEW requests \in SUBSET ToolRequests PROVE Replaced(requests) \subseteq ToolRequests
  BY DEF ToolRequests, Replaced

(* Drawing a mail asks for that mail,                                      *)
LEMMA DrawingKeeps ==
    ASSUME PanelInv, NEW mails \in SUBSET ScreenMails, NEW mail \in mails, DrawnFor(mail, mails)
    PROVE  PanelInv'
  <1>1. [mail |-> mail, latest |-> TRUE] \in FileRequests
    BY DEF FileRequests
  <1> QED
    BY <1>1, FilesReplaced DEF PanelInv, DrawnFor, MailOrNone, AnswersAreOfTheSelection

(* also when the list is drawn again,                                      *)
LEMMA RedrawingKeeps ==
    ASSUME PanelInv, NEW mails \in SUBSET ScreenMails, NEW wanted, Redrawn(mails, wanted)
    PROVE  PanelInv'
  <1>1. PICK visible \in SUBSET mails :
          \/ /\ selected' = NoMail /\ panel' = NoMail /\ output' = NoMail /\ files' = NoMail
             /\ UNCHANGED fileRequests
          \/ \E mail \in visible : DrawnFor(mail, mails)
    BY DEF Redrawn
  <1>2. CASE \E mail \in visible : DrawnFor(mail, mails)
    BY <1>2, DrawingKeeps
  <1> QED
    BY <1>1, <1>2 DEF PanelInv, MailOrNone, AnswersAreOfTheSelection

(* rendered,                                                               *)
LEMMA RenderingKeeps ==
    ASSUME PanelInv, NEW mails \in SUBSET ScreenMails, Rendered(mails)
    PROVE  PanelInv'
  BY DrawingKeeps, RedrawingKeeps DEF Rendered

(* or the mail selected by hand.                                           *)
LEMMA SelectedAgain ==
    ASSUME PanelInv, listed \subseteq ScreenMails, NEW mail \in ScreenMails, RedrawnThen(mail)
    PROVE  PanelInv'
  <1>1. CASE mail \in listed
    BY <1>1, DrawingKeeps DEF RedrawnThen
  <1>2. CASE mail \notin listed
    <2>1. selected' = mail /\ output' = NoMail /\ files' = NoMail
      BY <1>2 DEF RedrawnThen
    <2>2. panel' \in MailOrNone /\ fileRequests' \subseteq FileRequests
      <3>1. \A first \in listed : [mail |-> first, latest |-> TRUE] \in FileRequests
        BY DEF FileRequests
      <3> QED
        BY <1>2, <3>1, FilesReplaced DEF RedrawnThen, PanelInv, MailOrNone
    <2> QED
      BY <2>1, <2>2 DEF PanelInv, MailOrNone, AnswersAreOfTheSelection
  <1> QED
    BY <1>1, <1>2

(* Nothing on the panel answers for another mail than the selected one,    *)
(* and what is asked for is of mails there are.                            *)
THEOREM ScreenInvariant == ScreenSpec => []ScreenInv
  <1>1. ScreenInit => ScreenInv
    BY ScreenAssumption DEF ScreenInit, ScreenInv, PanelInv, RequestsTyped, MailOrNone, AnswersAreOfTheSelection
  <1>2. ASSUME ScreenInv, [ScreenNext]_screenVars PROVE ScreenInv'
    <2> USE DEF ScreenInv
    <2>1. CASE UNCHANGED screenVars
      BY <1>2, <2>1 DEF screenVars, PanelInv, RequestsTyped, AnswersAreOfTheSelection
    <2>2. CASE Filter
      BY <1>2, <2>2, RedrawingKeeps DEF Filter, UnchangedRequests, RequestsTyped
    <2>3. CASE \E mail \in ScreenMails : Select(mail) \/ OpenHash(mail)
      <3> PICK mail \in ScreenMails : Select(mail) \/ OpenHash(mail)
        BY <2>3
      <3>1. PanelInv'
        BY <1>2, DrawingKeeps DEF Select, OpenHash, UnchangedPanel, PanelInv, AnswersAreOfTheSelection
      <3> QED
        BY <1>2, <3>1 DEF Select, OpenHash, UnchangedRequests, RequestsTyped
    <2>4. CASE \E kind \in ToolKinds : RunTool(kind)
      <3> PICK kind \in ToolKinds : RunTool(kind)
        BY <2>4
      <3>1. panel \in ScreenMails
        BY <1>2 DEF RunTool, PanelInv, MailOrNone
      <3>2. [mail |-> panel, kind |-> kind, latest |-> TRUE] \in ToolRequests
        BY <3>1 DEF ToolRequests
      <3> QED
        BY <1>2, <3>2, ToolsReplaced DEF RunTool, PanelInv, MailOrNone, RequestsTyped, AnswersAreOfTheSelection
    <2>5. CASE Save \/ Load
      BY <1>2, <2>5, ScreenAssumption
         DEF Save, Load, UnchangedPanel, PanelInv, RequestsTyped, AnswersAreOfTheSelection
    <2>6. CASE \E request \in toolRequests : ToolAnswers(request)
      BY <1>2, <2>6 DEF ToolAnswers, StillAsked, ToolRequests, PanelInv, RequestsTyped, MailOrNone, AnswersAreOfTheSelection
    <2>7. CASE \E request \in fileRequests : FilesArrive(request)
      BY <1>2, <2>7 DEF FilesArrive, StillAsked, FileRequests, UnchangedRequests, PanelInv, RequestsTyped, MailOrNone,
                        AnswersAreOfTheSelection
    <2>8. CASE \E mail \in confirmed : ConfirmEnds(mail)
      <3> PICK mail \in confirmed : ConfirmEnds(mail)
        BY <2>8
      <3>1. PanelInv'
        BY <1>2, SelectedAgain DEF ConfirmEnds, RequestsTyped
      <3> QED
        BY <1>2, <3>1 DEF ConfirmEnds, RequestsTyped
    <2>9. CASE SaveAnswers \/ LoadAnswers
      <3>1. PanelInv' /\ listed' \subseteq ScreenMails
        <4>1. CASE SaveAnswers
          BY <1>2, <4>1, RedrawingKeeps DEF SaveAnswers, UnchangedPanel, PanelInv, AnswersAreOfTheSelection
        <4>2. CASE LoadAnswers
          BY <1>2, <4>2, RenderingKeeps DEF LoadAnswers, UnchangedPanel, PanelInv, AnswersAreOfTheSelection
        <4> QED
          BY <2>9, <4>1, <4>2
      <3> QED
        BY <1>2, <2>9, <3>1, ScreenAssumption DEF SaveAnswers, LoadAnswers, RequestsTyped
    <2>10. CASE \E mail \in hashFetches : HashAnswers(mail)
      <3> PICK mail \in hashFetches : HashAnswers(mail)
        BY <2>10
      <3>1. PanelInv' /\ listed' \subseteq ScreenMails
        BY <1>2, RenderingKeeps DEF HashAnswers, UnchangedPanel, PanelInv, RequestsTyped, AnswersAreOfTheSelection
      <3> QED
        BY <1>2, <3>1 DEF HashAnswers, RequestsTyped
    <2> QED
      BY <1>2, <2>1, <2>2, <2>3, <2>4, <2>5, <2>6, <2>7, <2>8, <2>9, <2>10 DEF ScreenNext
  <1> QED
    BY <1>1, <1>2, PTL DEF ScreenSpec

(* Types of the screen and of what is under way.                            *)
THEOREM ScreenTypeCorrect == ScreenSpec => []ScreenTypeOK
  <1>1. ScreenInv => ScreenTypeOK
    BY DEF ScreenInv, PanelInv, RequestsTyped, ScreenTypeOK
  <1> QED
    BY <1>1, ScreenInvariant, PTL

(* What the assistant wrote and the attachments shown are those of the      *)
(* selected mail, for any number of mails, answers and loads under way.     *)
THEOREM AnswersBelong == ScreenSpec => []AnswersAreOfTheSelection
  <1>1. ScreenInv => AnswersAreOfTheSelection
    BY DEF ScreenInv, PanelInv
  <1> QED
    BY <1>1, ScreenInvariant, PTL

-----------------------------------------------------------------------------
(* The three parts beside each other, as the run has them: whichever part   *)
(* runs, each takes only steps of its own, so that all that is proved of    *)
(* the parts holds of the run.                                              *)
THEOREM RepliesRunTheirParts == RepliesSpec => Spec /\ ReviewSpec /\ ScreenSpec
<1>1. RepliesInit => Init /\ ReviewInit /\ ScreenInit
  BY DEF RepliesInit
<1>2. [RepliesNext]_repliesVars => [Next]_vars /\ [ReviewNext]_reviewVars /\ [ScreenNext]_screenVars
  BY DEF RepliesNext, SendTurn, ReplyTurn, ScreenTurn, repliesVars
<1> QED
  BY <1>1, <1>2, PTL DEF RepliesSpec, Spec, ReviewSpec, ScreenSpec
=============================================================================
