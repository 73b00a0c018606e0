---------------------------- MODULE ReplyReview ----------------------------
(***************************************************************************)
(* The drafts the reply pipeline writes and what takes them back: the mark *)
(* "handled elsewhere" on a message, a reply already sent, a person        *)
(* (reply-draft-pipeline.js, handled-elsewhere.js, the end of a sync in    *)
(* persistent-mail-memory.js).                                             *)
(*                                                                         *)
(* Two processes write: the server, where a handler or the end of a sync   *)
(* runs to its end before the next one starts, and the script that runs    *)
(* the pipeline by hand.  Every draft is changed in a transaction of its   *)
(* own, so a process can die between any two.                              *)
(***************************************************************************)
EXTENDS Naturals, FiniteSets

CONSTANTS
    InMails,       \* inbound messages that need a reply
    ConversationOf,\* InMails -> the conversation
    CopyOf,        \* InMails -> replyCopyKey: copies of one mail share it
    ReceivedAt,    \* InMails -> the moment it was received
    MaxClock       \* bound: moments at which something is sent or restored

ASSUME ReviewAssumption == MaxClock \in Nat \ {0}

Conversations == {ConversationOf[m] : m \in InMails}
Runners == {"server", "script"}
Moments == 1..MaxClock
Never == 0

VARIABLES
    moment,      \* the clock
    stored,      \* inbound messages the store has
    sentMails,   \* replies in the Sent folder: <<conversation, moment>>
    replies,     \* those of them the store has
    marked,      \* message_handled_elsewhere with undone_at NULL
    replyDraft,  \* InMails -> its pipeline draft, request_id `reply.m<id>`
    runner,      \* what each process is in the middle of
    leftBehind   \* drafts an undo had still to restore when the server died

reviewVars == <<moment, stored, sentMails, replies, marked, replyDraft, runner, leftBehind>>

NoReplyDraft == [status |-> "none", why |-> "", restoredAt |-> Never]
AtRest == [kind |-> "rest", todo |-> {}, marked |-> {}, replies |-> {}]

ReplyRecords == Conversations \X Moments
ReplyDrafts == [status : {"none", "pending", "approved", "cancelled"},
                why : {"", "elsewhere", "replied", "person"},
                restoredAt : Moments \cup {Never}]
Runs == [kind : {"rest", "mark", "undo", "cancel", "draft"},
         todo : SUBSET InMails, marked : SUBSET InMails, replies : SUBSET ReplyRecords]

ReplyTypeOK ==
    /\ moment \in Moments
    /\ stored \subseteq InMails
    /\ sentMails \subseteq ReplyRecords
    /\ replies \subseteq sentMails
    /\ marked \subseteq InMails
    /\ replyDraft \in [InMails -> ReplyDrafts]
    /\ runner \in [Runners -> Runs]
    /\ leftBehind \subseteq InMails

ReviewInit ==
    /\ moment = 1
    /\ stored = {}
    /\ sentMails = {}
    /\ replies = {}
    /\ marked = {}
    /\ replyDraft = [m \in InMails |-> NoReplyDraft]
    /\ runner = [r \in Runners |-> AtRest]
    /\ leftBehind = {}

ServerFree == runner["server"] = AtRest
AwaitsReview(m) == replyDraft[m].status = "pending"
Set(m, draft) == replyDraft' = [replyDraft EXCEPT ![m] = draft]
TakeOff(r, m) == runner' = [runner EXCEPT ![r].todo = @ \ {m}]

\* A reply no later than the mail, or than the last restore by a person, does not count.
BadHasLaterSentReply(m, known, notBefore) == \E s \in known : s[1] = ConversationOf[m] /\ s[2] > ReceivedAt[m]
hasLaterSentReply(m, known, notBefore) ==
    \E s \in known : s[1] = ConversationOf[m] /\ s[2] > ReceivedAt[m] /\ s[2] > notBefore

------------------------------------------------------------------------------
(* The mailbox and the synchronisation of its pages. *)
MomentPasses ==
    /\ moment < MaxClock
    /\ moment' = moment + 1
    /\ UNCHANGED <<stored, sentMails, replies, marked, replyDraft, runner, leftBehind>>

ReplyIsSent(c) ==
    /\ sentMails' = sentMails \cup {<<c, moment>>}
    /\ sentMails' # sentMails
    /\ UNCHANGED <<moment, stored, replies, marked, replyDraft, runner, leftBehind>>

MailIsStored(m) ==
    /\ ServerFree
    /\ m \notin stored /\ ReceivedAt[m] <= moment
    /\ stored' = stored \cup {m}
    /\ UNCHANGED <<moment, sentMails, replies, marked, replyDraft, runner, leftBehind>>

ReplyIsStored(s) ==
    /\ ServerFree
    /\ s \in sentMails \ replies
    /\ replies' = replies \cup {s}
    /\ UNCHANGED <<moment, stored, sentMails, marked, replyDraft, runner, leftBehind>>

------------------------------------------------------------------------------
(* The mark.  Its transaction commits first; the drafts follow one by one. *)
markHandledElsewhere(m) ==
    /\ ServerFree
    /\ m \in stored
    /\ marked' = marked \cup {m}
    /\ runner' = [runner EXCEPT !["server"].kind = "mark",
                                !["server"].todo = {d \in {m} : AwaitsReview(d)}]
    /\ UNCHANGED <<moment, stored, sentMails, replies, replyDraft, leftBehind>>

cancelPendingDrafts(m) ==
    /\ runner["server"].kind = "mark"
    /\ m \in runner["server"].todo
    /\ Set(m, [replyDraft[m] EXCEPT !.status = "cancelled", !.why = "elsewhere"])
    /\ TakeOff("server", m)
    /\ UNCHANGED <<moment, stored, sentMails, replies, marked, leftBehind>>

undoHandledElsewhere(m) ==
    /\ ServerFree
    /\ m \in marked
    /\ marked' = marked \ {m}
    /\ runner' = [runner EXCEPT !["server"].kind = "undo",
          !["server"].todo = {d \in {m} : replyDraft[d].status = "cancelled"}]
    /\ UNCHANGED <<moment, stored, sentMails, replies, replyDraft, leftBehind>>

BadIsHandledElsewhereCancellation(m) == replyDraft[m].why = "elsewhere" /\ replyDraft[m].restoredAt = Never
isHandledElsewhereCancellation(m) == replyDraft[m].why = "elsewhere"

\* The events say `restored` by the session, as when a person restores by hand.
restoreSystemCancelledDrafts(m) ==
    /\ runner["server"].kind = "undo"
    /\ m \in runner["server"].todo
    /\ IF isHandledElsewhereCancellation(m)
       THEN /\ Set(m, [status |-> "pending", why |-> "", restoredAt |-> moment])
            /\ leftBehind' = leftBehind \ {m}
       ELSE UNCHANGED <<replyDraft, leftBehind>>
    /\ TakeOff("server", m)
    /\ UNCHANGED <<moment, stored, sentMails, replies, marked>>

------------------------------------------------------------------------------
(* The end of a sync: cancelAnsweredDrafts, then the pipeline if it is on. *)
cancelAnsweredDrafts ==
    /\ ServerFree
    /\ runner' = [runner EXCEPT !["server"] =
          [kind |-> "cancel", todo |-> {m \in InMails : AwaitsReview(m)},
           marked |-> marked, replies |-> replies]]
    /\ UNCHANGED <<moment, stored, sentMails, replies, marked, replyDraft, leftBehind>>

Answered(m) ==
    \/ m \in runner["server"].marked
    \/ hasLaterSentReply(m, runner["server"].replies, replyDraft[m].restoredAt)

CancelOrSkip(m) ==
    /\ runner["server"].kind = "cancel"
    /\ m \in runner["server"].todo
    /\ IF Answered(m)
       THEN Set(m, [replyDraft[m] EXCEPT !.status = "cancelled",
                      !.why = IF m \in runner["server"].marked THEN "elsewhere" ELSE "replied"])
       ELSE UNCHANGED replyDraft
    /\ TakeOff("server", m)
    /\ UNCHANGED <<moment, stored, sentMails, replies, marked, leftBehind>>

\* Either process: what is marked and answered is read once, at the start.
runReplyDraftPipeline(r) ==
    /\ runner[r].kind \in IF r = "server" THEN {"cancel"} ELSE {"rest"}
    /\ runner[r].todo = {}
    /\ \E recent \in SUBSET stored :
          runner' = [runner EXCEPT ![r] = [kind |-> "draft", todo |-> recent,
                                           marked |-> marked, replies |-> replies]]
    /\ UNCHANGED <<moment, stored, sentMails, replies, marked, replyDraft, leftBehind>>

existingDraftForCopy(m) ==
    \E n \in InMails : CopyOf[n] = CopyOf[m] /\ replyDraft[n].status \notin {"none", "cancelled"}

MayDraft(r, m) ==
    /\ m \notin runner[r].marked
    /\ ~hasLaterSentReply(m, runner[r].replies, Never)
    /\ ~existingDraftForCopy(m)

\* A request id already used by a cancelled draft is answered with that draft.
DraftOrSkip(r, m) ==
    /\ runner[r].kind = "draft"
    /\ m \in runner[r].todo
    /\ IF MayDraft(r, m) /\ replyDraft[m].status = "none"
       THEN Set(m, [NoReplyDraft EXCEPT !.status = "pending"])
       ELSE UNCHANGED replyDraft
    /\ TakeOff(r, m)
    /\ UNCHANGED <<moment, stored, sentMails, replies, marked, leftBehind>>

\* ... or, when the text came out differently, with IDEMPOTENCY_CONFLICT, and the run ends.
DraftConflicts(r, m) ==
    /\ runner[r].kind = "draft"
    /\ m \in runner[r].todo
    /\ MayDraft(r, m) /\ replyDraft[m].status = "cancelled"
    /\ runner' = [runner EXCEPT ![r] = AtRest]
    /\ UNCHANGED <<moment, stored, sentMails, replies, marked, replyDraft, leftBehind>>

RunEnds(r) ==
    /\ runner[r].kind # "rest"
    /\ runner[r].todo = {}
    /\ runner' = [runner EXCEPT ![r] = AtRest]
    /\ UNCHANGED <<moment, stored, sentMails, replies, marked, replyDraft, leftBehind>>

\* A crash keeps what was committed; the drafts an undo had not reached stay cancelled.
RunDies(r) ==
    /\ runner[r].todo # {}
    /\ leftBehind' = IF runner[r].kind = "undo"
                     THEN leftBehind \cup {m \in runner[r].todo : isHandledElsewhereCancellation(m)}
                     ELSE leftBehind
    /\ runner' = [runner EXCEPT ![r] = AtRest]
    /\ UNCHANGED <<moment, stored, sentMails, replies, marked, replyDraft>>

------------------------------------------------------------------------------
(* What a person does to a draft (mail-send-drafts.js). *)
PersonApproves(m) ==
    /\ ServerFree /\ AwaitsReview(m)
    /\ Set(m, [replyDraft[m] EXCEPT !.status = "approved"])
    /\ UNCHANGED <<moment, stored, sentMails, replies, marked, runner, leftBehind>>

PersonCancels(m) ==
    /\ ServerFree /\ replyDraft[m].status \in {"pending", "approved"}
    /\ Set(m, [replyDraft[m] EXCEPT !.status = "cancelled", !.why = "person"])
    /\ UNCHANGED <<moment, stored, sentMails, replies, marked, runner, leftBehind>>

PersonRestores(m) ==
    /\ ServerFree
    /\ replyDraft[m].status = "cancelled" /\ replyDraft[m].why \in {"elsewhere", "replied"}
    /\ Set(m, [status |-> "pending", why |-> "", restoredAt |-> moment])
    /\ leftBehind' = leftBehind \ {m}
    /\ UNCHANGED <<moment, stored, sentMails, replies, marked, runner>>

------------------------------------------------------------------------------
ReviewNext ==
    \/ MomentPasses
    \/ \E c \in Conversations : ReplyIsSent(c)
    \/ \E s \in ReplyRecords : ReplyIsStored(s)
    \/ cancelAnsweredDrafts
    \/ \E m \in InMails :
          \/ MailIsStored(m)
          \/ markHandledElsewhere(m) \/ cancelPendingDrafts(m)
          \/ undoHandledElsewhere(m) \/ restoreSystemCancelledDrafts(m)
          \/ CancelOrSkip(m)
          \/ PersonApproves(m) \/ PersonCancels(m) \/ PersonRestores(m)
    \/ \E r \in Runners :
          \/ runReplyDraftPipeline(r) \/ RunEnds(r) \/ RunDies(r)
          \/ \E m \in InMails : DraftOrSkip(r, m) \/ DraftConflicts(r, m)

ReviewSpec == ReviewInit /\ [][ReviewNext]_reviewVars

------------------------------------------------------------------------------
\* A cancellation made for the mark does not outlive it: with the mark undone and
\* nothing running, no draft of the message is still cancelled for it, whether the
\* mark's own handler or a later sync cancelled it; only drafts the server had not
\* reached when it died in the middle of the undo (handled-elsewhere.js).
UndoRestoresAll ==
    ServerFree => \A m \in InMails \ (marked \cup leftBehind) :
        ~(replyDraft[m].status = "cancelled" /\ replyDraft[m].why = "elsewhere")

\* What a person restored stays: no later step of the system cancels it as answered
\* unless a reply was sent after the restore (test/reply-draft-pipeline.test.js:371, :392).
RestoreHolds ==
    [][\A m \in InMails :
          AwaitsReview(m) /\ replyDraft'[m].status = "cancelled" /\ replyDraft'[m].why = "replied"
          => \E s \in sentMails : s[1] = ConversationOf[m] /\ s[2] > replyDraft[m].restoredAt]_reviewVars

=============================================================================
