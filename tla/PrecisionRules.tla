---------------------------- MODULE PrecisionRules ----------------------------
(***************************************************************************)
(* What the rules make of a mail, what a person, a learned policy or a     *)
(* language model makes of that, and the lane it is shown in               *)
(* (precision-classifier.js, operational-classification.js,                *)
(* precision-llm.js, correction-generalization.js,                         *)
(* project-reclassification.js and the row of sqlite-store.js).            *)
(*                                                                         *)
(* As in MailEvents a mail is the set of the facts its patterns find: of   *)
(* the text written by its sender, without the history quoted below it,    *)
(* which splitMessageHistory cuts off, and of the message itself.          *)
(* Confidences are in percent.                                             *)
(***************************************************************************)
EXTENDS MailEvents, DueDates

CONSTANTS
    RuledMails,     \* sets of facts
    Came,           \* when the mail came, see DueDates
    Corrections,    \* what a person may set: functions from fields to values
    Answers         \* what a language model may answer

States == {"action_required", "decision_required", "waiting", "completed", "reference", "review_required"}
Doers == {"me", "external_party", "internal_team", "shared", "none", "unknown"}
Urgencies == {"critical", "high", "normal", "low"}
Resolutions == {"confirmed", "candidate", "review_required", "unassigned"}

(* What the service lets a person set, and takes from a model               *)
(* (normalizePrecisionCorrection, parsePrecisionLlmResponse).               *)
ASSUME RulingsAssumption ==
    /\ \A sets \in Corrections :
          /\ "state" \in DOMAIN sets => sets.state \in States
          /\ "actor" \in DOMAIN sets => sets.actor \in Doers
          /\ "priority" \in DOMAIN sets => sets.priority \in Urgencies
          /\ "project" \in DOMAIN sets => sets.project \in Resolutions
    /\ \A answer \in Answers :
          answer.state \in States /\ answer.actor \in Doers /\ answer.priority \in Urgencies

VARIABLES
    mail,           \* the mail
    mailFrame,          \* its events, which are those of its text at each reading
    matches,        \* active projects it names: 0, 1 or 2 for several
    ruling,         \* precision_corrections and learning policies: who set what
    saved,          \* its row of precision_classifications
    decided         \* the lane of the last snapshot in precision_classification_events

rulesVars == <<mail, mailFrame, matches, ruling, saved, decided>>

NoRuling == [by |-> "nobody", sets |-> <<>>]

Promotional(m) == Has(m, "promotional")
Invited(m) == HasAny(m, {"directRequest", "inquiry"})   \* hasVerifiedDirectRequest
Requested(m) == Invited(m) \/ HasAny(m, {"requested", "decisionAsked"})
SupportTicket(m) == Has(m, "supportTicket")
NoText(m) == Has(m, "noBody") /\ HasAny(m, {"noSubject", "threadSubject", "forwarded"})
GreetingOnly(m) == HasAny(m, {"noBody", "greeting"})
ShortSubject(m) == HasAny(m, {"noSubject", "shortSubject"})

Verdict(state, confidence, reasons) ==
    [state |-> state, confidence |-> confidence, reasons |-> reasons]
Action(confidence) == Verdict("action_required", confidence, {})
Waiting(confidence) == Verdict("waiting", confidence, {})
Completed(confidence) == Verdict("completed", confidence, {})
Reference(confidence) == Verdict("reference", confidence, {})
Review(confidence, reason) == Verdict("review_required", confidence, {reason})

------------------------------------------------------------------------------
(* What the text asks, by the rules.                                        *)
stateAndEvidence(m) == FirstOf(
    <<Rule(NoText(m), Review(20, "empty_current_content")),
      Rule(Has(m, "decisionAsked"), Verdict("decision_required", 94, {})),
      Rule(Requested(m) /\ Has(m, "contradicted"), Review(48, "request_no_action_conflict")),
      Rule(Requested(m), Action(94)),
      Rule(Has(m, "waitingSaid"), Waiting(90)),
      Rule(Has(m, "completedSaid"), Completed(91)),
      Rule(Has(m, "noAction"), Reference(94)),
      Rule(Has(m, "commitment"), Waiting(84)),
      Rule(TRUE, Review(40, "insufficient_action_evidence"))>>)

(* Advertising asks nothing, unless its text makes a dated request.         *)
baseState(m) ==
    IF Promotional(m) \/ (Has(m, "promotionalText") /\ ~(Requested(m) /\ Has(m, "datedRequest")))
    THEN Reference(96) ELSE stateAndEvidence(m)

(* Mail that was thrown away, and drafts that say nothing yet.              *)
LifecycleRules(m) ==
    LET gone == LifecycleFolder(m)
        hollow == DraftLike(m) /\ GreetingOnly(m) IN
    <<Rule(gone /\ hollow /\ ShortSubject(m) /\ Has(m, "aged"), Reference(90)),
      Rule(gone /\ hollow /\ ShortSubject(m), Review(70, "incomplete_draft")),
      Rule(gone /\ DraftLike(m) /\ ~ShortSubject(m), Reference(88)),
      Rule(gone, Reference(98)),
      Rule(hollow, Review(72, "incomplete_draft"))>>

(* Services, tickets and documents that come by themselves.                 *)
NoticeRules(m, base) ==
    LET in == Incoming(m)
        ticket == in /\ SupportTicket(m)
        transaction == Has(m, "transactionRequest")
        document == "business_document_requires_review" IN
    <<Rule(in /\ Has(m, "deactivation") /\ ~Promotional(m) /\ ~Has(m, "promotionalText"), Action(94)),
      Rule(ticket /\ Has(m, "ticketDone"), Completed(97)),
      Rule(ticket /\ Has(m, "ticketScheduled"), Waiting(91)),
      Rule(in /\ Has(m, "renewed"), Completed(96)),
      Rule(in /\ Has(m, "taxReview") /\ Has(m, "invoiceFolder"), Review(89, document)),
      Rule(in /\ Has(m, "invoiceReview"), Review(88, document)),
      Rule(in /\ Has(m, "cardContract"), Review(86, document)),
      Rule(in /\ Has(m, "fileOnly"), Reference(92)),
      Rule(in /\ Has(m, "lowValue"), Reference(97)),
      Rule(Has(m, "automaticDone") /\ ~transaction
             /\ base.state \notin {"action_required", "decision_required"}, Completed(98)),
      Rule(Has(m, "securityCode") /\ ~transaction, Review(90, "security_verification_alert")),
      Rule({"documentNotice", "businessDocument"} \subseteq m /\ ~transaction, Review(88, document)),
      Rule(HasAny(m, {"automaticNotice", "invoiceNotice", "documentNotice", "noReplySender"})
             /\ ~transaction, Reference(98)),
      Rule(ticket /\ Has(m, "ticketInformation") /\ ~Invited(m), Reference(90))>>

(* People.                                                                  *)
PeopleRules(m, base) ==
    LET in == Incoming(m)
        open == base.state = "review_required"
        delivered == Has(m, "delivered")
        asked == Requested(m) \/ HasAny(m, {"transactionRequest", "reviewPlease", "queuedRequest"}) IN
    <<Rule(in /\ Has(m, "inquiry"), Action(94)),
      Rule(in /\ Has(m, "inlineAnswer"), Action(90)),
      Rule(in /\ open /\ Has(m, "textUpdated"), Reference(88)),
      Rule(Has(m, "forwarded") /\ NoText(m) /\ open, Reference(90)),
      Rule(DraftLike(m) /\ asked /\ ~Has(m, "greeting"), Waiting(90)),
      Rule(Outgoing(m) /\ delivered /\ ~Invited(m) /\ ~Has(m, "reviewPlease"), Completed(92)),
      Rule(Outgoing(m) /\ Has(m, "answeredBelow") /\ ~Invited(m), Completed(92)),
      Rule(Outgoing(m) /\ base.state \in {"action_required", "decision_required"}, Waiting(96)),
      Rule(Outgoing(m) /\ open /\ Has(m, "greeting"), Review(72, "incomplete_outgoing_message")),
      Rule(Outgoing(m) /\ open /\ (delivered \/ HasAny(m, {"actionObject", "amount", "schedule"}))
             /\ ~Has(m, "boilerplate"), Waiting(82)),
      Rule(in /\ open /\ delivered /\ Has(m, "reviewPlease"), Action(91)),
      Rule(in /\ open /\ delivered /\ Has(m, "operationDone"), Completed(94)),
      Rule(in /\ open /\ delivered /\ Has(m, "businessDocument"),
           Review(78, "business_document_requires_review")),
      Rule(in /\ open /\ delivered /\ Has(m, "information"), Reference(90)),
      Rule(in /\ open /\ delivered, Reference(78))>>

adjustedStateForMessage(m, base) ==
    FirstOf(LifecycleRules(m) \o NoticeRules(m, base) \o PeopleRules(m, base) \o <<Rule(TRUE, base)>>)

------------------------------------------------------------------------------
(* Who is to act, how soon, on which project.                               *)
Actor(who, confidence) == [who |-> who, confidence |-> confidence]

WaitingFor(m) == FirstOf(
    <<Rule(DraftLike(m) /\ (Invited(m) \/ Has(m, "queuedRequest")), Actor("external_party", 90)),
      Rule(Has(m, "ticketScheduled"), Actor("external_party", 91)),
      Rule(Outgoing(m), Actor("external_party", 96)),
      Rule(Has(m, "externalNamed"), Actor("external_party", 92)),
      Rule(Has(m, "internalNamed"), Actor("internal_team", 90)),
      Rule(Has(m, "commitment"), Actor("external_party", 88)),
      Rule(TRUE, Actor("unknown", 45))>>)

actorAndEvidence(m, state) == FirstOf(
    <<Rule(state \in {"reference", "completed"}, Actor("none", 98)),
      Rule(Has(m, "sharedWork"), Actor("shared", 82)),
      Rule(state = "decision_required", Actor("me", 93)),
      Rule(Has(m, "ownerNamed"), Actor("internal_team", 82)),
      Rule(state = "waiting", WaitingFor(m)),
      Rule(state = "action_required" /\ Outgoing(m), Actor("external_party", 86)),
      Rule(state = "action_required" /\ Has(m, "internalNamed") /\ ~Has(m, "externalNamed"),
           Actor("internal_team", 82)),
      Rule(state = "action_required", Actor("me", 85)),
      Rule(TRUE, Actor("unknown", 35))>>)

LowReference(m) ==
    LET record == Has(m, "recordDetails") IN
    \/ HasAny(m, {"promotional", "promotionalText", "invoiceNotice"}) /\ ~record
    \/ Has(m, "lowValue") /\ (~record \/ Has(m, "invoiceFolder"))
    \/ LifecycleFolder(m) /\ (~DraftLike(m) \/ Has(m, "aged"))
    \/ HasAny(m, {"fileOnly", "accountCode", "taxOffice"})
    \/ Has(m, "documentNotice") /\ ~Has(m, "businessDocument")
    \/ (DraftLike(m) \/ Outgoing(m)) /\ GreetingOnly(m)

priorityAndEvidence(m, state, due) ==
    LET urgent == Has(m, "urgent")
        soon(days) == urgent \/ due.days \in 0..days
        low == IF state = "completed" THEN HasAny(m, {"operationDone", "signedByRobot"})
               ELSE LowReference(m) IN
    FirstOf(<<Rule(state \in {"completed", "reference"}, IF low THEN "low" ELSE "normal"),
              Rule({"urgent", "incident"} \subseteq m, "critical"),
              Rule(state = "waiting", IF soon(1) THEN "high" ELSE "normal"),
              Rule(state = "review_required",
                   IF urgent \/ Has(m, "securityCode") THEN "high" ELSE "normal"),
              Rule(TRUE, IF soon(2) \/ Has(m, "remoteSupport") THEN "high" ELSE "normal")>>)

supportingSignals(m, due) ==
    (m \cap {"amount", "quotation", "schedule", "approval", "incident"})
    \cup {s \in {"deadline"} : due.precision # "none"}
    \cup {s \in {"attachment"} : HasAny(m, {"attached", "mentionsAttachment", "promisesAttachment"})}
    \cup {s \in {"attachmentMissing"} : Has(m, "promisesAttachment") /\ ~Has(m, "attached")}

(* One active project confirms, several need a look.                        *)
resolveProject(m, n) ==
    CASE n = 1 -> "confirmed" [] n > 1 -> "review_required"
      [] OTHER -> IF Has(m, "projectPhrase") THEN "candidate" ELSE "unassigned"

ProjectReasons == {"multiple_project_matches", "project_conflict_requires_review"}

projectReasons(project, state) ==
    {r \in ProjectReasons : project = "review_required"
        /\ (r = "multiple_project_matches" \/ state # "review_required")}

------------------------------------------------------------------------------
(* The whole of it: the event decides, or else the text does.               *)
automaticDirective(m) == Has(m, "systemNotice") /\ Has(m, "sendToday")

SelectedState(m, base, frame) ==
    LET kept == LifecycleFolder(m) \/ DraftLike(m)
        event == frame.decision IN
    CASE automaticDirective(m) -> Action(96)
      [] ~automaticDirective(m) /\ ~kept /\ event # NoDecision ->
            Verdict(event.decision.state, event.confidence,
                    IF event.decision.state = "review_required" THEN {event.type} ELSE {})
      [] OTHER -> adjustedStateForMessage(m, base)

EventDecides(m, frame) ==
    ~automaticDirective(m) /\ ~LifecycleFolder(m) /\ ~DraftLike(m) /\ frame.decision # NoDecision

ActorBy(m, frame, chosen) ==
    IF EventDecides(m, frame) /\ frame.decision.decision.actor # "unset"
    THEN Actor(frame.decision.decision.actor, chosen.confidence)
    ELSE actorAndEvidence(m, chosen.state)
PriorityBy(m, frame, chosen, due) ==
    IF EventDecides(m, frame) /\ EventPriority(frame) # "unset" THEN EventPriority(frame)
    ELSE priorityAndEvidence(m, chosen.state, due)

NothingAsked(state) == state \in {"reference", "completed"}
DueBy(m, state) == IF NothingAsked(state) THEN NoDue ELSE extractDue(m, Came)

(* The verdict, with what it keeps of the events.                           *)
VerdictOn(m, frame, chosen, actor, due, project) ==
    LET state == IF ~NothingAsked(chosen.state) /\ actor.who = "unknown" THEN "review_required" ELSE chosen.state
    IN [state |-> state,
        actor |-> IF NothingAsked(state) THEN "none" ELSE actor.who,
        priority |-> PriorityBy(m, frame, chosen, due),
        due |-> due,
        project |-> project,
        signals |-> supportingSignals(m, due),
        sure |-> [state |-> chosen.confidence, actor |-> actor.confidence],
        reasons |-> chosen.reasons \cup projectReasons(project, chosen.state)
                    \cup {r \in {"unknown_next_actor"} : actor.who = "unknown"}
                    \cup {r \in {"ambiguous_due"} : due.precision = "ambiguous"},
        review |-> IF "review_required" \in {state, project} THEN "review_required" ELSE "auto",
        quotesDocument |-> Has(m, "documentQuoted"),
        conflicts |-> frame.conflicts,
        source |-> "rules"]

VerdictFor(m, n, frame, chosen) ==
    VerdictOn(m, frame, chosen, ActorBy(m, frame, chosen), DueBy(m, chosen.state), resolveProject(m, n))
classifyMessage(m, n, frame) == VerdictFor(m, n, frame, SelectedState(m, baseState(m), frame))

------------------------------------------------------------------------------
(* The lane.  `seen` is what the caller hands over of the mail and of its   *)
(* events beside the verdict.                                               *)
NothingSeen == [conflicts |-> {}, active |-> FALSE, open |-> FALSE, draft |-> FALSE, document |-> FALSE]
ConflictsSeen(c) == [NothingSeen EXCEPT !.conflicts = c.conflicts]

AllSeen ==
    LET State(e) == e.decision.state IN
    [conflicts |-> mailFrame.conflicts,
     active |-> \E e \in mailFrame.events : State(e) \in {"action_required", "decision_required", "waiting"},
     open |-> \E e \in mailFrame.events : State(e) = "review_required" \/ e.type = "empty_message_review",
     draft |-> DraftLike(mail) /\ ~LifecycleFolder(mail),
     document |-> Has(mail, "newDocument")]

baseLane(c) ==
    CASE c.state \in {"action_required", "decision_required"} -> "do_now"
      [] c.state = "waiting" -> "waiting"
      [] c.state = "review_required" -> "review"
      [] OTHER -> "archive"

ArchiveBlocked(c, seen) ==
    \/ c.sure.state < 90 \/ c.actor # "none"
    \/ seen.active \/ seen.open \/ seen.draft \/ seen.conflicts # {}
    \/ "quotation" \in c.signals /\ (seen.document \/ c.quotesDocument)
    \/ c.source # "user-corrected" /\ c.review = "review_required" /\ c.reasons # {}
    \/ c.signals \cap {"deadline", "schedule", "approval", "incident", "attachmentMissing"} # {}
    \/ c.due.precision # "none"

Unsettled(c, seen) == c.sure.state < 72 \/ c.sure.actor < 72 \/ seen.conflicts # {}

deriveOperationalClassification(c, seen) ==
    LET lane == baseLane(c) IN
    CASE lane = "archive" -> IF ArchiveBlocked(c, seen) THEN "review" ELSE "archive"
      [] lane = "do_now" -> IF c.actor = "unknown" \/ Unsettled(c, seen) THEN "review" ELSE "do_now"
      [] lane = "waiting" -> IF c.actor \notin {"external_party", "internal_team", "shared"}
                                \/ Unsettled(c, seen) THEN "review" ELSE "waiting"
      [] OTHER -> "review"

(* precisionRow: the lane is no column, it is derived from the row each     *)
(* time the row is read.                                                    *)
Shown == deriveOperationalClassification(saved, NothingSeen)

(* A verdict in the archive although an event of its mail asks for action:  *)
(* the risk actionable_event_present.                                       *)
Decided(c, seen) ==
    [lane |-> deriveOperationalClassification(c, seen),
     missed |-> baseLane(c) = "archive" /\ seen.active]

------------------------------------------------------------------------------
(* Who else decides.                                                        *)
Override(c, sets) == [f \in DOMAIN c |-> IF f \in DOMAIN sets THEN sets[f] ELSE c[f]]

applyPrecisionCorrection(c, sets) ==
    LET next == Override(c, sets) IN
    [next EXCEPT !.actor = IF next.state \in {"completed", "reference"} THEN "none" ELSE @,
                 !.sure.state = IF "state" \in DOMAIN sets THEN 100 ELSE @,
                 !.sure.actor = IF "actor" \in DOMAIN sets THEN 100 ELSE @,
                 !.reasons = @ \cup {"user-corrected"},
                 !.review = "corrected", !.source = "user-corrected"]

applyLearnedPolicy(c, sets) ==
    [applyPrecisionCorrection(c, sets) EXCEPT !.review = "auto", !.source = "hybrid"]

mergeLlmClassification(c, answer) ==
    [c EXCEPT !.state = answer.state,
              !.actor = IF answer.state \in {"completed", "reference"} THEN "none" ELSE answer.actor,
              !.priority = answer.priority,
              !.sure = [state |-> answer.confidence, actor |-> answer.confidence],
              !.reasons = @ \cup {"llm-classification"},
              !.review = IF answer.state = "review_required" \/ answer.confidence < 55
                         THEN "review_required" ELSE "auto",
              !.source = "ai"]

labelLlmFailure(c) == [c EXCEPT !.reasons = @ \cup {"llm-failed"}]

------------------------------------------------------------------------------
(* savePrecisionClassification: the row has no column for the events.       *)
SaveVerdict(c, seen) ==
    /\ saved' = [c EXCEPT !.conflicts = {}]
    /\ decided' = Decided(c, seen)

(* The ruling in force is put on top of a verdict.                          *)
SaveUnder(r, c, seen) ==
    CASE r.by = "person" -> SaveVerdict(applyPrecisionCorrection(c, r.sets), ConflictsSeen(c))
      [] r.by = "policy" -> SaveVerdict(applyLearnedPolicy(c, r.sets), ConflictsSeen(c))
      [] OTHER -> SaveVerdict(c, seen)

ByRules(n) == classifyMessage(mail, n, mailFrame)

(* evaluateOne: a model's answer is kept in place of what the rules say.    *)
Evaluate(r, n) ==
    IF saved.source = "ai" THEN SaveUnder(r, saved, NothingSeen)
    ELSE SaveUnder(r, ByRules(n), AllSeen)

PolicyInForce == IF ruling.by = "policy" THEN ruling ELSE NoRuling

------------------------------------------------------------------------------
NoRow == [source |-> "none"]
Stored == saved # NoRow

RulesInit ==
    /\ mail \in RuledMails
    /\ mailFrame = MailEventFrame(mail, baseState(mail).state)
    /\ matches \in 0..2
    /\ ruling = NoRuling
    /\ saved = NoRow
    /\ decided = [lane |-> "none", missed |-> FALSE]

classifyStored ==
    /\ Evaluate(ruling, matches)
    /\ UNCHANGED <<mail, mailFrame, matches, ruling>>

(* Another project is registered, and every mail classified again: what a   *)
(* model said of the mail stays as it is, its project too.                  *)
createProject ==
    /\ matches < 2
    /\ matches' = matches + 1
    /\ Evaluate(ruling, matches')
    /\ UNCHANGED <<mail, mailFrame, ruling>>

correct(sets) ==
    /\ ruling' = [by |-> "person", sets |-> sets]
    /\ Evaluate(ruling', matches)
    /\ UNCHANGED <<mail, mailFrame, matches>>

(* A person corrected a mail like this one.                                 *)
applyPolicyToSimilar(sets) ==
    /\ ruling.by # "person"
    /\ ruling' = [by |-> "policy", sets |-> sets]
    /\ Evaluate(ruling', matches)
    /\ UNCHANGED <<mail, mailFrame, matches>>

acceptLlmObservations(answer) ==
    /\ ruling.by # "person"
    /\ LET merged == mergeLlmClassification(ByRules(matches), answer)
       IN  SaveUnder(PolicyInForce, merged, ConflictsSeen(merged))
    /\ UNCHANGED <<mail, mailFrame, matches, ruling>>

(* The person's word is not put back on top.                                *)
recordLlmFailures ==
    /\ SaveUnder(PolicyInForce, labelLlmFailure(ByRules(matches)), AllSeen)
    /\ UNCHANGED <<mail, mailFrame, matches, ruling>>

BadReviewAfter(project) == saved.review
ReviewAfter(project) ==
    IF project = "review_required" /\ saved.review # "corrected" THEN "review_required"
    ELSE saved.review

(* Projects are imported, and the row gets the project its mail now names.  *)
(* A corrected row without a correction beside it is left alone.            *)
reclassifyProjects(n) ==
    LET orphan == saved.source \in {"user-corrected", "hybrid"} /\ ruling = NoRuling
        found == IF orphan THEN saved.project
                 ELSE IF "project" \in DOMAIN ruling.sets THEN ruling.sets.project
                 ELSE resolveProject(mail, n)
        reasons == IF orphan THEN saved.reasons
                   ELSE (saved.reasons \ ProjectReasons) \cup projectReasons(found, saved.state)
    IN /\ matches' = n
       /\ saved' = IF Stored
                   THEN [saved EXCEPT !.project = found, !.review = ReviewAfter(found), !.reasons = reasons]
                   ELSE saved
       /\ UNCHANGED <<mail, mailFrame, ruling, decided>>

RulesNext ==
    \/ classifyStored
    \/ createProject
    \/ \E sets \in Corrections : correct(sets) \/ applyPolicyToSimilar(sets)
    \/ \E answer \in Answers : acceptLlmObservations(answer)
    \/ recordLlmFailures
    \/ \E n \in 0..2 : reclassifyProjects(n)

RulesSpec == RulesInit /\ [][RulesNext]_rulesVars

------------------------------------------------------------------------------
RulesTypeOK ==
    /\ matches \in 0..2
    /\ ruling.by \in {"nobody", "person", "policy"}
    /\ Stored =>
          /\ saved.state \in States
          /\ saved.actor \in Doers
          /\ saved.priority \in Urgencies
          /\ saved.project \in Resolutions
          /\ saved.source \in {"rules", "ai", "hybrid", "user-corrected"}
          /\ saved.review \in {"auto", "review_required", "corrected"}
          /\ Shown \in {"do_now", "waiting", "review", "archive"}

OutOfUse == LifecycleFolder(mail) \/ DraftLike(mail)

(* No passive event outranks one that asks for something: the rules never   *)
(* take a mail for done or for reading while an event of it says that       *)
(* somebody has to act (the weights and bonuses of eventPolicyScore).  Only *)
(* the urgent sentence is no event by itself: it decides nothing.           *)
EventsAreKept ==
    saved.source = "rules" /\ decided.missed => OutOfUse \/ Has(mail, "currentUrgency")

(* The event that decides does not depend on the order in which the code    *)
(* looks for events: reconcileEvents finds one that is ahead of the others. *)
OneEventLeads ==
    saved.source = "rules" /\ mailFrame.events # {} => Cardinality(mailFrame.leaders) = 1

(* A mail the rules find on several active projects is not put away, be     *)
(* the projects there when it is classified or imported afterwards.         *)
ConflictIsReviewed ==
    saved.source = "rules" /\ saved.project = "review_required" => Shown # "archive"

(* README.md:66 "mail that is uncertain or in conflict is not archived      *)
(* automatically": what the rules decided to leave for review is not shown  *)
(* in the archive.                                                          *)
UncertainIsNotArchived ==
    saved.source = "rules" /\ decided.lane = "review" => Shown # "archive"
===============================================================================
