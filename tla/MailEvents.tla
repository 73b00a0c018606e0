------------------------------ MODULE MailEvents ------------------------------
(***************************************************************************)
(* The events a mail is about, and the one that decides what it asks for   *)
(* (mail-event-extractor.js).  A mail is the set of the facts its patterns *)
(* find in it: a fact stands for the clause a pattern matches outside of   *)
(* legal boilerplate, or for a flag of the message.  Ranks, weights and    *)
(* confidences are the code's, the latter in percent.                      *)
(***************************************************************************)
EXTENDS Integers, FiniteSets

Has(m, f) == f \in m
HasAny(m, fs) == m \cap fs # {}

DraftLike(m) == Has(m, "draft")
Outgoing(m) == Has(m, "outgoing") /\ ~DraftLike(m)
Incoming(m) == ~Outgoing(m)
LifecycleFolder(m) == HasAny(m, {"deleted", "junk"})
Automated(m) == HasAny(m, {"promotional", "automaticSender"})
Empty(m) == {"noSubject", "noBody"} \subseteq m

(* What an event says of its mail. *)
Decision(state, actor, priority) == [state |-> state, actor |-> actor, priority |-> priority]
Mine(priority) == Decision("action_required", "me", priority)
Theirs(priority) == Decision("waiting", "external_party", priority)
Noted(priority) == Decision("reference", "none", priority)
Settled(priority) == Decision("completed", "none", priority)
Unclear == Decision("review_required", "unknown", "normal")

Event(when, type, rank, confidence, decision) ==
    [when |-> when, type |-> type, rank |-> rank, confidence |-> confidence, decision |-> decision]

------------------------------------------------------------------------------
(* The families, and what they weigh. *)
IncidentEvents == {"active_component_incident", "active_incident_action"}
UserActionEvents ==
    {"delivery_failure_action", "procurement_deadline_action", "document_package_urgent_action",
     "support_handoff_action", "support_remote_availability_action",
     "incoming_collaboration_invite_action", "support_incoming_request_action",
     "support_close_approval", "concrete_question_action", "inbound_followup_action",
     "service_continuity_action", "financial_limit_risk_action", "subscription_followup_action",
     "shared_access_verification"}
CommitmentEvents ==
    {"support_acknowledged_waiting", "support_pending_response", "support_remote_availability",
     "support_provider_request_waiting", "support_schedule_confirmed",
     "outgoing_delivery_waiting_for_recipient", "outgoing_commercial_quote_delivery_waiting",
     "outgoing_request_waiting"}
CompletionEvents ==
    {"support_resolved", "support_artifact_delivered", "inbound_acknowledgement_completed",
     "inbound_substantive_fulfillment_completed", "inbound_fulfillment_completed",
     "business_process_completed", "outgoing_delivery_completed", "outgoing_response_completed",
     "outgoing_substantive_response_completed"}
DocumentEvents == {"inbound_business_document_review", "received_tax_invoice_review"}
AmbiguousEvents == {"empty_message_review", "progress_update_review"}
InformationalEvents == {"access_information_reference", "informational_asset_reference"}
UrgencyEvents == {"current_action_urgency"}

eventFamily(t) ==
    CASE t \in IncidentEvents -> "incident_security"
      [] t \in UserActionEvents -> "user_action"
      [] t \in CommitmentEvents -> "external_commitment"
      [] t \in CompletionEvents -> "completion"
      [] t \in DocumentEvents -> "business_document"
      [] t \in AmbiguousEvents -> "ambiguous"
      [] t \in InformationalEvents -> "informational"
      [] t \in UrgencyEvents -> "urgency"
      [] OTHER -> "automated_reference"

Weight == [incident_security |-> 9000, user_action |-> 8000, external_commitment |-> 7000,
           completion |-> 6000, business_document |-> 5000, ambiguous |-> 4500,
           informational |-> 4000, automated_reference |-> 3500, urgency |-> 0]

Bonus(t) ==
    CASE t = "support_close_approval" -> 800
      [] t \in {"support_incoming_request_action"} -> 500
      [] t \in {"support_handoff_action", "outgoing_request_waiting"} -> 400
      [] t = "outgoing_delivery_waiting_for_recipient" -> 450
      [] t = "received_tax_invoice_review" -> 350
      [] t = "empty_message_review" -> 300
      [] t = "access_information_reference" -> 2800
      [] t = "informational_asset_reference" -> 2600
      [] t \in {"automated_invoice_reference", "archived_tax_invoice_reference",
                "passive_payment_reference"} -> 2600 + 250
      [] t \in {"marketing_reference", "editorial_guide_reference"} -> 2500 + 250
      [] t = "bulk_subject_notice_reference" -> 2400
      [] t \in {"lifecycle_reference", "automated_process_reference"} -> 250
      [] OTHER -> 0

BadEventPolicyScore(m, e) == e.rank + Bonus(e.type)
eventPolicyScore(m, e) ==
    Weight[eventFamily(e.type)] + e.rank + Bonus(e.type)
        + (IF e.type = "lifecycle_reference" /\ LifecycleFolder(m) THEN 20000 ELSE 0)

------------------------------------------------------------------------------
(* The events, in the order the code looks for them. *)
GeneralEvents(m) ==
    {Event(Empty(m) /\ Has(m, "noSender"), "empty_message_reference", 1200, 99, Noted("low")),
     Event(Empty(m) /\ ~Has(m, "noSender") /\ ~LifecycleFolder(m),
           "empty_message_review", 1190, 98, Unclear),
     Event(Incoming(m) /\ Has(m, "deliveryFailure"), "delivery_failure_action", 1180, 99, Mine("high")),
     Event(Incoming(m) /\ Has(m, "procurementDeadline"),
           "procurement_deadline_action", 1170, 98, Mine("high")),
     Event(Incoming(m) /\ Has(m, "componentIncident"),
           "active_component_incident", 1160, 98, Mine("critical")),
     Event(Incoming(m) /\ Has(m, "documentPackage"),
           "document_package_urgent_action", 1150, 96, Mine("high")),
     Event(Incoming(m) /\ Has(m, "editorialGuide"), "editorial_guide_reference", 1130, 98, Noted("low")),
     Event(LifecycleFolder(m) /\ ~DraftLike(m), "lifecycle_reference", 1000, 99, Noted("low")),
     Event(Incoming(m) /\ Has(m, "activeIncident"), "active_incident_action",
           IF Has(m, "criticalIncident") THEN 1140 ELSE 945, 98,
           Mine(IF Has(m, "criticalIncident") THEN "critical" ELSE "high"))}

SupportEvents(m) ==
    LET handoff == Has(m, "handoff")
        urgent == HasAny(m, {"currentUrgency", "licenseExpired"})
        settled == HasAny(m, {"closeApproval", "resolved"}) IN
    IF ~Has(m, "supportContext") THEN {} ELSE
    {Event(handoff, "support_handoff_action", 985, 98, Mine("high")),
     Event(Has(m, "acknowledged") /\ ~handoff, "support_acknowledged_waiting", 980, 98, Theirs("normal")),
     Event(Has(m, "pendingResponse") /\ ~handoff, "support_pending_response", 979, 98, Theirs("normal")),
     Event(Has(m, "remoteAvailable") /\ ~handoff, "support_remote_availability", 978, 96, Theirs("normal")),
     Event(Incoming(m) /\ Has(m, "remoteAsked") /\ ~handoff /\ ~HasAny(m, {"resolved", "ticketClosed"}),
           "support_remote_availability_action", 986, 97, Mine("high")),
     Event(Has(m, "providerRequest") /\ Has(m, "supportRecipient") /\ ~handoff,
           "support_provider_request_waiting", 975, 97, Theirs(IF urgent THEN "high" ELSE "normal")),
     Event(Incoming(m) /\ Has(m, "providerRequest") /\ ~Has(m, "supportRecipient") /\ ~handoff,
           "support_incoming_request_action", 975, 97, Mine(IF urgent THEN "high" ELSE "unset")),
     Event(Has(m, "closeApproval"), "support_close_approval", 930, 98, Mine("normal")),
     Event(Has(m, "resolved") /\ ~Has(m, "closeApproval"), "support_resolved", 920, 98, Settled("normal")),
     Event(Has(m, "artifact") /\ ~settled, "support_artifact_delivered", 910, 94, Settled("normal")),
     Event(Has(m, "supportSchedule") /\ ~settled, "support_schedule_confirmed", 900, 94, Theirs("normal"))}

(* What another party asks, answers or sends us. *)
InboundEvents(m, base) ==
    LET support == Has(m, "supportContext")
        progress == Has(m, "progressUpdate")
        question == Has(m, "concreteQuestion")
        followup == Has(m, "followup") /\ ~support /\ ~progress
                    /\ base \notin {"completed", "decision_required"}
        fulfilled == Has(m, "fulfillment")
        document == fulfilled /\ Has(m, "documentDelivery")
        substantive == document /\ Has(m, "substantiveDetail")
        promised == base = "reference" /\ ~Has(m, "attached") /\ Has(m, "mentionsAttachment")
        passive == ~support /\ ~progress /\ ~Has(m, "followup") /\ ~question IN
    {Event(Has(m, "collaboration") /\ ~Automated(m), "incoming_collaboration_invite_action", 973, 96, Mine("normal")),
     Event(progress /\ ~support, "progress_update_review", 970, 96, Unclear),
     Event(question /\ ~Automated(m) /\ ~progress, "concrete_question_action", 974, 96, Mine("normal")),
     Event(Has(m, "accessInformation") /\ ~question /\ ~Has(m, "sharedAccess"),
           "access_information_reference", 969, 95, Noted("normal")),
     Event(followup, "inbound_followup_action", 976, 96, Mine("unset")),
     Event(Has(m, "informationalAsset") /\ ~Has(m, "followup") /\ ~question,
           "informational_asset_reference", 968, 96, Noted("normal")),
     Event(Has(m, "acknowledgedDone") /\ passive, "inbound_acknowledgement_completed", 979, 97, Settled("normal")),
     Event(substantive /\ passive, "inbound_substantive_fulfillment_completed", 971, 96, Settled("normal")),
     Event(document /\ ~substantive /\ passive /\ base # "action_required" /\ ~promised,
           "inbound_business_document_review", 969, 96, Unclear),
     Event((fulfilled \/ Has(m, "acknowledgedDone")) /\ ~document /\ passive
             /\ base # "action_required" /\ ~promised,
           "inbound_fulfillment_completed", 960, 95, Settled("normal"))}

(* Services, accounts and invoices. *)
NoticeEvents(m) ==
    LET tax == Has(m, "taxInvoice") /\ Has(m, "invoiceFolder") IN
    {Event(Has(m, "passivePayment"), "passive_payment_reference", 958, 98, Noted("low")),
     Event(Has(m, "passiveCompletion") /\ Automated(m), "automated_process_reference", 957, 97, Noted("low")),
     Event(Has(m, "serviceContinuity") /\ ~Has(m, "unsubscribe"), "service_continuity_action", 890, 96, Mine("normal")),
     Event(Has(m, "cardLimit"), "financial_limit_risk_action", 885, 96, Mine("normal")),
     Event(Has(m, "subscriptionFollowup"), "subscription_followup_action", 880, 94, Mine("normal")),
     Event(Has(m, "sharedAccess"), "shared_access_verification", 977, 96, Mine("normal")),
     Event(Has(m, "processCompleted") /\ ~Has(m, "supportContext"), "business_process_completed", 970, 97, Settled("normal")),
     Event(Has(m, "invoiceReady") /\ (Automated(m) \/ Has(m, "invoiceFolder")),
           "automated_invoice_reference", 860, 97, Noted("low")),
     Event(tax /\ Has(m, "invoiceToUs"), "received_tax_invoice_review", 856, 94, Unclear),
     Event(tax /\ ~Has(m, "invoiceToUs"), "archived_tax_invoice_reference", 855, 97, Noted("low")),
     Event(Has(m, "bulkNotice"), "bulk_subject_notice_reference", 850, 92, Noted("low")),
     Event(Has(m, "passiveNotification") /\ Automated(m), "automated_notification_reference", 500, 90, Noted("low"))}

(* What we send: the first of these that applies. *)
OutgoingEvent(m) ==
    LET delivery == Has(m, "delivery")
        response == delivery /\ Has(m, "recipientResponse")
        asks == Has(m, "request")
        offer == Has(m, "conditionalOffer")
        quote == response /\ {"attached", "quote"} \subseteq m /\ ~offer
                 /\ ~HasAny(m, {"urgentSubject", "openCommitment"})
        awaited == response /\ ~Has(m, "courtesy") /\ ~offer
        answers == Has(m, "substantiveAnswer") /\ ~response /\ ~asks
        done == (delivery \/ Has(m, "pastAction"))
                /\ (~asks \/ Has(m, "courtesy") \/ offer) IN
    {Event(quote, "outgoing_commercial_quote_delivery_waiting", 845, 96, Theirs("normal")),
     Event(~quote /\ awaited, "outgoing_delivery_waiting_for_recipient", 840, 94, Theirs("normal")),
     Event(~quote /\ ~awaited /\ answers, "outgoing_substantive_response_completed", 835, 95, Settled("normal")),
     Event(~quote /\ ~awaited /\ ~answers /\ done,
           IF {"pastAction", "answered"} \subseteq m THEN "outgoing_response_completed"
           ELSE "outgoing_delivery_completed", 830, 92, Settled("unset")),
     Event(~quote /\ ~awaited /\ ~answers /\ ~done /\ asks,
           "outgoing_request_waiting", 820, 94, Theirs("unset"))}

UrgencyEvent(m, base) ==
    {Event(Has(m, "currentUrgency") /\ base \in {"action_required", "decision_required", "waiting"},
           "current_action_urgency", 100, 92,
           Decision(base, "unset", IF Has(m, "criticalIncident") THEN "critical" ELSE "high"))}

Candidates(m, base) ==
    {e \in GeneralEvents(m) \cup SupportEvents(m)
           \cup (IF Outgoing(m) THEN OutgoingEvent(m) ELSE InboundEvents(m, base) \cup NoticeEvents(m))
           \cup {Event(Has(m, "unsubscribe") /\ Automated(m), "marketing_reference", 895, 98, Noted("low"))}
           \cup UrgencyEvent(m, base) : e.when}

------------------------------------------------------------------------------
(* The event that counts, and those that say otherwise. *)
ConflictPairs ==
    {{"completion", "user_action"}, {"completion", "external_commitment"},
     {"business_document", "user_action"}, {"automated_reference", "user_action"},
     {"ambiguous", "user_action"}, {"ambiguous", "external_commitment"}}

BadAhead(m, e, f) == e.confidence > f.confidence
Ahead(m, e, f) ==
    LET s == eventPolicyScore(m, e)  t == eventPolicyScore(m, f) IN
    \/ s > t
    \/ s = t /\ e.confidence > f.confidence
    \/ s = t /\ e.confidence = f.confidence /\ e.rank > f.rank

PrimaryEvents(m, events) ==
    LET real == {e \in events : e.type \notin UrgencyEvents}
        pool == IF real # {} THEN real ELSE events IN
    {e \in pool : \A f \in pool : ~Ahead(m, f, e)}

shouldRecordStateConflict(m, primary, e) ==
    /\ e # primary
    /\ e.type \notin UrgencyEvents
    /\ e.decision.state # primary.decision.state
    /\ "lifecycle_reference" \notin {e.type, primary.type}
    /\ \/ {eventFamily(e.type), eventFamily(primary.type)} \in ConflictPairs
       \/ LET gap == eventPolicyScore(m, primary) - eventPolicyScore(m, e)
          IN  gap \in -180..180

NoDecision == Event(FALSE, "none", 0, 0, Unclear)

(* What decisionFromMailEventFrame makes of the frame; `events` and         *)
(* `conflicts` are what the frame keeps of the others, `leaders` the events *)
(* that none is ahead of.                                                   *)
FrameLedBy(m, events, leaders, primary) ==
    [decision |-> primary, events |-> events, leaders |-> leaders,
     conflicts |-> {e.type : e \in {f \in events : shouldRecordStateConflict(m, primary, f)}}]
FrameAmong(m, events, leaders) == FrameLedBy(m, events, leaders, CHOOSE e \in leaders : TRUE)

FrameOf(m, events) ==
    IF events = {} THEN [decision |-> NoDecision, events |-> {}, leaders |-> {}, conflicts |-> {}]
    ELSE FrameAmong(m, events, PrimaryEvents(m, events))

MailEventFrame(m, base) == FrameOf(m, Candidates(m, base))

(* An urgent sentence raises the priority of an event that asks the same.   *)
EventPriority(frame) ==
    LET urgent == {e \in frame.events : e.type \in UrgencyEvents
                      /\ e.decision.state = frame.decision.decision.state}
    IN  IF urgent # {} THEN (CHOOSE e \in urgent : TRUE).decision.priority
        ELSE frame.decision.decision.priority
===============================================================================
