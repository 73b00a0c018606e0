--------------------------- MODULE MCPrecisionRules ---------------------------
(***************************************************************************)
(* Mails, rulings and answers for TLC: every event in each of the contexts *)
(* that change what a fact means, every two events of a kind together,     *)
(* every rule of the text, and every event beside an urgent request.       *)
(***************************************************************************)
EXTENDS PrecisionRules

Contexts ==
  {{}, {"outgoing"}, {"draft"}, {"deleted"}, {"promotional"}, {"automaticSender"},
   {"invoiceFolder"}, {"supportContext"}, {"supportTicket"}, {"noBody", "shortSubject"}}

InboundFacts ==
  {"deliveryFailure", "procurementDeadline", "componentIncident", "documentPackage", "editorialGuide",
   "activeIncident", "collaboration", "progressUpdate", "concreteQuestion", "accessInformation",
   "sharedAccess", "followup", "informationalAsset", "acknowledgedDone", "fulfillment",
   "documentDelivery", "passivePayment", "passiveCompletion", "serviceContinuity", "cardLimit",
   "subscriptionFollowup", "processCompleted", "bulkNotice", "passiveNotification", "unsubscribe"}
SupportFacts ==
  {"handoff", "acknowledged", "pendingResponse", "remoteAvailable", "remoteAsked", "providerRequest",
   "supportRecipient", "closeApproval", "resolved", "artifact", "supportSchedule"}
OutboundFacts ==
  {"delivery", "recipientResponse", "request", "conditionalOffer", "quote", "courtesy",
   "substantiveAnswer", "pastAction"}
TextFacts ==
  {"requested", "directRequest", "inquiry", "decisionAsked", "contradicted", "waitingSaid",
   "completedSaid", "noAction", "commitment", "promotionalText", "deactivation", "ticketDone",
   "ticketScheduled", "renewed", "taxReview", "invoiceReview", "cardContract", "fileOnly", "lowValue",
   "automaticDone", "transactionRequest", "securityCode", "documentNotice", "automaticNotice",
   "ticketInformation", "inlineAnswer", "textUpdated", "delivered", "reviewPlease", "greeting",
   "quotation", "nextWeek", "soonest", "approval", "sharedWork", "internalNamed", "attached",
   "invoiceReady", "taxInvoice"}

IncomingMails == {{f, g} : f \in InboundFacts, g \in InboundFacts \cup {"completedSaid", "directRequest"}}

MailsForTlc ==
  IncomingMails
  \cup {c \cup {f} : c \in Contexts, f \in InboundFacts}
  \cup {{f} : f \in TextFacts}
  \cup {{"supportContext", f, g} : f \in SupportFacts, g \in SupportFacts}
  \cup {{"outgoing", f, g} : f \in OutboundFacts, g \in OutboundFacts}
  \cup {{"currentUrgency", "requested", f} : f \in InboundFacts}

(* a Friday in March; the dates in the mail are four days and no months ahead *)
InMarch == [weekday |-> 5, month |-> 3, named |-> 3, away |-> 4]

CorrectionsForTlc == {[state |-> "reference", actor |-> "none"], [project |-> "confirmed"]}
AnswersForTlc == {[state |-> "completed", actor |-> "me", priority |-> "low", confidence |-> 95]}
===============================================================================
