----------------------------- MODULE MCMailSearch -----------------------------
(***************************************************************************)
(* Questions and mailboxes for TLC: three mails of one matter or of        *)
(* several, one of them advertising or thrown away, and questions with     *)
(* each filter, each intent, each anchor, and words that only some of the  *)
(* mails have, asked plainly or for the latest one or two.                 *)
(***************************************************************************)
EXTENDS MailSearch

Numbers == {"order7"}
PeriodWords == {"two weeks"}
Business == {"quotation", "contract"}
Polite == {"please", "show"}
TwoWeeks == -7..7

SomeMail == [subject |-> {}, preview |-> {}, body |-> {}, evidence |-> {}, current |-> {}, sender |-> {},
             from |-> "ann", state |-> "action_required", actor |-> "me", priority |-> "normal", signals |-> {},
             due |-> NoDueDate, project |-> "", candidate |-> "", promotional |-> FALSE, review |-> "automatic",
             thrownAway |-> FALSE, taxFolder |-> FALSE, deleted |-> FALSE, received |-> 1, relevance |-> 1]

(* a mail that says these terms in its subject and text                     *)
Saying(terms) ==
    [SomeMail EXCEPT !.subject = terms, !.preview = terms, !.body = terms, !.current = terms]
Quoting(terms) == [Saying(terms) EXCEPT !.current = {}]
InTheBody(terms) == [SomeMail EXCEPT !.body = terms, !.current = terms]

Placed(m, place) == [m EXCEPT !.received = place, !.relevance = 4 - place]
Box(first, second, third) == {Placed(first, 1), Placed(second, 2), Placed(third, 3)}

SupportTerms == {"completed", "support", "sangfor", "server"}
Finished(m) == [m EXCEPT !.state = "completed", !.actor = "external_party", !.due = 1]
MailboxesForTlc == {
    {},
    Box(Saying(SupportTerms), Finished(Saying(SupportTerms)), Quoting(SupportTerms)),
    Box(Finished(Saying(SupportTerms)), Finished(Saying(SupportTerms)), Finished(Quoting(SupportTerms))),
    Box(Finished(Saying(SupportTerms)), Finished(Quoting(SupportTerms)), Finished(Quoting(SupportTerms))),
    Box(Saying({"server", "order7"}), Saying({"server", "backup"}),
        [Saying({"server", "backup", "order7"}) EXCEPT !.promotional = TRUE]),
    Box([Saying({"server", "backup"}) EXCEPT !.promotional = TRUE, !.review = "corrected"],
        [Saying({"server", "order7"}) EXCEPT !.from = "bob", !.sender = {"order7"}],
        [Saying({"server", "order7"}) EXCEPT !.thrownAway = TRUE]),
    Box([Saying({"server"}) EXCEPT !.due = 0, !.project = "p"],
        [Saying({"server"}) EXCEPT !.due = -1, !.candidate = "p"],
        [Saying({"backup"}) EXCEPT !.due = 1, !.deleted = TRUE]),
    Box(Saying({"security", "remote", "server"}), InTheBody({"outage", "security", "remote", "server", "backup"}),
        [Saying({"outage", "remote", "backup"}) EXCEPT !.subject = {"remote"}, !.preview = {"remote"}]),
    Box([Saying({"security"}) EXCEPT !.signals = {"incident_security"}], InTheBody({"security", "outage"}),
        [Saying({"outage", "vpn"}) EXCEPT !.evidence = {"outage"}, !.taxFolder = FALSE]),
    Box([Saying({"hci", "license", "incident"}) EXCEPT !.state = "reference"],
        Saying({"hci", "license", "incident"}),
        [InTheBody({"hci", "license"}) EXCEPT !.signals = {"incident_security"}]),
    Box([Saying({"quotation", "contract", "maintenance"}) EXCEPT
            !.state = "review_required", !.review = "review_required", !.signals = {"quotation_contract"}],
        [Saying({"quotation", "taxInvoice", "humanReview"}) EXCEPT
            !.state = "review_required", !.review = "review_required", !.signals = {"quotation_contract"}],
        Saying({"contract", "taxInvoice", "automated"})),
    Box([Saying({"service", "confluence", "deactivation"}) EXCEPT !.priority = "high"],
        Saying({"service", "deactivation", "sharedAsset", "verification"}), Saying({"sangfor", "iag"})),
    Box([Saying({"license", "patch", "ticket"}) EXCEPT !.state = "waiting", !.actor = "external_party"],
        Finished(Saying({"patch", "ticket", "completed", "followUp"})),
        Finished(Saying({"quotation", "purchaseOrder", "progress"})))}

Plain == [cues |-> {}, topics |-> {}, words |-> {}, from |-> NoSender, project |-> "", day |-> NoDueDate,
          invalidDay |-> FALSE, limit |-> NoHint, latest |-> FALSE, long |-> FALSE, alone |-> "no"]
Wording(words) == [Plain EXCEPT !.words = words]
About(topics, words) == [Plain EXCEPT !.topics = topics, !.words = words]

PlainQuestions ==
    {Wording(words) : words \in {{}, {"server"}, {"server", "backup"}, {"server", "backup", "order7"},
                                 {"server", "printer"}, {"server", "printer", "order7"}, {"server", "two weeks"},
                                 {"quotation", "contract"}, {"please", "show", "server"}, {"please", "show"}}}
    \cup {[About(intent.asks, {"server"}) EXCEPT !.cues = intent.states \cup intent.actors] :
            intent \in {MeaningIntents[i] : i \in DOMAIN MeaningIntents}}
    \cup {[About(topics, {}) EXCEPT !.cues = topics \cap WorkStates] :
            topics \in {{"completed", "followUp"}, {"completed", "support"},
                        {"quotation", "purchaseOrder", "progress"},
                        {"taxInvoice", "humanReview"}, {"sharedAsset", "verification"}}}
    \cup {[About(topics, {"server", "backup"}) EXCEPT !.cues = {"incident_security"}] :
            topics \in {{"security", "remote"}, {"security", "outage", "remote", "conjunction"}}}
    \cup {[Plain EXCEPT !.cues = {"incident_security"}, !.alone = word] : word \in {"security", "outage"}}
    \cup {[Wording({"server"}) EXCEPT !.cues = {phrase}] :
            phrase \in {"overdue", "today", "tomorrow", "this_week", "has_due", "no_due", "high", "external_party",
                        "review_required", "quotation_contract", "compoundCompletion", "action_required"}}
    \cup {[Plain EXCEPT !.cues = {"review_required"}, !.topics = {"contract"}],
          [Wording({"server", "printer"}) EXCEPT !.from = {"bob"}],
          [Wording({"server"}) EXCEPT !.from = {"ann", "bob"}],
          [Wording({"server", "printer"}) EXCEPT !.day = 0], [Wording({"server"}) EXCEPT !.invalidDay = TRUE],
          [Wording({"server"}) EXCEPT !.project = "p"], [Plain EXCEPT !.day = 0]}

QuestionsForTlc ==
    PlainQuestions
    \cup {[q EXCEPT !.limit = 1, !.latest = TRUE] : q \in PlainQuestions}
    \cup {[q EXCEPT !.limit = limit, !.latest = latest, !.long = long] :
            q \in {Wording({"server"}), Wording({"server", "printer"}), Wording({"server", "order7"}), Plain},
            limit \in {-1, 2, 9}, latest \in BOOLEAN, long \in BOOLEAN}
===============================================================================
