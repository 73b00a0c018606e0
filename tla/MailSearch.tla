------------------------------ MODULE MailSearch ------------------------------
(***************************************************************************)
(* How a question in everyday words finds mails: what its phrases ask for  *)
(* (parseIntelligentQuery), which stored mails answer it and in which      *)
(* order (intelligentSearch), which of them speak of the same matter       *)
(* (search-semantic-ranker.js), and the second, wider search when none     *)
(* does (PrecisionIntelligenceService.search).                             *)
(*                                                                         *)
(* Texts are sets of terms.  A term is a word, or the topic that one of    *)
(* the patterns for it finds.  Of a question, cues are the phrases that    *)
(* set a filter, topics the matters it is about, and words what is left    *)
(* once the phrases are taken out.  Days count from today.                 *)
(***************************************************************************)
EXTENDS DueDates, FiniteSets

CONSTANTS
    Mailboxes,      \* sets of mails with their verdicts
    Questions,      \* questions, see parsing below
    Identifiers,    \* words: numbers and codes of orders, tickets, invoices
    Periods,        \* words: "two weeks", a date nothing is due by
    DomainWords,    \* words: quotation, contract, outage and the like
    Scaffold,       \* words: "please", "tell me", "which"
    SinceMonday,    \* days of this week before today
    SearchDays,     \* the days mails are due
    PageLimit,      \* the limit the caller asks for
    MaxCandidates,  \* rows read for a question about the latest mails
    MaxWords        \* MAX_DECOMPOSED_SEARCH_TOKENS

(* Where a mail stands by its time and id tells it from every other.        *)
ASSUME SearchAssumption ==
    /\ PageLimit \in Nat /\ MaxCandidates \in Nat
    /\ \A q \in Questions : q.limit \in Int
    /\ \A mails \in Mailboxes :
          /\ IsFiniteSet(mails)
          /\ \A m \in mails : m.received \in Int /\ m.relevance \in Int /\ m.due \in Int
          /\ \A m, other \in mails : m.received = other.received => m = other

VARIABLES
    mailbox,        \* its mails
    answer          \* the latest question and what was found

searchVars == <<mailbox, answer>>

NoDueDate == 999        \* due_at is null
NoSender == {}
NoHint == 0         \* no result limit in the question; a bad one is -1

-------------------------------------------------------------------------------
(* The question. *)

DuePhrases == <<"overdue", "today", "tomorrow", "this_week", "has_due", "no_due">>
WorkStates == {"action_required", "waiting", "decision_required", "completed", "reference", "review_required"}
Actors == {"me", "internal_team", "external_party", "shared", "none", "unknown"}
Priorities == {"critical", "high", "normal", "low"}
Signals == {"deadline", "amount", "quotation_contract", "attachment", "attachment_missing", "schedule",
            "approval", "incident_security"}

(* An intent of several topics: what it asks for besides the phrases, the   *)
(* topics a mail must have, all but one where, and the topics that put it   *)
(* first when its subject has them.                                         *)
Intent(name, asks, states, actors, where, needs, lead) ==
    [name |-> name, asks |-> asks, states |-> states, actors |-> actors, where |-> where, needs |-> needs,
     lead |-> lead]
NoIntent == Intent("", {}, {}, {}, "strict", {}, {})
MeaningIntents == <<
    Intent("completed_sangfor_support", {"completed", "sangfor", "support"}, {"completed"}, {},
           "strict", {"sangfor", "support"}, {"sangfor", "support"}),
    Intent("completed_support_ticket", {"completed", "patch", "ticket"}, {"completed"}, {},
           "current", {"patch", "ticket"}, {"patch", "ticket"}),
    Intent("waiting_license_reply", {"waiting", "license", "reply"}, {"waiting"}, {"external_party"},
           "strict", {"license"}, {"license"}),
    Intent("tax_invoice_review", {"review", "taxInvoice"}, {"review_required"}, {},
           "headline", {"taxInvoice"}, {"taxInvoice"}),
    Intent("confluence_deactivation", {"confluence", "deactivation"}, {"action_required"}, {"me"},
           "strict", {"confluence", "deactivation"}, {"confluence"}),
    Intent("service_deactivation", {"service", "deactivation"}, {"action_required"}, {"me"},
           "strict", {"service", "deactivation"}, {"confluence"}),
    Intent("shared_access_verification", {"sharedAsset", "verification"}, {"action_required"}, {"me"},
           "strict", {"sharedAsset", "verification"}, {"sharedAsset"}),
    Intent("sangfor_iag", {"sangfor", "iag"}, {}, {}, "oneZone", {"sangfor", "iag"}, {"sangfor", "iag"}),
    Intent("hci_license_incident", {"hci", "license", "incident"}, {}, {},
           "current", {"hci", "license", "incident"}, {"hci"})>>

semanticIntentFor(q) ==
    LET meant == SelectSeq(MeaningIntents, LAMBDA i : i.asks \subseteq q.topics)
    IN IF meant = <<>> THEN NoIntent ELSE Head(meant)

\* "completed" in a compound such as contract-completed is no state.
WorkStatesOf(q) ==
    LET intent == semanticIntentFor(q)
        said == (q.cues \cap WorkStates) \ (IF "compoundCompletion" \in q.cues THEN {"completed"} ELSE {})
    IN IF intent.states # {} THEN intent.states ELSE said
NextActorsOf(q) ==
    LET intent == semanticIntentFor(q)
    IN IF intent.actors # {} THEN intent.actors ELSE q.cues \cap Actors
PrioritiesOf(q) == q.cues \cap Priorities

RemoteSession(q) == q.topics \cap {"security", "outage"} # {} /\ "remote" \in q.topics
\* An incident of licences, and one word alone, are looked up as words and not as a signal.
SignalsAsked(q) ==
    LET intent == semanticIntentFor(q).name
    IN ((q.cues \cap Signals) \cup (IF intent = "tax_invoice_review" THEN {"quotation_contract"} ELSE {}))
       \ (IF intent = "hci_license_incident" \/ q.alone # "no" THEN {"incident_security"} ELSE {})
SignalsOf(q) == SignalsAsked(q) \ (IF RemoteSession(q) THEN {"incident_security"} ELSE {})

DuePhrase(q) == SelectSeq(DuePhrases, LAMBDA phrase : phrase \in q.cues)

(* dueRangeFor, and the day the question names with a word of deadline      *)
dueRangeFor(phrase) ==
    CASE phrase = "overdue" -> {d \in SearchDays : d < 0}
      [] phrase = "today" -> {0}
      [] phrase = "tomorrow" -> {1}
      [] phrase = "this_week" -> (0 - SinceMonday)..(6 - SinceMonday)
      [] phrase = "has_due" -> SearchDays
      [] phrase = "no_due" -> {NoDueDate}
DueAsked(q) == q.day # NoDueDate \/ DuePhrase(q) # <<>>
DueWindow(q) ==
    CASE q.day # NoDueDate -> {q.day}
      [] q.day = NoDueDate /\ DuePhrase(q) # <<>> -> dueRangeFor(Head(DuePhrase(q)))
      [] OTHER -> SearchDays \cup {NoDueDate}

(* A long question, or one for a number of mails, is taken apart: only the  *)
(* words that may say something are kept.  The word security or outage      *)
(* alone stands for all of its kind.                                        *)
Decomposed(q) == q.limit # NoHint \/ q.long
Expansion(q) ==
    CASE q.alone = "no" -> {} [] q.alone = "security" -> {"security", "vpn"} [] OTHER -> {"outage", "incident"}
LexicalTokens(q) == (q.words \cup Expansion(q)) \ (IF Decomposed(q) THEN Scaffold ELSE {})
AnyWord(q) ==
    q.alone # "no" \/ (Cardinality(LexicalTokens(q)) > 1 /\ LexicalTokens(q) \subseteq DomainWords)

Structured(q) ==
    \/ WorkStatesOf(q) \cup NextActorsOf(q) \cup PrioritiesOf(q) \cup SignalsAsked(q) # {}
    \/ DueAsked(q) \/ q.project # "" \/ q.alone # "no" \/ semanticIntentFor(q) # NoIntent \/ q.from # NoSender

Anchored(q) ==
    \/ LexicalTokens(q) \cap Identifiers # {} \/ q.from # NoSender \/ q.day # NoDueDate
    \/ "external_party" \in NextActorsOf(q) \/ q.project # "" \/ RemoteSession(q)

\* Half of the words with an anchor, else three in five, and not below one, and two.
MinimumCoverage(q) ==
    LET count == Cardinality(LexicalTokens(q))
    IN IF Anchored(q) THEN (count + 1) \div 2
       ELSE IF (6 * count + 9) \div 10 < 2 THEN 2 ELSE (6 * count + 9) \div 10

\* A phrase, an intent or a limit; a day alone does not count.
Recognised(q) ==
    \/ q.cues \ (IF "compoundCompletion" \in q.cues THEN {"compoundCompletion", "completed"} ELSE {}) # {}
    \/ q.from # NoSender \/ q.limit # NoHint \/ q.alone # "no" \/ semanticIntentFor(q) # NoIntent
TurnedDown(q) ==
    /\ Decomposed(q)
    /\ q.invalidDay \/ Cardinality(LexicalTokens(q)) > MaxWords
       \/ (LexicalTokens(q) = {} /\ q.project = "" /\ ~Recognised(q))
FailClosed(q) == TurnedDown(q) \/ (LexicalTokens(q) = {} /\ ~Structured(q))
FallbackAllowed(q) ==
    /\ Cardinality(LexicalTokens(q)) >= 2
    /\ ~TurnedDown(q)
    /\ ~(Decomposed(q) /\ LexicalTokens(q) \cap Periods # {})

-------------------------------------------------------------------------------
(* intelligentSearch: which mails, from the columns of their rows.          *)

Current(m) == m.subject \cup m.body \cup m.evidence
Strict(m) == m.subject \cup m.preview \cup m.evidence
Indexed(m) == m.subject \cup m.body \cup m.sender
AllText(m) == Current(m) \cup m.sender

Covered(q, m) == Cardinality(LexicalTokens(q) \cap AllText(m)) >= MinimumCoverage(q)

(* the words, by the full text index: all of them, or any                   *)
WordsMatch(q, m, coverage) ==
    LET words == LexicalTokens(q)
    IN \/ words = {} \/ semanticIntentFor(q).name = "hci_license_incident"
       \/ words \subseteq Indexed(m)
       \/ (coverage \/ AnyWord(q)) /\ words \cap Indexed(m) # {}

AnchorsMatch(q, m, coverage) ==
    LexicalTokens(q) \cap Identifiers \subseteq AllText(m) /\ \A address \in q.from : m.from = address

IssueIn(q, text) ==
    IF {"security", "outage", "conjunction"} \subseteq q.topics THEN {"security", "outage"} \subseteq text
    ELSE {"security", "outage"} \cap text # {}

(* security or an outage of a remote session: in what the mail says first,  *)
(* or, on the second search, partly there and the rest in its body          *)
RemoteSessionMatches(q, m, coverage) ==
    \/ "remote" \in Strict(m) /\ IssueIn(q, Strict(m))
    \/ /\ coverage /\ Covered(q, m)
       /\ "remote" \in Strict(m) \/ IssueIn(q, Strict(m))
       /\ "remote" \in m.body /\ IssueIn(q, m.body)

IntentMatches(q, m) ==
    LET intent == semanticIntentFor(q)
    IN CASE intent.where = "strict" -> intent.needs \subseteq Strict(m)
         [] intent.where = "current" -> intent.needs \subseteq Current(m)
         [] intent.where = "headline" -> intent.needs \cap (m.subject \cup m.evidence) # {}
         [] intent.where = "oneZone" -> \E zone \in {m.subject, m.preview, m.evidence} : intent.needs \subseteq zone

Unadvertised(m) == ~m.promotional \/ m.review = "corrected"
AboutWork(q) ==
    \/ SignalsOf(q) \cap {"quotation_contract", "incident_security", "approval", "schedule"} # {}
    \/ WorkStatesOf(q) \cap {"action_required", "decision_required", "waiting"} # {}
    \/ DueAsked(q)

IncidentTerms(q) == IF q.alone = "security" THEN {"security"} ELSE {"outage"}
IncidentMatches(q, m) ==
    /\ ~m.promotional /\ ~m.taxFolder
    /\ IncidentTerms(q) \cap (m.subject \cup m.evidence) # {} \/ "incident_security" \in m.signals

In(value, values) == values = {} \/ value \in values

Matches(q, m, coverage) ==
    /\ ~m.deleted /\ ~m.thrownAway
    /\ WordsMatch(q, m, coverage)
    /\ In(m.state, WorkStatesOf(q)) /\ In(m.actor, NextActorsOf(q)) /\ In(m.priority, PrioritiesOf(q))
    /\ AnchorsMatch(q, m, coverage)
    /\ RemoteSession(q) => RemoteSessionMatches(q, m, coverage)
    /\ IntentMatches(q, m)
    /\ AboutWork(q) => Unadvertised(m)
    /\ q.alone # "no" => IncidentMatches(q, m)
    /\ DueAsked(q) => m.state \in {"action_required", "waiting", "decision_required", "review_required"}
    /\ SignalsOf(q) \subseteq m.signals
    /\ "review_required" \in WorkStatesOf(q) => m.review = "review_required"
    /\ m.due \in DueWindow(q)
    /\ q.project \in {"", m.project, m.candidate}
    /\ coverage => Covered(q, m)

-------------------------------------------------------------------------------
(* In which order.                                                          *)

Chronological(q) == q.limit > 0 /\ q.latest

PlaceIn(value, order) ==
    IF \E i \in 1..Len(order) : order[i] = value THEN CHOOSE i \in 1..Len(order) : order[i] = value
    ELSE Len(order) + 1
Yes(condition) == IF condition THEN 0 ELSE 1

(* the lead of the intent; for a review of contracts they come first instead *)
SemanticRank(q, m) ==
    LET intent == semanticIntentFor(q)
        contracts == "review_required" \in WorkStatesOf(q) /\ q.topics \cap {"contract", "maintenance"} # {}
    IN CASE contracts /\ "maintenance" \in Strict(m) -> 0
         [] contracts /\ "maintenance" \notin Strict(m) -> IF "contract" \in Strict(m) THEN 1 ELSE 2
         [] ~contracts -> Yes(\/ intent.lead \subseteq m.subject
                              \/ intent.name = "hci_license_incident" /\ "hci" \in m.evidence)
IncidentRank(q, m) ==
    IF q.alone = "no" THEN 0
    ELSE IF IncidentTerms(q) \cap m.subject # {} THEN 0 ELSE IF "incident_security" \in m.signals THEN 1 ELSE 2
SubjectRank(q, m) ==
    LET words == LexicalTokens(q)
    IN IF words \subseteq m.subject THEN 0 ELSE IF words \cap m.subject # {} THEN 1 ELSE 2
StateOrder(q) ==
    IF LexicalTokens(q) # {} THEN <<"action_required", "waiting", "decision_required", "completed", "reference">>
    ELSE <<"review_required", "decision_required", "action_required", "waiting">>
(* ORDER BY; relevance is that of the full text index                       *)
RankKey(q, m) ==
    <<Yes(Unadvertised(m)),
      IF Chronological(q) THEN 0 - m.received ELSE 0,
      SemanticRank(q, m), IncidentRank(q, m), SubjectRank(q, m),
      IF LexicalTokens(q) # {} /\ semanticIntentFor(q).name # "hci_license_incident" THEN m.relevance ELSE 0,
      PlaceIn(m.state, StateOrder(q)), PlaceIn(m.priority, <<"critical", "high", "normal">>),
      Yes(m.due # NoDueDate), m.due, 0 - m.received>>

Less(key, other) == \E i \in DOMAIN key : key[i] < other[i] /\ \A j \in 1..(i - 1) : key[j] = other[j]
Ranked(q, mails) ==
    LET keyed == {<<RankKey(q, m), m>> : m \in mails}
        before(k) == Cardinality({other \in keyed : Less(other[1], k[1])})
    IN [i \in 1..Cardinality(mails) |-> (CHOOSE k \in keyed : before(k) = i - 1)[2]]

FirstOnes(found, limit) == SubSeq(found, 1, IF limit < Len(found) THEN limit ELSE Len(found))

ResultLimit(q) == IF q.limit > 0 /\ q.limit < PageLimit THEN q.limit ELSE PageLimit

BadCandidateLimit(q) == ResultLimit(q)

(* the latest are chosen after the mails of another matter are left out     *)
CandidateLimit(q) == IF Chronological(q) THEN MaxCandidates ELSE ResultLimit(q)

intelligentSearch(q, coverage) ==
    IF FailClosed(q) THEN <<>>
    ELSE FirstOnes(Ranked(q, {m \in mailbox : Matches(q, m, coverage)}), CandidateLimit(q))

-------------------------------------------------------------------------------
(* evaluateSemanticSearchResults: of what matter a mail's own text is, and  *)
(* not what it quotes.  A matter is asked for by topics, one of each set,   *)
(* and a mail must show every part of it.  So the weights of the parts add  *)
(* up to the same score for all, and only the bonus tells mails apart.      *)

Part(shown) == [shown |-> shown, states |-> {}, actors |-> {}, signals |-> {}]
Completion == [Part({"completed"}) EXCEPT !.states = {"completed"}]

Matter(asks, parts, unless) == [asks |-> asks, parts |-> parts, unless |-> unless]
Matters == {
    Matter({{"completed"}, {"patch", "ticket"}}, {Completion, Part({"patch"}), Part({"ticket"})}, {}),
    Matter({{"completed"}, {"support"}}, {Completion, Part({"support"})}, {}),
    Matter({{"hci"}, {"license"}, {"incident"}},
           {Part({"hci"}), Part({"license"}), [Part({"incident"}) EXCEPT !.signals = {"incident_security"}]}, {}),
    Matter({{"sharedAsset"}, {"verification"}}, {Part({"sharedAsset"}), Part({"verification"})}, {}),
    Matter({{"quotation"}, {"purchaseOrder"}, {"progress"}},
           {Part({"quotation"}), Part({"purchaseOrder"}), Part({"progress"})}, {}),
    Matter({{"taxInvoice"}, {"humanReview"}}, {Part({"taxInvoice"}), Part({"humanReview"})}, {"automated"}),
    Matter({{"completed"}, {"followUp"}},
           {Completion, Part({"followUp"}), [Part({"external"}) EXCEPT !.actors = {"external_party"}]}, {})}

\* security alone is a matter too, and its results are taken as they are
MattersOf(q) ==
    IF q.alone = "security" THEN {} ELSE {t \in Matters : \A ask \in t.asks : ask \cap q.topics # {}}

Shows(m, part) ==
    \/ part.shown \subseteq m.current
    \/ m.state \in part.states \/ m.actor \in part.actors \/ part.signals \cap m.signals # {}

Qualifies(q, m) ==
    \A t \in MattersOf(q) : t.unless \cap m.current = {} /\ \A part \in t.parts : Shows(m, part)

\* A state that fits the matter weighs once more.
StateBonus(q, m) ==
    (IF m.state = "completed" /\ "completed" \in q.topics /\ q.topics \cap {"patch", "ticket"} # {} THEN 3 ELSE 0)
    + (IF m.state \in {"action_required", "review_required"} /\ {"hci", "license", "incident"} \subseteq q.topics
       THEN 2 ELSE 0)

WithBonus(q, left, bonus) == AtPlaces(left, {i \in DOMAIN left : StateBonus(q, left[i]) = bonus})

rerankSemanticSearchResults(q, found) ==
    LET left == AtPlaces(found, {i \in DOMAIN found : Qualifies(q, found[i])})
        with(bonus) == WithBonus(q, left, bonus)
    IN IF MattersOf(q) = {} \/ Chronological(q) THEN left ELSE with(5) \o with(3) \o with(2) \o with(0)

-------------------------------------------------------------------------------
(* search: a second time with any of the words, if nothing was found.       *)

Found(q, rows) == FirstOnes(rerankSemanticSearchResults(q, rows), ResultLimit(q))

Search(q) ==
    \E first \in {intelligentSearch(q, FALSE)} :
        LET retried == Found(q, first) = <<>> /\ FallbackAllowed(q)
        IN \E rows \in {IF retried THEN intelligentSearch(q, TRUE) ELSE first} :
              answer' = [question |-> q, fallback |-> retried, found |-> Found(q, rows)]

NoAnswer == [question |-> <<>>, fallback |-> FALSE, found |-> <<>>]

SearchInit ==
    /\ mailbox \in Mailboxes
    /\ answer = NoAnswer

SearchNext == (\E q \in Questions : Search(q)) /\ UNCHANGED mailbox

SearchSpec == SearchInit /\ [][SearchNext]_searchVars

\* Types of the state.
SearchTypeOK ==
    /\ answer = NoAnswer \/ answer.question \in Questions
    /\ answer.fallback \in BOOLEAN
    /\ \A i \in DOMAIN answer.found : answer.found[i] \in mailbox

-------------------------------------------------------------------------------
Answering(q, coverage) == {m \in mailbox : Matches(q, m, coverage) /\ Qualifies(q, m)}
Later(m, other) == Yes(Unadvertised(m)) = Yes(Unadvertised(other)) /\ m.received > other.received

(* "The three latest mails about ..." gets the latest of all the mails that *)
(* match and speak of the matter, in that order: no later one is left out   *)
(* because mails of another matter, or more relevant ones, came first, as   *)
(* long as the rows read are enough, also when the search was widened.      *)
LatestAreTheNewest ==
    answer # NoAnswer =>
        LET q == answer.question
            found == answer.found
            answering == Answering(q, answer.fallback)
        IN Chronological(q) /\ ~FailClosed(q)
           /\ Cardinality({m \in mailbox : Matches(q, m, answer.fallback)}) <= MaxCandidates =>
             /\ \A i \in DOMAIN found, m \in answering :
                  Later(m, found[i]) => \E j \in 1..(i - 1) : found[j] = m
             /\ Len(found) < ResultLimit(q) => Len(found) = Cardinality(answering)
===============================================================================
