--------------------------- MODULE MailReadingProofs ---------------------------
(***************************************************************************)
(* What holds of PrecisionRules and MailSearch for every set of mails,     *)
(* recorded rulings and searches.  A mail is classified by lists of rules  *)
(* of which the first that applies decides: what a list gives is read off  *)
(* the conditions of its rules, and which event leads is read off a table  *)
(* of the ranks of the types of events, so that no order of collecting     *)
(* them matters (RowInv).  A search orders mails by keys of eleven numbers *)
(* that no two mails share, so what it lists is counted off from one       *)
(* order, whatever order the rows of the database came in (SearchInv).     *)
(***************************************************************************)
EXTENDS PrecisionRules, MailSearch, CountingTheorems

-----------------------------------------------------------------------------
(* What the type of an event weighs beside its rank.                        *)
Base(t) == Weight[eventFamily(t)] + Bonus(t)

(* The family of every type of event, as the sets of types name them.      *)
LEMMA Families ==
    /\ \A t \in IncidentEvents : eventFamily(t) = "incident_security"
    /\ \A t \in UserActionEvents : eventFamily(t) = "user_action"
    /\ \A t \in CommitmentEvents : eventFamily(t) = "external_commitment"
    /\ \A t \in CompletionEvents : eventFamily(t) = "completion"
    /\ \A t \in DocumentEvents : eventFamily(t) = "business_document"
    /\ \A t \in AmbiguousEvents : eventFamily(t) = "ambiguous"
    /\ \A t \in InformationalEvents : eventFamily(t) = "informational"
    /\ \A t \in UrgencyEvents : eventFamily(t) = "urgency"
  BY DEF eventFamily, IncidentEvents, UserActionEvents, CommitmentEvents, CompletionEvents,
         DocumentEvents, AmbiguousEvents, InformationalEvents, UrgencyEvents

AutomatedEvents ==
    {"empty_message_reference", "editorial_guide_reference", "lifecycle_reference",
     "passive_payment_reference", "automated_process_reference", "automated_invoice_reference",
     "archived_tax_invoice_reference", "bulk_subject_notice_reference",
     "automated_notification_reference", "marketing_reference"}

(* These are the references of automated mails.                            *)
LEMMA AutomatedFamily == \A t \in AutomatedEvents : eventFamily(t) = "automated_reference"
  BY DEF eventFamily, IncidentEvents, UserActionEvents, CommitmentEvents, CompletionEvents,
         DocumentEvents, AmbiguousEvents, InformationalEvents, UrgencyEvents, AutomatedEvents

Bonuses ==
    /\ \A t \in IncidentEvents \cup CompletionEvents \cup UrgencyEvents : Bonus(t) = 0
    /\ \A t \in UserActionEvents : Bonus(t) \in {0, 400, 500, 800}
    /\ \A t \in CommitmentEvents : Bonus(t) \in {0, 400, 450}
    /\ Bonus("inbound_business_document_review") = 0
    /\ Bonus("received_tax_invoice_review") = 350
    /\ Bonus("empty_message_review") = 300
    /\ Bonus("progress_update_review") = 0
    /\ Bonus("access_information_reference") = 2800
    /\ Bonus("informational_asset_reference") = 2600
    /\ Bonus("empty_message_reference") = 0
    /\ \A t \in AutomatedEvents : Bonus(t) \in {0, 250, 2400, 2750, 2850}

(* The bonus of every type of event.                                       *)
LEMMA BonusTable == Bonuses
<1>1. \A t \in IncidentEvents \cup CompletionEvents \cup UrgencyEvents : Bonus(t) = 0
  BY DEF Bonus, IncidentEvents, CompletionEvents, UrgencyEvents
<1>2. \A t \in UserActionEvents : Bonus(t) \in {0, 400, 500, 800}
  BY DEF Bonus, UserActionEvents
<1>3. \A t \in CommitmentEvents : Bonus(t) \in {0, 400, 450}
  BY DEF Bonus, CommitmentEvents
<1>4. /\ Bonus("inbound_business_document_review") = 0
      /\ Bonus("received_tax_invoice_review") = 350
      /\ Bonus("empty_message_review") = 300
      /\ Bonus("progress_update_review") = 0
      /\ Bonus("access_information_reference") = 2800
      /\ Bonus("informational_asset_reference") = 2600
      /\ Bonus("empty_message_reference") = 0
  BY DEF Bonus
<1>5. \A t \in AutomatedEvents : Bonus(t) \in {0, 250, 2400, 2600 + 250, 2500 + 250}
  BY DEF Bonus, AutomatedEvents
<1> QED
  BY <1>1, <1>2, <1>3, <1>4, <1>5 DEF Bonuses

(* The table the ranking is read off: what a type weighs, family and       *)
(* bonus.                                                                  *)
LEMMA Bases ==
    /\ \A t \in IncidentEvents : Base(t) = 9000
    /\ \A t \in UserActionEvents : Base(t) \in {8000, 8400, 8500, 8800}
    /\ \A t \in CommitmentEvents : Base(t) \in {7000, 7400, 7450}
    /\ \A t \in CompletionEvents : Base(t) = 6000
    /\ Base("inbound_business_document_review") = 5000
    /\ Base("received_tax_invoice_review") = 5350
    /\ Base("empty_message_review") = 4800
    /\ Base("progress_update_review") = 4500
    /\ Base("access_information_reference") = 6800
    /\ Base("informational_asset_reference") = 6600
    /\ \A t \in AutomatedEvents : Base(t) \in {3500, 3750, 5900, 6250, 6350}
    /\ \A t \in UrgencyEvents : Base(t) = 0
<1>1. /\ \A t \in IncidentEvents : Base(t) = 9000 + Bonus(t)
      /\ \A t \in UserActionEvents : Base(t) = 8000 + Bonus(t)
      /\ \A t \in CommitmentEvents : Base(t) = 7000 + Bonus(t)
      /\ \A t \in CompletionEvents : Base(t) = 6000 + Bonus(t)
      /\ \A t \in DocumentEvents : Base(t) = 5000 + Bonus(t)
      /\ \A t \in AmbiguousEvents : Base(t) = 4500 + Bonus(t)
      /\ \A t \in InformationalEvents : Base(t) = 4000 + Bonus(t)
      /\ \A t \in AutomatedEvents : Base(t) = 3500 + Bonus(t)
      /\ \A t \in UrgencyEvents : Base(t) = 0 + Bonus(t)
  BY Families, AutomatedFamily DEF Base, Weight
<1> QED
  BY <1>1, BonusTable DEF Bonuses, DocumentEvents, AmbiguousEvents, InformationalEvents

-----------------------------------------------------------------------------
(* What is common to all events of a kind.                                  *)
AskingTypes == IncidentEvents \cup UserActionEvents \cup CommitmentEvents
OpenTypes == DocumentEvents \cup AmbiguousEvents
PassiveTypes == CompletionEvents \cup InformationalEvents \cup AutomatedEvents

Weighed(e) ==
    /\ e.rank \in Nat /\ e.rank <= 1200
    /\ e.confidence \in Nat /\ e.confidence >= 90 /\ e.confidence <= 100
    /\ \/ e.type \in AskingTypes /\ e.rank >= 820
       \/ e.type \in OpenTypes
       \/ e.type \in PassiveTypes /\ (e.type \in InformationalEvents => e.rank <= 969)

(* The ranks and kinds of the events, extractor by extractor.              *)
LEMMA GeneralWeighed == \A m : \A e \in GeneralEvents(m) : Weighed(e)
  BY DEF GeneralEvents, Weighed, Event, AskingTypes, OpenTypes, PassiveTypes, IncidentEvents, UserActionEvents,
         AmbiguousEvents, AutomatedEvents, InformationalEvents
LEMMA SupportRanked == \A m : \A e \in SupportEvents(m) : Weighed(e)
  BY DEF SupportEvents, Weighed, Event, AskingTypes, PassiveTypes, UserActionEvents,
         CommitmentEvents, CompletionEvents, InformationalEvents
LEMMA InboundRanked == \A m, base : \A e \in InboundEvents(m, base) : Weighed(e)
  BY DEF InboundEvents, Weighed, Event, AskingTypes, OpenTypes, PassiveTypes, UserActionEvents,
         AmbiguousEvents, DocumentEvents, InformationalEvents, CompletionEvents
LEMMA NoticeRanked == \A m : \A e \in NoticeEvents(m) : Weighed(e)
  BY DEF NoticeEvents, Weighed, Event, AskingTypes, OpenTypes, PassiveTypes, UserActionEvents,
         DocumentEvents, InformationalEvents, CompletionEvents, AutomatedEvents
LEMMA OutgoingRanked == \A m : \A e \in OutgoingEvent(m) : Weighed(e)
  BY DEF OutgoingEvent, Weighed, Event, AskingTypes, PassiveTypes, CommitmentEvents,
         InformationalEvents, CompletionEvents

(* What an event of each kind says of its mail.                             *)
Stated(e) ==
    /\ e.type \in AskingTypes => e.decision.state \in {"action_required", "waiting"}
    /\ e.type \in OpenTypes => e.decision.state = "review_required"
    /\ e.type \in PassiveTypes => e.decision.state \in {"reference", "completed"}

(* What the events state, extractor by extractor.                          *)
LEMMA GeneralStated == \A m : \A e \in GeneralEvents(m) : Stated(e)
  BY DEF GeneralEvents, Stated, Event, Mine, Theirs, Noted, Settled, Unclear, Decision, AskingTypes, OpenTypes,
         PassiveTypes, IncidentEvents, UserActionEvents, CommitmentEvents, CompletionEvents, DocumentEvents,
         AmbiguousEvents, InformationalEvents, AutomatedEvents, UrgencyEvents
LEMMA SupportStated == \A m : \A e \in SupportEvents(m) : Stated(e)
  BY DEF SupportEvents, Stated, Event, Mine, Theirs, Noted, Settled, Unclear, Decision, AskingTypes, OpenTypes,
         PassiveTypes, IncidentEvents, UserActionEvents, CommitmentEvents, CompletionEvents, DocumentEvents,
         AmbiguousEvents, InformationalEvents, AutomatedEvents, UrgencyEvents
LEMMA InboundStated == \A m, base : \A e \in InboundEvents(m, base) : Stated(e)
  BY DEF InboundEvents, Stated, Event, Mine, Theirs, Noted, Settled, Unclear, Decision, AskingTypes, OpenTypes,
         PassiveTypes, IncidentEvents, UserActionEvents, CommitmentEvents, CompletionEvents, DocumentEvents,
         AmbiguousEvents, InformationalEvents, AutomatedEvents, UrgencyEvents
LEMMA NoticeStated == \A m : \A e \in NoticeEvents(m) : Stated(e)
  BY DEF NoticeEvents, Stated, Event, Mine, Theirs, Noted, Settled, Unclear, Decision, AskingTypes, OpenTypes,
         PassiveTypes, IncidentEvents, UserActionEvents, CommitmentEvents, CompletionEvents, DocumentEvents,
         AmbiguousEvents, InformationalEvents, AutomatedEvents, UrgencyEvents
LEMMA OutgoingStated == \A m : \A e \in OutgoingEvent(m) : Stated(e)
  BY DEF OutgoingEvent, Stated, Event, Mine, Theirs, Noted, Settled, Unclear, Decision, AskingTypes, OpenTypes,
         PassiveTypes, IncidentEvents, UserActionEvents, CommitmentEvents, CompletionEvents, DocumentEvents,
         AmbiguousEvents, InformationalEvents, AutomatedEvents, UrgencyEvents

(* An urgency event has the lowest rank and stands for urgent words.       *)
LEMMA UrgentIs ==
    ASSUME NEW m, NEW base, NEW e \in UrgencyEvent(m, base)
    PROVE  e.type \in UrgencyEvents /\ e.rank = 100 /\ e.confidence = 92 /\ (e.when => Has(m, "currentUrgency"))
<1> DEFINE when == Has(m, "currentUrgency") /\ base \in {"action_required", "decision_required", "waiting"}
           what == Decision(base, "unset", IF Has(m, "criticalIncident") THEN "critical" ELSE "high")
<1>1. e = Event(when, "current_action_urgency", 100, 92, what)
  BY DEF UrgencyEvent
<1>2. e.when = when /\ e.type = "current_action_urgency" /\ e.rank = 100 /\ e.confidence = 92
  <2> HIDE DEF when, what
  <2> QED
    BY <1>1 DEF Event
<1>3. e.when => Has(m, "currentUrgency")
  BY <1>2
<1> QED
  BY <1>2, <1>3 DEF UrgencyEvents

(* The events a mail is about, by the parts of the extractor that find them. *)
Advertising(m) == Event(Has(m, "unsubscribe") /\ Automated(m), "marketing_reference", 895, 98, Noted("low"))

(* A candidate applies, and comes from one of the extractors that ran.     *)
LEMMA CandidateOf ==
    ASSUME NEW m, NEW base, NEW e \in Candidates(m, base)
    PROVE  e.when /\ \/ e \in GeneralEvents(m) \/ e \in SupportEvents(m)
                     \/ ~Outgoing(m) /\ (e \in InboundEvents(m, base) \/ e \in NoticeEvents(m))
                     \/ Outgoing(m) /\ e \in OutgoingEvent(m)
                     \/ e = Advertising(m) \/ e \in UrgencyEvent(m, base)
  BY DEF Candidates, Advertising

(* The advertising reference weighs and states as the others do.           *)
LEMMA AdvertisingIs == \A m : Weighed(Advertising(m)) /\ Stated(Advertising(m))
  BY DEF Advertising, Weighed, Stated, Event, Noted, Decision, AskingTypes, OpenTypes, PassiveTypes, IncidentEvents,
         UserActionEvents, CommitmentEvents, CompletionEvents, DocumentEvents, AmbiguousEvents,
         InformationalEvents, AutomatedEvents, UrgencyEvents

(* So does every candidate but the urgency.                                *)
LEMMA CandidatesRanked ==
    ASSUME NEW m, NEW base, NEW e \in Candidates(m, base)
    PROVE  (Weighed(e) /\ Stated(e)) \/ e \in UrgencyEvent(m, base)
  BY CandidateOf, GeneralWeighed, SupportRanked, InboundRanked, NoticeRanked, OutgoingRanked,
     GeneralStated, SupportStated, InboundStated, NoticeStated, OutgoingStated, AdvertisingIs

-----------------------------------------------------------------------------
(* What an event scores.                                                    *)
FolderWeight(m, e) == IF e.type = "lifecycle_reference" /\ LifecycleFolder(m) THEN 20000 ELSE 0
Most == 20000
Highest == 9000 + 1200 + Most

(* What a lifecycle folder adds is more than all ranks and types weigh.    *)
LEMMA FolderWeightIs == \A m, e : FolderWeight(m, e) \in {0, Most} /\ Most \in Nat /\ Most > 10200
  BY SMT DEF FolderWeight, Most

(* The score of a candidate is its rank, its type and what a folder adds.  *)
LEMMA ScoreIs ==
    ASSUME NEW m, NEW base, NEW e \in Candidates(m, base)
    PROVE  /\ e.rank \in Nat /\ e.rank <= 1200 /\ Base(e.type) \in Nat /\ Base(e.type) <= 9000
           /\ eventPolicyScore(m, e) = e.rank + Base(e.type) + FolderWeight(m, e)
           /\ Highest \in Nat /\ {eventPolicyScore(m, e), e.confidence, e.rank} \subseteq 0..Highest
<1>1. \/ Weighed(e)
      \/ e.type \in UrgencyEvents /\ e.rank = 100 /\ e.confidence = 92
  BY CandidatesRanked, UrgentIs
<1>2. Base(e.type) \in Nat /\ Base(e.type) <= 9000
  BY <1>1, Bases DEF Weighed, AskingTypes, OpenTypes, PassiveTypes, DocumentEvents, AmbiguousEvents,
                     InformationalEvents
<1>3. Weight[eventFamily(e.type)] \in Int
  BY <1>1, Families, AutomatedFamily DEF Weighed, AskingTypes, OpenTypes, PassiveTypes, Weight
<1>4. Bonus(e.type) \in Int
  BY DEF Bonus
<1>5. e.rank \in Nat /\ e.rank <= 1200 /\ e.confidence \in Nat /\ e.confidence <= 100
  BY <1>1 DEF Weighed
<1> DEFINE w == Weight[eventFamily(e.type)]
           b == Bonus(e.type)
<1>6. eventPolicyScore(m, e) = w + e.rank + b + FolderWeight(m, e) /\ Base(e.type) = w + b
  BY DEF eventPolicyScore, Base, FolderWeight
<1> HIDE DEF w, b
<1>7. w \in Int /\ b \in Int
  BY <1>3, <1>4 DEF w, b
<1>8. (FolderWeight(m, e) = 0 \/ FolderWeight(m, e) = Most) /\ Most \in Nat
  BY FolderWeightIs
<1>9. eventPolicyScore(m, e) = e.rank + Base(e.type) + FolderWeight(m, e)
  BY <1>5, <1>6, <1>7, <1>8
<1>10. Highest \in Nat /\ Highest = 10200 + Most
  BY <1>8 DEF Highest
<1>11. {eventPolicyScore(m, e), e.confidence, e.rank} \subseteq 0..Highest
  BY <1>2, <1>5, <1>8, <1>9, <1>10
<1> QED
  BY <1>2, <1>5, <1>9, <1>10, <1>11

(* Among things with a number there is one with the largest.                *)
LEMMA Largest ==
    ASSUME NEW T, T # {}, NEW N \in Nat, NEW f, \A x \in T : f[x] \in 0..N
    PROVE  \E x \in T : \A y \in T : f[y] <= f[x]
<1> DEFINE U == {N - f[x] : x \in T}
<1>1. U \in SUBSET Nat /\ U # {}
  OBVIOUS
<1>2. PICK u \in U : \A v \in U : ~(v < u)
  <2> HIDE DEF U
  <2> QED
    BY <1>1, Least
<1>3. PICK x \in T : u = N - f[x]
  BY <1>2
<1>4. ASSUME NEW y \in T PROVE f[y] <= f[x]
  <2>1. ~(N - f[y] < N - f[x])
    BY <1>2, <1>3
  <2> QED
    BY <2>1
<1> QED
  BY <1>4

(* Some event leads: no event is ahead of it.                               *)
LEMMA SomeEventLeads ==
    ASSUME NEW m, NEW base, NEW events \in SUBSET Candidates(m, base), events # {}
    PROVE  PrimaryEvents(m, events) # {}
<1> DEFINE real == {e \in events : e.type \notin UrgencyEvents}
           pool == IF real # {} THEN real ELSE events
           score == [e \in pool |-> eventPolicyScore(m, e)]
           best == {e \in pool : \A f \in pool : score[f] <= score[e]}
           sure == [e \in best |-> e.confidence]
           surest == {e \in best : \A f \in best : sure[f] <= sure[e]}
           rank == [e \in surest |-> e.rank]
<1>1. pool # {} /\ pool \subseteq Candidates(m, base)
  OBVIOUS
<1> HIDE DEF real, pool
<1>2. Highest \in Nat /\ \A e \in pool : {eventPolicyScore(m, e), e.confidence, e.rank} \subseteq 0..Highest
  BY <1>1, ScoreIs
<1>3. best # {} /\ best \subseteq pool
  <2>1. \A e \in pool : score[e] \in 0..Highest
    BY <1>2
  <2>2. \E e \in pool : \A f \in pool : score[f] <= score[e]
    <3> HIDE DEF score
    <3> QED
      BY <1>1, <1>2, <2>1, Largest
  <2> QED
    BY <2>2
<1>4. surest # {} /\ surest \subseteq best
  <2>1. \A e \in best : sure[e] \in 0..Highest
    BY <1>2, <1>3
  <2>2. \E e \in best : \A f \in best : sure[f] <= sure[e]
    <3> HIDE DEF sure, best
    <3> QED
      BY <1>2, <1>3, <2>1, Largest
  <2> QED
    BY <2>2
<1>5. PICK e \in surest : \A f \in surest : rank[f] <= rank[e]
  <2>1. \A e \in surest : rank[e] \in 0..Highest
    <3>1. surest \subseteq pool
      BY <1>3, <1>4
    <3> QED
      BY <1>2, <3>1
  <2>2. \E e \in surest : \A f \in surest : rank[f] <= rank[e]
    <3> HIDE DEF rank, surest
    <3> QED
      BY <1>2, <1>4, <2>1, Largest
  <2> QED
    BY <2>2
<1>6. \A f \in pool : ~Ahead(m, f, e)
  <2> SUFFICES ASSUME NEW f \in pool, Ahead(m, f, e) PROVE FALSE
    OBVIOUS
  <2>1. e \in pool /\ e \in best
    BY <1>3, <1>4
  <2>2. eventPolicyScore(m, f) <= eventPolicyScore(m, e)
    BY <2>1
  <2>3. eventPolicyScore(m, f) = eventPolicyScore(m, e) => f \in best
    BY <2>1
  <2>4. f \in best => f.confidence <= e.confidence
    BY <1>4, <2>1
  <2>5. f \in best /\ f.confidence = e.confidence => f \in surest
    BY <2>1
  <2>6. f \in surest => f.rank <= e.rank
    BY <1>5
  <2>7. /\ eventPolicyScore(m, e) \in Int /\ e.confidence \in Int /\ e.rank \in Int
        /\ eventPolicyScore(m, f) \in Int /\ f.confidence \in Int /\ f.rank \in Int
    <3>1. \A g \in pool : {eventPolicyScore(m, g), g.confidence, g.rank} \subseteq Int
      <4> HIDE DEF best, surest, rank, score, sure
      <4> QED
        BY <1>2
    <3> QED
      BY <2>1, <3>1
  <2> HIDE DEF score, best, sure, surest, rank
  <2> QED
    BY <2>2, <2>3, <2>4, <2>5, <2>6, <2>7 DEF Ahead
<1> QED
  BY <1>3, <1>4, <1>6 DEF PrimaryEvents, pool, real

-----------------------------------------------------------------------------
(* An event that asks for something is ahead of every passive one.          *)
Asks(e) == e.decision.state \in {"action_required", "decision_required", "waiting"}

LEMMA AskingIsAhead ==
    ASSUME NEW m, NEW base, ~LifecycleFolder(m), ~Has(m, "currentUrgency"),
           NEW e \in Candidates(m, base), Asks(e),
           NEW p \in PrimaryEvents(m, Candidates(m, base))
    PROVE  p \in Candidates(m, base) /\ p.decision.state \in {"action_required", "waiting", "review_required"}
<1>1. \A f \in Candidates(m, base) : Weighed(f) /\ Stated(f) /\ f.type \notin UrgencyEvents
  <2> SUFFICES ASSUME NEW f \in Candidates(m, base)
               PROVE  Weighed(f) /\ Stated(f) /\ f.type \notin UrgencyEvents
    OBVIOUS
  <2>1. Weighed(f) /\ Stated(f)
    BY CandidatesRanked, CandidateOf, UrgentIs
  <2> QED
    BY <2>1 DEF Weighed, AskingTypes, OpenTypes, PassiveTypes, IncidentEvents, UserActionEvents,
                CommitmentEvents, CompletionEvents, DocumentEvents, AmbiguousEvents, InformationalEvents,
                AutomatedEvents, UrgencyEvents
<1>2. p \in Candidates(m, base) /\ ~Ahead(m, e, p)
  BY <1>1 DEF PrimaryEvents
<1>3. eventPolicyScore(m, e) = e.rank + Base(e.type) /\ eventPolicyScore(m, p) = p.rank + Base(p.type)
  BY <1>2, ScoreIs DEF FolderWeight
<1>4. e.type \in AskingTypes /\ e.rank >= 820
  BY <1>1 DEF Weighed, Stated, Asks
<1>5. Base(e.type) >= 7000
  BY <1>4, Bases DEF AskingTypes
<1>6. p.type \notin PassiveTypes
  <2> SUFFICES ASSUME p.type \in PassiveTypes PROVE FALSE
    OBVIOUS
  <2>1. Weighed(p) /\ p.type \notin AskingTypes /\ p.type \notin OpenTypes
    BY <1>1, <1>2 DEF AskingTypes, OpenTypes, PassiveTypes, IncidentEvents, UserActionEvents,
                CommitmentEvents, CompletionEvents, DocumentEvents, AmbiguousEvents, InformationalEvents,
                AutomatedEvents
  <2>2. p.rank + Base(p.type) <= 7769
    BY <2>1, Bases DEF Weighed, PassiveTypes, InformationalEvents
  <2>3. e.rank + Base(e.type) >= 7820
    BY <1>1, <1>4, <1>5, <1>2, ScoreIs
  <2> QED
    BY <1>2, <1>3, <2>2, <2>3, ScoreIs DEF Ahead
<1> QED
  BY <1>1, <1>2, <1>6 DEF Weighed, Stated

-----------------------------------------------------------------------------
(* No two events of a mail are level: those that share a rank weigh         *)
(* differently.                                                             *)
SameEvent(e, f) == e.when /\ f.when /\ e.rank = f.rank /\ Base(e.type) = Base(f.type) => e = f

GeneralRanks == {1200, 1190, 1180, 1170, 1160, 1150, 1140, 1130, 1000, 945}
SupportRanks == {986, 985, 980, 979, 978, 975, 930, 920, 910, 900}
InboundRanks == {979, 976, 974, 973, 971, 970, 969, 968, 960}
NoticeRanks == {977, 970, 958, 957, 890, 885, 880, 860, 856, 855, 850, 500}
OutgoingRanks == {845, 840, 835, 830, 820}

(* Of two events of one extractor that share a rank, the types weigh       *)
(* differently.                                                            *)
LEMMA GeneralDiffer == \A m : /\ \A e \in GeneralEvents(m) : e.rank \in GeneralRanks
                             /\ \A e, f \in GeneralEvents(m) : SameEvent(e, f)
  BY DEF GeneralEvents, GeneralRanks, SameEvent, Event
LEMMA NoticeDiffer == \A m : /\ \A e \in NoticeEvents(m) : e.rank \in NoticeRanks
                            /\ \A e, f \in NoticeEvents(m) : SameEvent(e, f)
  BY DEF NoticeEvents, NoticeRanks, SameEvent, Event
LEMMA OutgoingDiffer == \A m : /\ \A e \in OutgoingEvent(m) : e.rank \in OutgoingRanks
                              /\ \A e, f \in OutgoingEvent(m) : SameEvent(e, f)
  BY DEF OutgoingEvent, OutgoingRanks, SameEvent, Event
LEMMA SupportRanksAre == \A m : \A e \in SupportEvents(m) : e.rank \in SupportRanks
  BY DEF SupportEvents, SupportRanks, Event
LEMMA SupportDiffer == \A m : \A e, f \in SupportEvents(m) : SameEvent(e, f)
<1>1. /\ Base("support_provider_request_waiting") \in {7000, 7400, 7450}
      /\ Base("support_incoming_request_action") \in {8000, 8400, 8500, 8800}
  BY Bases DEF UserActionEvents, CommitmentEvents
<1>2. Base("support_provider_request_waiting") # Base("support_incoming_request_action")
  BY <1>1
<1> QED
  BY <1>2 DEF SupportEvents, SameEvent, Event
LEMMA InboundRanksAre == \A m, base : \A e \in InboundEvents(m, base) : e.rank \in InboundRanks
  BY DEF InboundEvents, InboundRanks, Event
LEMMA InboundDiffer == \A m, base : \A e, f \in InboundEvents(m, base) : SameEvent(e, f)
<1>1. Base("access_information_reference") = 6800 /\ Base("inbound_business_document_review") = 5000
  BY Bases
<1> QED
  BY <1>1 DEF InboundEvents, SameEvent, Event

(* The ranks that two parts of the extractor have in common.                *)
LEMMA SharedBySupport == \A m : \A e \in SupportEvents(m) : e.rank = 979 => e.type \in CommitmentEvents
  BY DEF SupportEvents, Event, CommitmentEvents
LEMMA SharedByInbound == \A m, base : \A e \in InboundEvents(m, base) :
                            /\ e.rank = 979 => e.type \in CompletionEvents
                            /\ e.rank = 970 => e.type = "progress_update_review"
  BY DEF InboundEvents, Event, CompletionEvents
LEMMA SharedByNotice == \A m : \A e \in NoticeEvents(m) : e.rank = 970 => e.type \in CompletionEvents
  BY DEF NoticeEvents, Event, CompletionEvents
(* Types that share a rank weigh differently.                              *)
LEMMA CommitmentsWeighMore == \A t \in CommitmentEvents : \A u \in CompletionEvents : Base(t) # Base(u)
  BY Bases
LEMMA CompletionsWeighMore == \A u \in CompletionEvents : Base(u) # Base("progress_update_review")
  BY Bases

(* A rank that extractors do not share tells which of them found the       *)
(* event.                                                                  *)
LEMMA PartOfRank ==
    ASSUME NEW m, NEW base, NEW e \in Candidates(m, base)
    PROVE  /\ e.rank \in GeneralRanks => e \in GeneralEvents(m)
           /\ e.rank \in SupportRanks \ {979} => e \in SupportEvents(m)
           /\ e.rank \in InboundRanks \ {979, 970} => e \in InboundEvents(m, base)
           /\ e.rank \in NoticeRanks \ {970} => e \in NoticeEvents(m)
           /\ e.rank \in OutgoingRanks => e \in OutgoingEvent(m)
           /\ e.rank \in {895, 100} => e = Advertising(m) \/ e \in UrgencyEvent(m, base)
           /\ e.rank \in GeneralRanks \cup SupportRanks \cup InboundRanks \cup NoticeRanks
                          \cup OutgoingRanks \cup {895, 100}
<1>1. CASE e \in GeneralEvents(m)
  <2>1. e.rank \in GeneralRanks
    BY <1>1, GeneralDiffer
  <2> QED
    BY <1>1, <2>1 DEF GeneralRanks, SupportRanks, InboundRanks, NoticeRanks, OutgoingRanks
<1>2. CASE e \in SupportEvents(m)
  <2>1. e.rank \in SupportRanks
    BY <1>2, SupportRanksAre
  <2> QED
    BY <1>2, <2>1, SharedBySupport DEF GeneralRanks, SupportRanks, InboundRanks, NoticeRanks, OutgoingRanks
<1>3. CASE e \in InboundEvents(m, base)
  <2>1. e.rank \in InboundRanks
    BY <1>3, InboundRanksAre
  <2> QED
    BY <1>3, <2>1, SharedByInbound DEF GeneralRanks, SupportRanks, InboundRanks, NoticeRanks, OutgoingRanks
<1>4. CASE e \in NoticeEvents(m)
  <2>1. e.rank \in NoticeRanks
    BY <1>4, NoticeDiffer
  <2> QED
    BY <1>4, <2>1, SharedByNotice DEF GeneralRanks, SupportRanks, InboundRanks, NoticeRanks, OutgoingRanks
<1>5. CASE e \in OutgoingEvent(m)
  <2>1. e.rank \in OutgoingRanks
    BY <1>5, OutgoingDiffer
  <2> QED
    BY <1>5, <2>1 DEF GeneralRanks, SupportRanks, InboundRanks, NoticeRanks, OutgoingRanks
<1>6. CASE e = Advertising(m) \/ e \in UrgencyEvent(m, base)
  <2>1. e.rank \in {895, 100}
    BY <1>6, UrgentIs DEF Advertising, Event
  <2> QED
    BY <1>6, <2>1 DEF GeneralRanks, SupportRanks, InboundRanks, NoticeRanks, OutgoingRanks
<1> QED
  BY <1>1, <1>2, <1>3, <1>4, <1>5, <1>6, CandidateOf

(* The two ranks that are shared tell it with the type.                    *)
LEMMA PartOfSharedRank ==
    ASSUME NEW m, NEW base, NEW e \in Candidates(m, base)
    PROVE  /\ e.rank = 979 => \/ e \in SupportEvents(m) /\ e.type \in CommitmentEvents
                              \/ e \in InboundEvents(m, base) /\ e.type \in CompletionEvents
           /\ e.rank = 970 => \/ e \in InboundEvents(m, base) /\ e.type = "progress_update_review"
                              \/ e \in NoticeEvents(m) /\ e.type \in CompletionEvents
<1>1. \/ e \in SupportEvents(m) /\ (e.rank = 979 => e.type \in CommitmentEvents) /\ e.rank # 970
      \/ e \in InboundEvents(m, base) /\ (e.rank = 979 => e.type \in CompletionEvents)
                                      /\ (e.rank = 970 => e.type = "progress_update_review")
      \/ e \in NoticeEvents(m) /\ (e.rank = 970 => e.type \in CompletionEvents) /\ e.rank # 979
      \/ e.rank # 979 /\ e.rank # 970
  <2>1. CASE e \in SupportEvents(m)
    BY <2>1, SharedBySupport, SupportRanksAre DEF SupportRanks
  <2>2. CASE e \in InboundEvents(m, base)
    BY <2>2, SharedByInbound
  <2>3. CASE e \in NoticeEvents(m)
    BY <2>3, SharedByNotice, NoticeDiffer DEF NoticeRanks
  <2>4. CASE e \in GeneralEvents(m)
    BY <2>4, GeneralDiffer DEF GeneralRanks
  <2>5. CASE e \in OutgoingEvent(m)
    BY <2>5, OutgoingDiffer DEF OutgoingRanks
  <2>6. CASE e = Advertising(m) \/ e \in UrgencyEvent(m, base)
    BY <2>6, UrgentIs DEF Advertising, Event
  <2> QED
    BY <2>1, <2>2, <2>3, <2>4, <2>5, <2>6, CandidateOf
<1> QED
  BY <1>1

(* So no two events of a mail have the same rank and weigh the same.       *)
LEMMA EventsDiffer ==
    ASSUME NEW m, NEW base, NEW e \in Candidates(m, base), NEW f \in Candidates(m, base),
           e.rank = f.rank, Base(e.type) = Base(f.type)
    PROVE  SameEvent(e, f)
<1>1. CASE e.rank \in GeneralRanks
  BY <1>1, PartOfRank, GeneralDiffer
<1>2. CASE e.rank \in SupportRanks \ {979}
  BY <1>2, PartOfRank, SupportDiffer
<1>3. CASE e.rank \in InboundRanks \ {979, 970}
  BY <1>3, PartOfRank, InboundDiffer
<1>4. CASE e.rank \in NoticeRanks \ {970}
  BY <1>4, PartOfRank, NoticeDiffer
<1>5. CASE e.rank \in OutgoingRanks
  BY <1>5, PartOfRank, OutgoingDiffer
<1>6. CASE e.rank \in {895, 100}
  <2>1. /\ e = Advertising(m) \/ e \in UrgencyEvent(m, base)
        /\ f = Advertising(m) \/ f \in UrgencyEvent(m, base)
    BY <1>6, PartOfRank
  <2>2. Advertising(m).rank = 895 /\ \A x \in UrgencyEvent(m, base) : x.rank = 100
    BY UrgentIs DEF Advertising, Event
  <2>3. \A x, y \in UrgencyEvent(m, base) : x = y
    BY DEF UrgencyEvent
  <2> QED
    BY <2>1, <2>2, <2>3 DEF SameEvent
<1>7. CASE e.rank = 979
  <2>0. f.rank = 979
    BY <1>7
  <2>1. \/ e \in SupportEvents(m) /\ f \in SupportEvents(m)
        \/ e \in InboundEvents(m, base) /\ f \in InboundEvents(m, base)
    <3>1. \/ e \in SupportEvents(m) /\ e.type \in CommitmentEvents
          \/ e \in InboundEvents(m, base) /\ e.type \in CompletionEvents
      BY <1>7, PartOfSharedRank
    <3>2. \/ f \in SupportEvents(m) /\ f.type \in CommitmentEvents
          \/ f \in InboundEvents(m, base) /\ f.type \in CompletionEvents
      BY <2>0, PartOfSharedRank
    <3>3. /\ ~(e.type \in CommitmentEvents /\ f.type \in CompletionEvents)
          /\ ~(f.type \in CommitmentEvents /\ e.type \in CompletionEvents)
      BY CommitmentsWeighMore
    <3> QED
      BY <3>1, <3>2, <3>3
  <2> QED
    BY <2>1, SupportDiffer, InboundDiffer
<1>8. CASE e.rank = 970
  <2>0. f.rank = 970
    BY <1>8
  <2>1. \/ e \in NoticeEvents(m) /\ f \in NoticeEvents(m)
        \/ e \in InboundEvents(m, base) /\ f \in InboundEvents(m, base)
    <3>1. \/ e \in NoticeEvents(m) /\ e.type \in CompletionEvents
          \/ e \in InboundEvents(m, base) /\ e.type = "progress_update_review"
      BY <1>8, PartOfSharedRank
    <3>2. \/ f \in NoticeEvents(m) /\ f.type \in CompletionEvents
          \/ f \in InboundEvents(m, base) /\ f.type = "progress_update_review"
      BY <2>0, PartOfSharedRank
    <3>3. /\ ~(e.type \in CompletionEvents /\ f.type = "progress_update_review")
          /\ ~(f.type \in CompletionEvents /\ e.type = "progress_update_review")
      BY CompletionsWeighMore
    <3> QED
      BY <3>1, <3>2, <3>3
  <2> QED
    BY <2>1, NoticeDiffer, InboundDiffer
<1> QED
  BY <1>1, <1>2, <1>3, <1>4, <1>5, <1>6, <1>7, <1>8, PartOfRank

(* Of two events one is ahead of the other.                                *)
LEMMA NoneLevel ==
    ASSUME NEW m, NEW base, NEW e \in Candidates(m, base), NEW f \in Candidates(m, base),
           ~Ahead(m, e, f), ~Ahead(m, f, e)
    PROVE  e = f
<1>1. /\ e.rank \in Nat /\ f.rank \in Nat /\ e.rank <= 1200 /\ f.rank <= 1200
      /\ Base(e.type) \in Nat /\ Base(e.type) <= 9000 /\ Base(f.type) \in Nat /\ Base(f.type) <= 9000
      /\ eventPolicyScore(m, e) = e.rank + Base(e.type) + FolderWeight(m, e)
      /\ eventPolicyScore(m, f) = f.rank + Base(f.type) + FolderWeight(m, f)
  BY ScoreIs
<1>2. e.confidence \in Int /\ f.confidence \in Int /\ eventPolicyScore(m, e) \in Int /\ eventPolicyScore(m, f) \in Int
  BY ScoreIs
<1>3. eventPolicyScore(m, e) = eventPolicyScore(m, f) /\ e.rank = f.rank
  BY <1>1, <1>2 DEF Ahead
<1>4. /\ FolderWeight(m, e) = 0 \/ FolderWeight(m, e) = Most
      /\ FolderWeight(m, f) = 0 \/ FolderWeight(m, f) = Most
      /\ Most \in Nat /\ Most > 10200
  BY FolderWeightIs
<1>5. Base(e.type) = Base(f.type)
  BY <1>1, <1>3, <1>4
<1> QED
  BY <1>3, <1>5, EventsDiffer, CandidateOf DEF SameEvent

-----------------------------------------------------------------------------
(* The frame of a mail.                                                     *)
LEMMA FrameIs ==
    ASSUME NEW m, NEW base, Candidates(m, base) # {}
    PROVE  LET frame == MailEventFrame(m, base)
               leaders == PrimaryEvents(m, Candidates(m, base))
           IN  /\ frame.events = Candidates(m, base)
               /\ frame.leaders = leaders
               /\ frame.decision \in leaders
               /\ leaders \subseteq Candidates(m, base)
<1> DEFINE events == Candidates(m, base)
           leaders == PrimaryEvents(m, events)
<1>1. leaders # {}
  BY SomeEventLeads
<1>2. leaders \subseteq events
  BY DEF PrimaryEvents
<1>3. MailEventFrame(m, base) = FrameLedBy(m, events, leaders, CHOOSE e \in leaders : TRUE)
  BY DEF MailEventFrame, FrameOf, FrameAmong
<1> HIDE DEF events, leaders
<1>4. /\ MailEventFrame(m, base).events = events
      /\ MailEventFrame(m, base).leaders = leaders
      /\ MailEventFrame(m, base).decision = CHOOSE e \in leaders : TRUE
  BY <1>3 DEF FrameLedBy
<1> QED
  BY <1>1, <1>2, <1>4 DEF events, leaders

(* A mail without candidates has no events.                                *)
LEMMA NoEventsFrame == \A m, base : Candidates(m, base) = {} => MailEventFrame(m, base).events = {}
  BY DEF MailEventFrame, FrameOf

(* One event leads the frame of a mail.                                    *)
LEMMA OneLeads ==
    ASSUME NEW m, NEW base, Candidates(m, base) # {}
    PROVE  Cardinality(MailEventFrame(m, base).leaders) = 1
<1> DEFINE events == Candidates(m, base)
           leaders == PrimaryEvents(m, events)
<1>1. PICK p : p \in leaders
  BY SomeEventLeads
<1>2. \A q \in leaders : q = p
  <2> SUFFICES ASSUME NEW q \in leaders PROVE q = p
    OBVIOUS
  <2>1. q \in events /\ p \in events /\ ~Ahead(m, q, p) /\ ~Ahead(m, p, q)
    BY <1>1 DEF PrimaryEvents
  <2> QED
    BY <2>1, NoneLevel
<1>3. leaders = {p}
  BY <1>1, <1>2
<1> QED
  BY <1>3, FrameIs, FS_Singleton

-----------------------------------------------------------------------------
(* What the rules say.                                                      *)
LEMMA DecidedByEvent ==
    ASSUME NEW m, NEW n, NEW base, NEW frame, frame = MailEventFrame(m, base),
           ~LifecycleFolder(m), ~DraftLike(m), ~Has(m, "currentUrgency"),
           NEW e \in frame.events, Asks(e)
    PROVE  baseLane(classifyMessage(m, n, frame)) # "archive"
<1> DEFINE chosen == SelectedState(m, baseState(m), frame)
           active == {"action_required", "waiting", "review_required"}
<1>1. e \in Candidates(m, base)
  BY NoEventsFrame, FrameIs
<1>2. frame.decision \in Candidates(m, base) /\ frame.decision.decision.state \in active
  BY <1>1, FrameIs, AskingIsAhead
<1>3. frame.decision # NoDecision
  <2>1. frame.decision.confidence > 0
    BY <1>2, CandidatesRanked, UrgentIs DEF Weighed
  <2> QED
    BY <2>1 DEF NoDecision, Event
<1>4. chosen.state \in active
  <2>1. CASE automaticDirective(m)
    BY <2>1 DEF SelectedState, Action, Verdict
  <2>2. CASE ~automaticDirective(m)
    BY <2>2, <1>2, <1>3 DEF SelectedState, Verdict
  <2> QED
    BY <2>1, <2>2
<1>5. classifyMessage(m, n, frame).state \in active
  <2> HIDE DEF chosen
  <2> QED
    BY <1>4 DEF classifyMessage, VerdictFor, VerdictOn, chosen
<1> QED
  BY <1>5 DEF baseLane

Fields == {"state", "actor", "priority", "due", "project", "signals", "sure", "reasons", "review",
           "quotesDocument", "conflicts", "source"}
IsVerdict(c) == DOMAIN c = Fields /\ c = [f \in Fields |-> c[f]]

ReviewsConflicts(c) ==
    /\ c.review # "corrected"
    /\ c.project = "review_required" => c.review = "review_required" /\ c.reasons # {}

(* The rules send a conflict of projects to review, with its reasons.      *)
LEMMA RulesReviewConflicts ==
    ASSUME NEW m, NEW n, NEW frame
    PROVE  LET c == classifyMessage(m, n, frame) IN IsVerdict(c) /\ c.source = "rules" /\ ReviewsConflicts(c)
<1> DEFINE chosen == SelectedState(m, baseState(m), frame)
           c == classifyMessage(m, n, frame)
<1>1. c = VerdictOn(m, frame, chosen, ActorBy(m, frame, chosen), DueBy(m, chosen.state), resolveProject(m, n))
  BY DEF classifyMessage, VerdictFor
<1> HIDE DEF chosen, c
<1>2. \A actor, due, project :
        LET v == VerdictOn(m, frame, chosen, actor, due, project)
        IN  IsVerdict(v) /\ v.source = "rules" /\ ReviewsConflicts(v)
  <2> SUFFICES ASSUME NEW actor, NEW due, NEW project
               PROVE  LET v == VerdictOn(m, frame, chosen, actor, due, project)
                      IN  IsVerdict(v) /\ v.source = "rules" /\ ReviewsConflicts(v)
    OBVIOUS
  <2> DEFINE v == VerdictOn(m, frame, chosen, actor, due, project)
  <2>1. IsVerdict(v) /\ v.source = "rules"
    BY DEF VerdictOn, IsVerdict, Fields
  <2>2. v.project = project /\ v.review \in {"auto", "review_required"}
        /\ (project = "review_required" => v.review = "review_required")
    BY DEF VerdictOn
  <2>3. projectReasons(project, chosen.state) \subseteq v.reasons
    BY DEF VerdictOn
  <2>4. project = "review_required" => "multiple_project_matches" \in projectReasons(project, chosen.state)
    BY DEF projectReasons, ProjectReasons
  <2> QED
    BY <2>1, <2>2, <2>3, <2>4 DEF ReviewsConflicts
<1> QED
  BY <1>1, <1>2 DEF c

-----------------------------------------------------------------------------
(* What is kept of every row the rules wrote; a row has all its columns.    *)
OutOfSight == OutOfUse \/ Has(mail, "currentUrgency")
RowInv ==
    /\ mailFrame = MailEventFrame(mail, baseState(mail).state)
    /\ Stored => IsVerdict(saved)
    /\ saved.source = "rules" => ReviewsConflicts(saved) /\ (decided.missed => OutOfSight)

(* A verdict fit to be saved.                                               *)
Fit(c, seen) ==
    /\ IsVerdict(c)
    /\ c.source = "rules" => ReviewsConflicts(c) /\ (Decided(c, seen).missed => OutOfSight)

(* A verdict that is saved as it is keeps the row.                         *)
LEMMA SavedAsIs ==
    ASSUME NEW c, NEW seen, Fit(c, seen), SaveVerdict(c, seen), RowInv, UNCHANGED <<mail, mailFrame>>
    PROVE  RowInv'
<1>1. saved' = [c EXCEPT !.conflicts = {}] /\ decided' = Decided(c, seen)
  BY DEF SaveVerdict
<1>2. DOMAIN c = Fields /\ c = [f \in Fields |-> c[f]]
  BY DEF Fit, IsVerdict
<1>3. /\ IsVerdict(saved')
      /\ saved'.source = c.source /\ saved'.review = c.review
      /\ saved'.project = c.project /\ saved'.reasons = c.reasons
  BY <1>1, <1>2 DEF Fields, IsVerdict
<1>4. OutOfSight' = OutOfSight
  BY DEF OutOfSight, OutOfUse
<1>5. saved'.source = "rules" => ReviewsConflicts(saved') /\ (decided'.missed => OutOfSight')
  BY <1>1, <1>3, <1>4 DEF Fit, ReviewsConflicts
<1> QED
  BY <1>3, <1>5 DEF RowInv, Stored

(* What a person or a policy makes of a verdict is not the rules' any more.  *)
LEMMA RuledOtherwise ==
    ASSUME NEW c, IsVerdict(c), NEW sets, NEW seen
    PROVE  Fit(applyPrecisionCorrection(c, sets), seen) /\ Fit(applyLearnedPolicy(c, sets), seen)
<1> DEFINE next == Override(c, sets)
           corrected == applyPrecisionCorrection(c, sets)
           learned == applyLearnedPolicy(c, sets)
<1>1. IsVerdict(next)
  BY DEF Override, IsVerdict
<1>2. IsVerdict(corrected) /\ corrected.source = "user-corrected"
  <2> HIDE DEF next
  <2> QED
    BY <1>1 DEF applyPrecisionCorrection, next, IsVerdict, Fields
<1>3. IsVerdict(learned) /\ learned.source = "hybrid"
  <2> HIDE DEF corrected
  <2> QED
    BY <1>2 DEF applyLearnedPolicy, corrected, IsVerdict, Fields
<1> QED
  BY <1>2, <1>3 DEF Fit

(* A verdict saved under the ruling in force keeps the row.                *)
LEMMA SavedUnder ==
    ASSUME NEW r, NEW c, NEW seen, Fit(c, seen), SaveUnder(r, c, seen), RowInv, UNCHANGED <<mail, mailFrame>>
    PROVE  RowInv'
<1>1. CASE r.by = "person"
  <2>1. SaveVerdict(applyPrecisionCorrection(c, r.sets), ConflictsSeen(c))
    BY <1>1 DEF SaveUnder
  <2> QED
    BY <2>1, RuledOtherwise, SavedAsIs DEF Fit
<1>2. CASE r.by = "policy"
  <2>1. SaveVerdict(applyLearnedPolicy(c, r.sets), ConflictsSeen(c))
    BY <1>2 DEF SaveUnder
  <2> QED
    BY <2>1, RuledOtherwise, SavedAsIs DEF Fit
<1>3. CASE r.by # "person" /\ r.by # "policy"
  <2>1. SaveVerdict(c, seen)
    BY <1>3 DEF SaveUnder
  <2> QED
    BY <2>1, SavedAsIs
<1> QED
  BY <1>1, <1>2, <1>3

(* The rules' own verdicts are fit to be saved, a model's failure noted or not. *)
LEMMA RulesAreFit ==
    ASSUME RowInv, NEW n
    PROVE  Fit(ByRules(n), AllSeen) /\ Fit(labelLlmFailure(ByRules(n)), AllSeen)
<1> DEFINE c == ByRules(n)
           labelled == labelLlmFailure(c)
<1>1. IsVerdict(c) /\ c.source = "rules" /\ ReviewsConflicts(c)
  BY RulesReviewConflicts DEF ByRules
<1>2. baseLane(c) = "archive" /\ AllSeen.active => OutOfSight
  <2> SUFFICES ASSUME baseLane(c) = "archive", AllSeen.active, ~OutOfSight PROVE FALSE
    OBVIOUS
  <2>1. PICK e \in mailFrame.events : Asks(e)
    BY DEF AllSeen, Asks
  <2>2. ~LifecycleFolder(mail) /\ ~DraftLike(mail) /\ ~Has(mail, "currentUrgency")
    BY DEF OutOfSight, OutOfUse
  <2>3. baseLane(classifyMessage(mail, n, mailFrame)) # "archive"
    BY <2>1, <2>2, DecidedByEvent DEF RowInv
  <2> QED
    BY <2>3 DEF ByRules
<1> HIDE DEF c
<1>3. IsVerdict(labelled) /\ labelled.source = "rules" /\ ReviewsConflicts(labelled)
      /\ baseLane(labelled) = baseLane(c)
  <2>1. /\ IsVerdict(labelled) /\ labelled.source = c.source /\ labelled.state = c.state
        /\ labelled.project = c.project /\ labelled.review = c.review
        /\ labelled.reasons = c.reasons \cup {"llm-failed"}
    BY <1>1 DEF labelLlmFailure, IsVerdict, Fields
  <2> QED
    BY <1>1, <2>1 DEF ReviewsConflicts, baseLane
<1>4. Fit(c, AllSeen)
  BY <1>1, <1>2 DEF Fit, Decided
<1>5. Fit(labelled, AllSeen)
  BY <1>2, <1>3 DEF Fit, Decided
<1> QED
  BY <1>4, <1>5 DEF c

(* A model's answer is not the rules' verdict any more.                    *)
LEMMA AnswersAreFit ==
    ASSUME NEW c, IsVerdict(c), NEW given, NEW seen
    PROVE  Fit(mergeLlmClassification(c, given), seen)
<1>1. mergeLlmClassification(c, given).source = "ai" /\ IsVerdict(mergeLlmClassification(c, given))
  BY DEF mergeLlmClassification, IsVerdict, Fields
<1> QED
  BY <1>1 DEF Fit

(* Both ways a row is written keep what is known of it.                    *)
LEMMA EvaluateKeeps ==
    ASSUME NEW r, NEW n, Evaluate(r, n), RowInv, UNCHANGED <<mail, mailFrame>>
    PROVE  RowInv'
<1>1. CASE saved.source = "ai"
  <2>1. Stored
    BY <1>1 DEF Stored, NoRow
  <2>2. Fit(saved, NothingSeen)
    BY <1>1, <2>1 DEF RowInv, Fit
  <2>3. SaveUnder(r, saved, NothingSeen)
    BY <1>1 DEF Evaluate
  <2> QED
    BY <2>2, <2>3, SavedUnder
<1>2. CASE saved.source # "ai"
  <2>1. SaveUnder(r, ByRules(n), AllSeen)
    BY <1>2 DEF Evaluate
  <2> QED
    BY <2>1, RulesAreFit, SavedUnder
<1> QED
  BY <1>1, <1>2

(* and a project found anew,                                               *)
LEMMA ReclassifyKeeps ==
    ASSUME NEW n, reclassifyProjects(n), RowInv
    PROVE  RowInv'
<1> DEFINE orphan == saved.source \in {"user-corrected", "hybrid"} /\ ruling = NoRuling
           found == IF orphan THEN saved.project
                    ELSE IF "project" \in DOMAIN ruling.sets THEN ruling.sets.project
                    ELSE resolveProject(mail, n)
           reasons == IF orphan THEN saved.reasons
                      ELSE (saved.reasons \ ProjectReasons) \cup projectReasons(found, saved.state)
<1>1. /\ saved' = IF Stored THEN [saved EXCEPT !.project = found, !.review = ReviewAfter(found), !.reasons = reasons]
                  ELSE saved
      /\ UNCHANGED <<mail, mailFrame, decided>>
  BY DEF reclassifyProjects
<1>2. OutOfSight' = OutOfSight
  BY <1>1 DEF OutOfSight, OutOfUse
<1>3. saved.source = "rules" => projectReasons(found, saved.state) \subseteq reasons
  OBVIOUS
<1>4. found = "review_required" => "multiple_project_matches" \in projectReasons(found, saved.state)
  BY DEF projectReasons, ProjectReasons
<1> HIDE DEF found, reasons
<1>5. CASE ~Stored
  BY <1>1, <1>2, <1>5 DEF RowInv, Stored, ReviewsConflicts
<1>6. CASE Stored
  <2>1. DOMAIN saved = Fields /\ saved = [f \in Fields |-> saved[f]]
    BY <1>6 DEF RowInv, IsVerdict
  <2>2. /\ IsVerdict(saved') /\ saved'.source = saved.source
        /\ saved'.project = found /\ saved'.review = ReviewAfter(found) /\ saved'.reasons = reasons
    BY <1>1, <1>6, <2>1 DEF IsVerdict, Fields
  <2>3. ASSUME saved.source = "rules" PROVE ReviewsConflicts(saved')
    <3>1. saved.review # "corrected"
      BY <2>3 DEF RowInv, ReviewsConflicts
    <3>2. ReviewAfter(found) # "corrected" /\ (found = "review_required" => ReviewAfter(found) = "review_required")
      BY <3>1 DEF ReviewAfter
    <3>3. found = "review_required" => reasons # {}
      BY <1>3, <1>4, <2>3
    <3> QED
      BY <2>2, <3>2, <3>3 DEF ReviewsConflicts
  <2>4. saved.source = "rules" /\ decided.missed => OutOfSight
    BY DEF RowInv
  <2> QED
    BY <1>1, <1>2, <2>2, <2>3, <2>4 DEF RowInv, Stored
<1> QED
  BY <1>5, <1>6

(* What the database holds of a mail is a verdict with all its columns;    *)
(* one the rules wrote sends every conflict of projects to review, and it  *)
(* misses an event that asks for an answer only if the mail is out of use  *)
(* or urgent (classifyMessage, saved by evaluateOne and                    *)
(* reclassifyProjectAnalysis).                                             *)
THEOREM RulesInvariant == RulesSpec => []RowInv
<1>1. RulesInit => RowInv
  BY DEF RulesInit, RowInv, Stored, NoRow
<1>2. RowInv /\ [RulesNext]_rulesVars => RowInv'
  <2> SUFFICES ASSUME RowInv, [RulesNext]_rulesVars PROVE RowInv'
    OBVIOUS
  <2>1. CASE classifyStored
    BY <2>1, EvaluateKeeps DEF classifyStored
  <2>2. CASE createProject
    BY <2>2, EvaluateKeeps DEF createProject
  <2>3. ASSUME NEW sets \in Corrections, correct(sets) \/ applyPolicyToSimilar(sets) PROVE RowInv'
    BY <2>3, EvaluateKeeps DEF correct, applyPolicyToSimilar
  <2>4. ASSUME NEW given \in Answers, acceptLlmObservations(given) PROVE RowInv'
    <3> DEFINE merged == mergeLlmClassification(ByRules(matches), given)
    <3>1. Fit(merged, ConflictsSeen(merged))
      BY RulesAreFit, AnswersAreFit DEF Fit
    <3>2. SaveUnder(PolicyInForce, merged, ConflictsSeen(merged)) /\ UNCHANGED <<mail, mailFrame>>
      BY <2>4 DEF acceptLlmObservations
    <3> QED
      BY <3>1, <3>2, SavedUnder
  <2>5. CASE recordLlmFailures
    BY <2>5, RulesAreFit, SavedUnder DEF recordLlmFailures
  <2>6. ASSUME NEW n \in 0..2, reclassifyProjects(n) PROVE RowInv'
    BY <2>6, ReclassifyKeeps
  <2>7. CASE UNCHANGED rulesVars
    BY <2>7 DEF rulesVars, RowInv, Stored, OutOfSight, OutOfUse
  <2> QED
    BY <2>1, <2>2, <2>3, <2>4, <2>5, <2>6, <2>7 DEF RulesNext
<1> QED
  BY <1>1, <1>2, PTL DEF RulesSpec

(* A mail the rules found on several active projects is never shown in     *)
(* the archive, whichever projects were registered or imported since and   *)
(* whatever rulings came before (deriveOperationalClassification over a    *)
(* row of classifyMessage).                                                *)
THEOREM ConflictsAreReviewed == RulesSpec => []ConflictIsReviewed
<1>1. RowInv => ConflictIsReviewed
  <2> SUFFICES ASSUME RowInv, saved.source = "rules", saved.project = "review_required"
               PROVE  Shown # "archive"
    BY DEF ConflictIsReviewed
  <2>1. saved.review = "review_required" /\ saved.reasons # {}
    BY DEF RowInv, ReviewsConflicts
  <2>2. ArchiveBlocked(saved, NothingSeen)
    BY <2>1 DEF ArchiveBlocked
  <2> QED
    BY <2>2 DEF Shown, deriveOperationalClassification
<1> QED
  BY <1>1, RulesInvariant, PTL

(* No row the rules wrote archives a mail that has an event asking for an  *)
(* answer, unless the mail is out of use or its state came from urgent     *)
(* words (reconcileEvents under classifyMessage).                          *)
THEOREM AskingEventsAreKept == RulesSpec => []EventsAreKept
<1>1. RowInv => EventsAreKept
  BY DEF RowInv, EventsAreKept, OutOfSight
<1> QED
  BY <1>1, RulesInvariant, PTL

(* Exactly one event of a mail leads whenever there is any: ranks, types   *)
(* and confidence leave no two level, so the order in which the            *)
(* extractors look for them never decides (reconcileEvents by              *)
(* eventPolicyScore).                                                      *)
THEOREM NoOrderDecides == RulesSpec => []OneEventLeads
<1>1. RowInv => OneEventLeads
  <2> SUFFICES ASSUME RowInv, mailFrame.events # {} PROVE Cardinality(mailFrame.leaders) = 1
    BY DEF OneEventLeads
  <2>1. Candidates(mail, baseState(mail).state) # {}
    BY NoEventsFrame DEF RowInv
  <2> QED
    BY <2>1, OneLeads DEF RowInv
<1> QED
  BY <1>1, RulesInvariant, PTL

-----------------------------------------------------------------------------
(* A list of rules that gives a state, whichever applies.                   *)
GivesState(rules) ==
    /\ Len(rules) \in Nat /\ rules = [i \in 1..Len(rules) |-> rules[i]]
    /\ \A i \in 1..Len(rules) : rules[i].then.state \in States

(* Two lists of rules that give states give one when they are joined.      *)
LEMMA JoinedGiveState ==
    ASSUME NEW s, NEW t, GivesState(s), GivesState(t)
    PROVE  GivesState(s \o t) /\ Len(s \o t) = Len(s) + Len(t)
           /\ \A i \in 1..Len(t) : (s \o t)[Len(s) + i] = t[i]
<1> DEFINE S == {s[i] : i \in 1..Len(s)} \cup {t[i] : i \in 1..Len(t)}
           j == s \o t
<1>1. s \in Seq(S) /\ t \in Seq(S) /\ Len(s) \in Nat /\ Len(t) \in Nat
  <2>1. s \in [1..Len(s) -> S] /\ t \in [1..Len(t) -> S] /\ Len(s) \in Nat /\ Len(t) \in Nat
    BY DEF GivesState
  <2> HIDE DEF S
  <2> QED
    BY <2>1
<1>2. \A r \in S : r.then.state \in States
  BY DEF GivesState
<1> HIDE DEF S
<1>3. /\ j \in Seq(S) /\ Len(j) = Len(s) + Len(t)
      /\ \A i \in 1..Len(t) : j[Len(s) + i] = t[i]
  <2>1. /\ j \in Seq(S) /\ Len(j) = Len(s) + Len(t)
        /\ \A i \in 1..(Len(s) + Len(t)) : j[i] = IF i <= Len(s) THEN s[i] ELSE t[i - Len(s)]
    BY <1>1, ConcatProperties
  <2> HIDE DEF j
  <2>2. ASSUME NEW i \in 1..Len(t) PROVE j[Len(s) + i] = t[i]
    <3>1. Len(s) + i \in 1..(Len(s) + Len(t)) /\ ~(Len(s) + i <= Len(s)) /\ Len(s) + i - Len(s) = i
      BY <1>1
    <3> QED
      BY <2>1, <3>1
  <2> QED
    BY <2>1, <2>2
<1>4. /\ Len(j) \in Nat /\ j = [i \in 1..Len(j) |-> j[i]]
      /\ \A i \in 1..Len(j) : j[i] \in S
  <2> HIDE DEF j
  <2> QED
    BY <1>3, LenProperties, ElementOfSeq
<1> HIDE DEF j
<1>5. GivesState(j)
  BY <1>2, <1>4 DEF GivesState
<1> QED
  BY <1>3, <1>5 DEF j

(* The first rule that applies gives a state.                              *)
LEMMA FirstState ==
    ASSUME NEW rules, GivesState(rules), NEW k \in 1..Len(rules), rules[k].when
    PROVE  FirstOf(rules).state \in States
<1>1. DOMAIN rules = 1..Len(rules) /\ Len(rules) \in Nat
  BY DEF GivesState
<1>2. PICK i \in DOMAIN rules : FirstOf(rules) = rules[i].then
  BY <1>1, FirstIs
<1> QED
  BY <1>1, <1>2 DEF GivesState

(* The state by the text of a mail, and as its circumstances adjust it.    *)
LEMMA StateByText == \A m : stateAndEvidence(m).state \in States
<1> SUFFICES ASSUME NEW m PROVE stateAndEvidence(m).state \in States
  OBVIOUS
<1> DEFINE rules ==
    <<Rule(NoText(m), Review(20, "empty_current_content")),
      Rule(Has(m, "decisionAsked"), Verdict("decision_required", 94, {})),
      Rule(Requested(m) /\ Has(m, "contradicted"), Review(48, "request_no_action_conflict")),
      Rule(Requested(m), Action(94)),
      Rule(Has(m, "waitingSaid"), Waiting(90)),
      Rule(Has(m, "completedSaid"), Completed(91)),
      Rule(Has(m, "noAction"), Reference(94)),
      Rule(Has(m, "commitment"), Waiting(84)),
      Rule(TRUE, Review(40, "insufficient_action_evidence"))>>
<1>1. Len(rules) = 9 /\ rules = [i \in 1..9 |-> rules[i]]
  OBVIOUS
<1>2. \A i \in 1..9 : rules[i].then.state \in States
  BY DEF Rule, Review, Action, Waiting, Completed, Reference, Verdict, States
<1>3. rules[9].when
  BY DEF Rule
<1>4. stateAndEvidence(m) = FirstOf(rules)
  BY DEF stateAndEvidence
<1> HIDE DEF rules
<1>5. GivesState(rules) /\ 9 \in 1..Len(rules)
  BY <1>1, <1>2 DEF GivesState
<1> QED
  BY <1>3, <1>4, <1>5, FirstState

(* So the state the rules begin with is one,                               *)
LEMMA BaseState == \A m : baseState(m).state \in States
  BY StateByText DEF baseState, Reference, Verdict, States

(* and stays one when the circumstances of the mail adjust it.             *)
LEMMA AdjustedState == \A m, base : base.state \in States => adjustedStateForMessage(m, base).state \in States
<1> SUFFICES ASSUME NEW m, NEW base, base.state \in States PROVE adjustedStateForMessage(m, base).state \in States
  OBVIOUS
<1> DEFINE a == LifecycleRules(m)
           b == NoticeRules(m, base)
           c == PeopleRules(m, base)
           d == <<Rule(TRUE, base)>>
<1>1. GivesState(a)
  <2>1. Len(a) = 5 /\ a = [i \in 1..5 |-> a[i]]
    BY DEF LifecycleRules
  <2>2. \A i \in 1..5 : a[i].then.state \in States
    BY DEF LifecycleRules, Rule, Review, Reference, Verdict, States
  <2> HIDE DEF a
  <2> QED
    BY <2>1, <2>2 DEF GivesState
<1>2. GivesState(b)
  <2>1. Len(b) = 14 /\ b = [i \in 1..14 |-> b[i]]
    BY DEF NoticeRules
  <2>2. \A i \in 1..14 : b[i].then.state \in States
    BY DEF NoticeRules, Rule, Review, Action, Waiting, Completed, Reference, Verdict, States
  <2> HIDE DEF b
  <2> QED
    BY <2>1, <2>2 DEF GivesState
<1>3. GivesState(c)
  <2>1. Len(c) = 15 /\ c = [i \in 1..15 |-> c[i]]
    BY DEF PeopleRules
  <2>2. \A i \in 1..15 : c[i].then.state \in States
    BY DEF PeopleRules, Rule, Review, Action, Waiting, Completed, Reference, Verdict, States
  <2> HIDE DEF c
  <2> QED
    BY <2>1, <2>2 DEF GivesState
<1>4. GivesState(d) /\ Len(d) = 1 /\ d[1].when
  <2>1. Len(d) = 1 /\ d = [i \in 1..1 |-> d[i]]
    OBVIOUS
  <2>2. d[1].when /\ d[1].then.state \in States
    BY DEF Rule
  <2> HIDE DEF d
  <2>3. Len(d) \in Nat /\ d = [i \in 1..Len(d) |-> d[i]]
    BY <2>1
  <2>4. ASSUME NEW i \in 1..Len(d) PROVE d[i].then.state \in States
    <3>1. i = 1
      BY <2>1
    <3> QED
      BY <2>2, <3>1
  <2>5. GivesState(d)
    BY <2>3, <2>4 DEF GivesState
  <2> QED
    BY <2>1, <2>2, <2>5
<1>5. adjustedStateForMessage(m, base) = FirstOf(a \o b \o c \o d)
  BY DEF adjustedStateForMessage
<1> HIDE DEF a, b, c, d
<1>6. GivesState(a \o b)
  BY <1>1, <1>2, JoinedGiveState
<1>7. GivesState(a \o b \o c)
  BY <1>3, <1>6, JoinedGiveState
<1> DEFINE all == a \o b \o c \o d
           k == Len(a \o b \o c) + 1
<1>8. GivesState(all) /\ Len(all) = Len(a \o b \o c) + 1 /\ all[k] = d[1]
  <2>1. 1 \in 1..Len(d)
    BY <1>4
  <2> DEFINE s == a \o b \o c
  <2>2. GivesState(s)
    BY <1>7
  <2> HIDE DEF s
  <2>3. /\ GivesState(s \o d) /\ Len(s \o d) = Len(s) + Len(d)
        /\ \A i \in 1..Len(d) : (s \o d)[Len(s) + i] = d[i]
    <3>1. GivesState(d)
      BY <1>4
    <3> QED
      BY <2>2, <3>1, JoinedGiveState
  <2>4. Len(s \o d) = Len(s) + 1 /\ (s \o d)[Len(s) + 1] = d[1]
    BY <1>4, <2>1, <2>3
  <2> QED
    BY <2>3, <2>4 DEF s
<1>9. k \in 1..Len(all)
  <2>1. Len(a \o b \o c) \in Nat
    BY <1>7 DEF GivesState
  <2> QED
    BY <1>8, <2>1
<1> HIDE DEF all, k
<1> QED
  BY <1>4, <1>5, <1>8, <1>9, FirstState DEF all

(* Who is to act, and how soon, as the rules say it.                        *)
LEMMA WaitingForIs == \A m : WaitingFor(m).who \in Doers
<1> SUFFICES ASSUME NEW m PROVE WaitingFor(m).who \in Doers
  OBVIOUS
<1> DEFINE rules ==
    <<Rule(DraftLike(m) /\ (Invited(m) \/ Has(m, "queuedRequest")), Actor("external_party", 90)),
      Rule(Has(m, "ticketScheduled"), Actor("external_party", 91)),
      Rule(Outgoing(m), Actor("external_party", 96)),
      Rule(Has(m, "externalNamed"), Actor("external_party", 92)),
      Rule(Has(m, "internalNamed"), Actor("internal_team", 90)),
      Rule(Has(m, "commitment"), Actor("external_party", 88)),
      Rule(TRUE, Actor("unknown", 45))>>
<1>1. DOMAIN rules = 1..7
  OBVIOUS
<1>2. \A i \in 1..7 : rules[i].then.who \in Doers
  BY DEF Rule, Actor, Doers
<1>3. rules[7].when
  BY DEF Rule
<1>4. WaitingFor(m) = FirstOf(rules)
  BY DEF WaitingFor
<1> HIDE DEF rules
<1>5. PICK i \in 1..7 : FirstOf(rules) = rules[i].then
  BY <1>1, <1>3, FirstIs
<1> QED
  BY <1>2, <1>4, <1>5

(* The actor of a state,                                                   *)
LEMMA ActorIs == \A m, state : actorAndEvidence(m, state).who \in Doers
<1> SUFFICES ASSUME NEW m, NEW state PROVE actorAndEvidence(m, state).who \in Doers
  OBVIOUS
<1> DEFINE rules ==
    <<Rule(state \in {"reference", "completed"}, Actor("none", 98)),
      Rule(Has(m, "sharedWork"), Actor("shared", 82)),
      Rule(state = "decision_required", Actor("me", 93)),
      Rule(Has(m, "ownerNamed"), Actor("internal_team", 82)),
      Rule(state = "waiting", WaitingFor(m)),
      Rule(state = "action_required" /\ Outgoing(m), Actor("external_party", 86)),
      Rule(state = "action_required" /\ Has(m, "internalNamed") /\ ~Has(m, "externalNamed"),
           Actor("internal_team", 82)),
      Rule(state = "action_required", Actor("me", 85)),
      Rule(TRUE, Actor("unknown", 35))>>
<1>1. DOMAIN rules = 1..9
  OBVIOUS
<1>2. \A i \in 1..9 : rules[i].then.who \in Doers
  BY WaitingForIs DEF Rule, Actor, Doers
<1>3. rules[9].when
  BY DEF Rule
<1>4. actorAndEvidence(m, state) = FirstOf(rules)
  BY DEF actorAndEvidence
<1> HIDE DEF rules
<1>5. PICK i \in 1..9 : FirstOf(rules) = rules[i].then
  BY <1>1, <1>3, FirstIs
<1> QED
  BY <1>2, <1>4, <1>5

(* and the priority.                                                       *)
LEMMA PriorityIs == \A m, state, due : priorityAndEvidence(m, state, due) \in Urgencies
<1> SUFFICES ASSUME NEW m, NEW state, NEW due PROVE priorityAndEvidence(m, state, due) \in Urgencies
  OBVIOUS
<1> DEFINE urgent == Has(m, "urgent")
           soon(days) == urgent \/ due.days \in 0..days
           low == IF state = "completed" THEN HasAny(m, {"operationDone", "signedByRobot"}) ELSE LowReference(m)
           rules ==
    <<Rule(state \in {"completed", "reference"}, IF low THEN "low" ELSE "normal"),
      Rule({"urgent", "incident"} \subseteq m, "critical"),
      Rule(state = "waiting", IF soon(1) THEN "high" ELSE "normal"),
      Rule(state = "review_required", IF urgent \/ Has(m, "securityCode") THEN "high" ELSE "normal"),
      Rule(TRUE, IF soon(2) \/ Has(m, "remoteSupport") THEN "high" ELSE "normal")>>
<1>1. DOMAIN rules = 1..5
  OBVIOUS
<1>2. \A i \in 1..5 : rules[i].then \in Urgencies
  BY DEF Rule, Urgencies
<1>3. rules[5].when
  BY DEF Rule
<1>4. priorityAndEvidence(m, state, due) = FirstOf(rules)
  BY DEF priorityAndEvidence
<1> HIDE DEF rules
<1>5. PICK i \in 1..5 : FirstOf(rules) = rules[i].then
  BY <1>1, <1>3, FirstIs
<1> QED
  BY <1>2, <1>4, <1>5

-----------------------------------------------------------------------------
(* What an event says is of these values.                                   *)
Sensible(e) ==
    /\ e.decision.state \in States
    /\ e.decision.actor \in Doers \cup {"unset"}
    /\ e.decision.priority \in Urgencies \cup {"unset"}

(* The values the events give, extractor by extractor.                     *)
LEMMA GeneralSensible == \A m : \A e \in GeneralEvents(m) : Sensible(e)
  BY DEF GeneralEvents, Sensible, Event, Mine, Theirs, Noted, Settled, Unclear, Decision, States, Doers, Urgencies
LEMMA SupportSensible == \A m : \A e \in SupportEvents(m) : Sensible(e)
  BY DEF SupportEvents, Sensible, Event, Mine, Theirs, Noted, Settled, Unclear, Decision, States, Doers, Urgencies
LEMMA InboundSensible == \A m, base : \A e \in InboundEvents(m, base) : Sensible(e)
  BY DEF InboundEvents, Sensible, Event, Mine, Theirs, Noted, Settled, Unclear, Decision, States, Doers, Urgencies
LEMMA NoticeSensible == \A m : \A e \in NoticeEvents(m) : Sensible(e)
  BY DEF NoticeEvents, Sensible, Event, Mine, Theirs, Noted, Settled, Unclear, Decision, States, Doers, Urgencies
LEMMA OutgoingSensible == \A m : \A e \in OutgoingEvent(m) : Sensible(e)
  BY DEF OutgoingEvent, Sensible, Event, Mine, Theirs, Noted, Settled, Unclear, Decision, States, Doers, Urgencies
LEMMA AdvertisingSensible == \A m : Sensible(Advertising(m))
  BY DEF Advertising, Sensible, Event, Noted, Decision, States, Doers, Urgencies
LEMMA UrgentSensible == \A m, base : \A e \in UrgencyEvent(m, base) : e.when => Sensible(e)
<1> SUFFICES ASSUME NEW m, NEW base, NEW e \in UrgencyEvent(m, base), e.when PROVE Sensible(e)
  OBVIOUS
<1> DEFINE when == Has(m, "currentUrgency") /\ base \in {"action_required", "decision_required", "waiting"}
           priority == IF Has(m, "criticalIncident") THEN "critical" ELSE "high"
<1>1. e = Event(when, "current_action_urgency", 100, 92, Decision(base, "unset", priority))
  BY DEF UrgencyEvent
<1>2. priority \in Urgencies
  BY DEF Urgencies
<1> HIDE DEF priority
<1>3. e.when = when
  <2> HIDE DEF when
  <2> QED
    BY <1>1 DEF Event
<1>4. base \in States
  BY <1>3 DEF States
<1> QED
  BY <1>1, <1>2, <1>4 DEF Sensible, Event, Decision

(* Hence the values of every candidate.                                    *)
LEMMA CandidatesSensible == \A m, base : \A e \in Candidates(m, base) : Sensible(e)
  BY CandidateOf, GeneralSensible, SupportSensible, InboundSensible, NoticeSensible, OutgoingSensible,
     AdvertisingSensible, UrgentSensible

-----------------------------------------------------------------------------
Typed(c) ==
    /\ c.state \in States /\ c.actor \in Doers /\ c.priority \in Urgencies /\ c.project \in Resolutions
    /\ c.source \in {"rules", "ai", "hybrid", "user-corrected"}
    /\ c.review \in {"auto", "review_required", "corrected"}

(* The project is resolved in one of the known ways.                       *)
LEMMA ResolutionIs == \A m, n : resolveProject(m, n) \in Resolutions
  BY DEF resolveProject, Resolutions

(* The state selected, and the decision and events of a frame, are typed.  *)
LEMMA SelectedIs ==
    ASSUME NEW m, NEW base, NEW frame, frame = MailEventFrame(m, base)
    PROVE  /\ SelectedState(m, baseState(m), frame).state \in States
           /\ frame.decision # NoDecision => Sensible(frame.decision)
           /\ \A e \in frame.events : Sensible(e)
<1>1. \A e \in frame.events : Sensible(e)
  BY NoEventsFrame, FrameIs, CandidatesSensible
<1>2. frame.decision # NoDecision => Sensible(frame.decision)
  <2>1. CASE Candidates(m, base) = {}
    BY <2>1 DEF MailEventFrame, FrameOf
  <2>2. CASE Candidates(m, base) # {}
    BY <2>2, FrameIs, CandidatesSensible
  <2> QED
    BY <2>1, <2>2
<1>3. SelectedState(m, baseState(m), frame).state \in States
  <2>1. CASE automaticDirective(m)
    BY <2>1 DEF SelectedState, Action, Verdict, States
  <2>2. CASE ~automaticDirective(m) /\ ~(LifecycleFolder(m) \/ DraftLike(m)) /\ frame.decision # NoDecision
    BY <1>2, <2>2 DEF SelectedState, Verdict, Sensible
  <2>3. CASE ~automaticDirective(m) /\ ~(~(LifecycleFolder(m) \/ DraftLike(m)) /\ frame.decision # NoDecision)
    <3>1. SelectedState(m, baseState(m), frame) = adjustedStateForMessage(m, baseState(m))
      BY <2>3 DEF SelectedState
    <3> QED
      BY <3>1, BaseState, AdjustedState
  <2> QED
    BY <2>1, <2>2, <2>3
<1> QED
  BY <1>1, <1>2, <1>3

(* A verdict of the rules is typed.                                        *)
LEMMA RulesAreTyped ==
    ASSUME NEW m, NEW n, NEW base, NEW frame, frame = MailEventFrame(m, base)
    PROVE  Typed(classifyMessage(m, n, frame))
<1> DEFINE chosen == SelectedState(m, baseState(m), frame)
           actor == ActorBy(m, frame, chosen)
           due == DueBy(m, chosen.state)
           project == resolveProject(m, n)
           c == VerdictOn(m, frame, chosen, actor, due, project)
<1>1. chosen.state \in States
  BY SelectedIs
<1>2. EventDecides(m, frame) => Sensible(frame.decision)
  BY SelectedIs DEF EventDecides
<1>3. actor.who \in Doers
  BY <1>2, ActorIs DEF ActorBy, Actor, Sensible
<1>4. PriorityBy(m, frame, chosen, due) \in Urgencies
  <2>1. EventDecides(m, frame) => EventPriority(frame) \in Urgencies \cup {"unset"}
    <3> DEFINE urgent == {e \in frame.events : e.type \in UrgencyEvents
                            /\ e.decision.state = frame.decision.decision.state}
    <3>1. CASE urgent = {}
      BY <1>2, <3>1 DEF EventPriority, Sensible
    <3>2. CASE urgent # {}
      <4>1. (CHOOSE e \in urgent : TRUE) \in urgent
        BY <3>2
      <4>2. Sensible(CHOOSE e \in urgent : TRUE)
        BY <4>1, SelectedIs
      <4>3. EventPriority(frame) = (CHOOSE e \in urgent : TRUE).decision.priority
        BY <3>2 DEF EventPriority
      <4> QED
        BY <4>2, <4>3 DEF Sensible
    <3> QED
      BY <3>1, <3>2
  <2> HIDE DEF chosen, due
  <2> QED
    BY <2>1, PriorityIs DEF PriorityBy
<1>5. project \in Resolutions
  BY ResolutionIs
<1>6. classifyMessage(m, n, frame) = c
  BY DEF classifyMessage, VerdictFor
<1> HIDE DEF chosen, actor, due, project
<1>7. c.state \in States /\ c.actor \in Doers /\ c.priority \in Urgencies /\ c.project \in Resolutions
      /\ c.source = "rules" /\ c.review \in {"auto", "review_required"}
  BY <1>1, <1>3, <1>4, <1>5 DEF VerdictOn, States, Doers
<1> QED
  BY <1>6, <1>7 DEF Typed

(* A verdict with all its columns, each of its values, and what may be set.  *)
Sound(c) == IsVerdict(c) /\ Typed(c)
MaySet == Corrections \cup {NoRuling.sets}

(* What may be set is of the values of its field.                           *)
LEMMA SettingsAreTyped ==
    ASSUME NEW sets \in MaySet
    PROVE  /\ "state" \in DOMAIN sets => sets.state \in States
           /\ "actor" \in DOMAIN sets => sets.actor \in Doers
           /\ "priority" \in DOMAIN sets => sets.priority \in Urgencies
           /\ "project" \in DOMAIN sets => sets.project \in Resolutions
<1>1. CASE sets \in Corrections
  BY <1>1, RulingsAssumption
<1>2. CASE sets = NoRuling.sets
  <2>1. sets = <<>>
    BY <1>2 DEF NoRuling
  <2>2. DOMAIN sets = {}
    BY <2>1
  <2> QED
    BY <2>2
<1> QED
  BY <1>1, <1>2 DEF MaySet

(* Setting fields keeps a verdict one, for a person and for a policy.       *)
LEMMA CorrectedIsSound ==
    ASSUME NEW c, Sound(c), NEW sets \in MaySet
    PROVE  Sound(applyPrecisionCorrection(c, sets)) /\ Sound(applyLearnedPolicy(c, sets))
<1> DEFINE next == Override(c, sets)
           corrected == applyPrecisionCorrection(c, sets)
           learned == applyLearnedPolicy(c, sets)
<1>1. DOMAIN c = Fields
  BY DEF Sound, IsVerdict
<1>2. /\ IsVerdict(next)
      /\ \A f \in Fields : next[f] = IF f \in DOMAIN sets THEN sets[f] ELSE c[f]
  BY <1>1 DEF Override, IsVerdict
<1>3. next.state \in States /\ next.actor \in Doers /\ next.priority \in Urgencies /\ next.project \in Resolutions
  <2> HIDE DEF next
  <2>1. {"state", "actor", "priority", "project"} \subseteq Fields
    BY DEF Fields
  <2> QED
    BY <1>2, <2>1, SettingsAreTyped DEF Sound, Typed
<1>4. /\ IsVerdict(corrected)
      /\ corrected.state = next.state /\ corrected.actor \in {"none", next.actor}
      /\ corrected.priority = next.priority /\ corrected.project = next.project
      /\ corrected.source = "user-corrected" /\ corrected.review = "corrected"
  <2> HIDE DEF next
  <2> QED
    BY <1>2 DEF applyPrecisionCorrection, next, IsVerdict, Fields
<1>5. Sound(corrected)
  BY <1>3, <1>4 DEF Sound, Typed, Doers
<1>6. /\ IsVerdict(learned)
      /\ learned.state = corrected.state /\ learned.actor = corrected.actor
      /\ learned.priority = corrected.priority /\ learned.project = corrected.project
      /\ learned.source = "hybrid" /\ learned.review = "auto"
  <2> HIDE DEF corrected
  <2> QED
    BY <1>4 DEF applyLearnedPolicy, corrected, IsVerdict, Fields
<1>7. Sound(learned)
  BY <1>5, <1>6 DEF Sound, Typed
<1> QED
  BY <1>5, <1>7

(* So does a model's answer, or the note that it gave none.                 *)
LEMMA AnsweredIsSound ==
    ASSUME NEW c, Sound(c), NEW given \in Answers
    PROVE  Sound(mergeLlmClassification(c, given))
<1> DEFINE merged == mergeLlmClassification(c, given)
<1>1. /\ IsVerdict(merged)
      /\ merged.state = given.state /\ merged.actor \in {"none", given.actor}
      /\ merged.priority = given.priority /\ merged.project = c.project
      /\ merged.source = "ai" /\ merged.review \in {"auto", "review_required"}
  BY DEF mergeLlmClassification, Sound, IsVerdict, Fields
<1>2. given.state \in States /\ given.actor \in Doers /\ given.priority \in Urgencies
  BY RulingsAssumption
<1>3. c.project \in Resolutions
  BY DEF Sound, Typed
<1> HIDE DEF merged
<1>4. Sound(merged)
  BY <1>1, <1>2, <1>3 DEF Sound, Typed, Doers
<1> QED
  BY <1>4 DEF merged

(* A note that the model failed keeps a verdict sound.                     *)
LEMMA LabelledIsSound == \A c : Sound(c) => Sound(labelLlmFailure(c))
<1> SUFFICES ASSUME NEW c, Sound(c) PROVE Sound(labelLlmFailure(c))
  OBVIOUS
<1> DEFINE labelled == labelLlmFailure(c)
<1>1. /\ IsVerdict(labelled)
      /\ labelled.state = c.state /\ labelled.actor = c.actor /\ labelled.priority = c.priority
      /\ labelled.project = c.project /\ labelled.source = c.source /\ labelled.review = c.review
  BY DEF labelLlmFailure, Sound, IsVerdict, Fields
<1> QED
  BY <1>1 DEF Sound, Typed

(* What is written is a verdict again, under whatever ruling.               *)
LEMMA WrittenIsSound ==
    ASSUME NEW r, r.sets \in MaySet, NEW c, Sound(c), NEW seen, SaveUnder(r, c, seen)
    PROVE  Typed(saved')
<1>1. ASSUME NEW d, Sound(d), NEW s, SaveVerdict(d, s) PROVE Typed(saved')
  <2>1. DOMAIN d = Fields
    BY <1>1 DEF Sound, IsVerdict
  <2>2. saved' = [d EXCEPT !.conflicts = {}]
    BY <1>1 DEF SaveVerdict
  <2>3. /\ saved'.state = d.state /\ saved'.actor = d.actor /\ saved'.priority = d.priority
        /\ saved'.project = d.project /\ saved'.source = d.source /\ saved'.review = d.review
    BY <2>1, <2>2 DEF Fields
  <2> QED
    BY <1>1, <2>3 DEF Sound, Typed
<1>2. CASE r.by = "person"
  BY <1>1, <1>2, CorrectedIsSound DEF SaveUnder
<1>3. CASE r.by = "policy"
  BY <1>1, <1>3, CorrectedIsSound DEF SaveUnder
<1>4. CASE r.by # "person" /\ r.by # "policy"
  BY <1>1, <1>4 DEF SaveUnder
<1> QED
  BY <1>2, <1>3, <1>4

-----------------------------------------------------------------------------
(* The types, with what keeps them: who rules, and what they may set.       *)
RulesTypes ==
    /\ matches \in 0..2
    /\ ruling.by \in {"nobody", "person", "policy"}
    /\ ruling.sets \in MaySet
    /\ Stored => Typed(saved)

(* The verdicts of the three ways to write a row are sound.                *)
LEMMA ByRulesIsSound ==
    ASSUME RowInv, NEW n
    PROVE  Sound(ByRules(n))
<1>1. IsVerdict(ByRules(n))
  BY RulesReviewConflicts DEF ByRules
<1>2. Typed(ByRules(n))
  BY RulesAreTyped DEF ByRules, RowInv
<1> QED
  BY <1>1, <1>2 DEF Sound

(* An evaluation writes the values of the columns,                         *)
LEMMA EvaluatedIsSound ==
    ASSUME RowInv, RulesTypes, NEW r, r.sets \in MaySet, NEW n, Evaluate(r, n)
    PROVE  Typed(saved')
<1>1. CASE saved.source = "ai"
  <2>1. Stored
    BY <1>1 DEF Stored, NoRow
  <2>2. Sound(saved)
    BY <2>1 DEF RowInv, RulesTypes, Sound
  <2> QED
    BY <1>1, <2>2, WrittenIsSound DEF Evaluate
<1>2. CASE saved.source # "ai"
  BY <1>2, ByRulesIsSound, WrittenIsSound DEF Evaluate
<1> QED
  BY <1>1, <1>2

(* and so does a project found anew.                                       *)
LEMMA ReclassifiedIsSound ==
    ASSUME RowInv, RulesTypes, NEW n, reclassifyProjects(n)
    PROVE  (Stored => Typed(saved')) /\ (~Stored => saved' = saved)
<1> DEFINE orphan == saved.source \in {"user-corrected", "hybrid"} /\ ruling = NoRuling
           found == IF orphan THEN saved.project
                    ELSE IF "project" \in DOMAIN ruling.sets THEN ruling.sets.project
                    ELSE resolveProject(mail, n)
           reasons == IF orphan THEN saved.reasons
                      ELSE (saved.reasons \ ProjectReasons) \cup projectReasons(found, saved.state)
<1>1. saved' = IF Stored THEN [saved EXCEPT !.project = found, !.review = ReviewAfter(found), !.reasons = reasons]
               ELSE saved
  BY DEF reclassifyProjects
<1>2. CASE ~Stored
  BY <1>1, <1>2
<1>3. CASE Stored
  <2>1. DOMAIN saved = Fields /\ Typed(saved)
    BY <1>3 DEF RowInv, IsVerdict, RulesTypes
  <2>2. found \in Resolutions
    <3>1. saved.project \in Resolutions
      BY <2>1 DEF Typed
    <3>2. "project" \in DOMAIN ruling.sets => ruling.sets.project \in Resolutions
      BY SettingsAreTyped DEF RulesTypes
    <3> QED
      BY <3>1, <3>2, ResolutionIs
  <2>3. ReviewAfter(found) \in {"auto", "review_required", "corrected"}
    BY <2>1 DEF ReviewAfter, Typed
  <2> HIDE DEF found, reasons
  <2>4. /\ saved'.state = saved.state /\ saved'.actor = saved.actor /\ saved'.priority = saved.priority
        /\ saved'.project = found /\ saved'.source = saved.source /\ saved'.review = ReviewAfter(found)
    BY <1>1, <1>3, <2>1 DEF Fields
  <2> QED
    BY <1>3, <2>1, <2>2, <2>3, <2>4 DEF Typed
<1> QED
  BY <1>2, <1>3

(* Type correctness of the classification: every verdict saved has the     *)
(* values of its columns, also after corrections, learned policies and     *)
(* answers of a model.                                                     *)
THEOREM RulesTypeCorrect == RulesSpec => []RulesTypeOK
<1>1. RulesInit => RulesTypes
  BY DEF RulesInit, RulesTypes, MaySet, Stored, NoRuling
<1>2. RowInv /\ RulesTypes /\ [RulesNext]_rulesVars => RulesTypes'
  <2> SUFFICES ASSUME RowInv, RulesTypes, [RulesNext]_rulesVars PROVE RulesTypes'
    OBVIOUS
  <2>1. CASE classifyStored
    <3>1. Typed(saved')
      BY <2>1, EvaluatedIsSound DEF classifyStored, RulesTypes
    <3>2. UNCHANGED <<matches, ruling>>
      BY <2>1 DEF classifyStored
    <3> QED
      BY <3>1, <3>2 DEF RulesTypes, Typed
  <2>2. CASE createProject
    <3>1. Evaluate(ruling, matches') /\ matches' = matches + 1 /\ matches < 2 /\ ruling' = ruling
      BY <2>2 DEF createProject
    <3>2. Typed(saved')
      BY <3>1, EvaluatedIsSound DEF RulesTypes
    <3>3. matches' \in 0..2
      BY <3>1 DEF RulesTypes
    <3> QED
      BY <3>1, <3>2, <3>3 DEF RulesTypes, Typed
  <2>3. ASSUME NEW sets \in Corrections, correct(sets) \/ applyPolicyToSimilar(sets) PROVE RulesTypes'
    <3>1. /\ ruling' = [by |-> "person", sets |-> sets] \/ ruling' = [by |-> "policy", sets |-> sets]
          /\ Evaluate(ruling', matches) /\ matches' = matches
      BY <2>3 DEF correct, applyPolicyToSimilar
    <3>2. ruling'.sets \in MaySet /\ ruling'.by \in {"nobody", "person", "policy"}
      BY <3>1 DEF MaySet
    <3>3. Typed(saved')
      BY <3>1, <3>2, EvaluatedIsSound
    <3> QED
      BY <3>1, <3>2, <3>3 DEF RulesTypes, Typed, MaySet
  <2>4. ASSUME NEW given \in Answers, acceptLlmObservations(given) PROVE RulesTypes'
    <3> DEFINE merged == mergeLlmClassification(ByRules(matches), given)
    <3>1. Sound(merged)
      BY ByRulesIsSound, AnsweredIsSound
    <3>2. PolicyInForce.sets \in MaySet
      BY DEF PolicyInForce, RulesTypes, MaySet
    <3>3. SaveUnder(PolicyInForce, merged, ConflictsSeen(merged)) /\ UNCHANGED <<matches, ruling>>
      BY <2>4 DEF acceptLlmObservations
    <3>4. Typed(saved')
      BY <3>1, <3>2, <3>3, WrittenIsSound
    <3> QED
      BY <3>3, <3>4 DEF RulesTypes, Typed
  <2>5. CASE recordLlmFailures
    <3>1. Sound(labelLlmFailure(ByRules(matches)))
      BY ByRulesIsSound, LabelledIsSound
    <3>2. PolicyInForce.sets \in MaySet
      BY DEF PolicyInForce, RulesTypes, MaySet
    <3>3. SaveUnder(PolicyInForce, labelLlmFailure(ByRules(matches)), AllSeen) /\ UNCHANGED <<matches, ruling>>
      BY <2>5 DEF recordLlmFailures
    <3>4. Typed(saved')
      BY <3>1, <3>2, <3>3, WrittenIsSound
    <3> QED
      BY <3>3, <3>4 DEF RulesTypes, Typed
  <2>6. ASSUME NEW n \in 0..2, reclassifyProjects(n) PROVE RulesTypes'
    <3>1. matches' = n /\ ruling' = ruling
      BY <2>6 DEF reclassifyProjects
    <3>2. (Stored => Typed(saved')) /\ (~Stored => saved' = saved)
      BY <2>6, ReclassifiedIsSound
    <3> QED
      BY <3>1, <3>2 DEF RulesTypes, Typed, Stored
  <2>7. CASE UNCHANGED rulesVars
    BY <2>7 DEF rulesVars, RulesTypes, Stored, Typed
  <2> QED
    BY <2>1, <2>2, <2>3, <2>4, <2>5, <2>6, <2>7 DEF RulesNext
<1>3. Shown \in {"do_now", "waiting", "review", "archive"}
  BY DEF Shown, deriveOperationalClassification, baseLane
<1>4. RulesTypes => RulesTypeOK
  BY <1>3 DEF RulesTypes, RulesTypeOK, Typed
<1> QED
  BY <1>1, <1>2, <1>4, RulesInvariant, PTL DEF RulesSpec

-----------------------------------------------------------------------------
(* What a mail is ordered by: eleven numbers.                               *)
Keys == [1..11 -> Int]

(* Two such are ordered by the first in which they differ.                  *)
LEMMA LessIsTotal ==
    ASSUME NEW x \in Keys, NEW y \in Keys, x # y
    PROVE  Less(x, y) \/ Less(y, x)
<1> DEFINE differ == {i \in 1..11 : x[i] # y[i]}
<1>1. differ \in SUBSET Nat /\ differ # {}
  BY DEF Keys
<1>2. PICK i \in differ : \A j \in differ : ~(j < i)
  <2> HIDE DEF differ
  <2> QED
    BY <1>1, Least
<1>3. \A j \in 1..(i - 1) : x[j] = y[j]
  <2> SUFFICES ASSUME NEW j \in 1..(i - 1) PROVE x[j] = y[j]
    OBVIOUS
  <2>1. j \in 1..11 /\ j < i
    BY <1>2
  <2> QED
    BY <1>2, <2>1
<1>4. DOMAIN x = 1..11 /\ DOMAIN y = 1..11 /\ x[i] \in Int /\ y[i] \in Int /\ x[i] # y[i] /\ i \in 1..11
  BY <1>2 DEF Keys
<1>5. x[i] < y[i] \/ y[i] < x[i]
  BY <1>4
<1> QED
  BY <1>3, <1>4, <1>5 DEF Less

(* The order of keys is strict,                                            *)
LEMMA LessOneWay ==
    ASSUME NEW x \in Keys, NEW y \in Keys, Less(x, y)
    PROVE  ~Less(y, x)
<1> SUFFICES ASSUME Less(y, x) PROVE FALSE
  OBVIOUS
<1>1. PICK i \in 1..11 : x[i] < y[i] /\ \A j \in 1..(i - 1) : x[j] = y[j]
  BY DEF Less, Keys
<1>2. PICK k \in 1..11 : y[k] < x[k] /\ \A j \in 1..(k - 1) : y[j] = x[j]
  BY DEF Less, Keys
<1>3. x[i] \in Int /\ y[i] \in Int /\ x[k] \in Int /\ y[k] \in Int
  BY DEF Keys
<1>4. CASE i < k
  <2>1. i \in 1..(k - 1)
    BY <1>4
  <2> QED
    BY <1>1, <1>2, <1>3, <2>1
<1>5. CASE k < i
  <2>1. k \in 1..(i - 1)
    BY <1>5
  <2> QED
    BY <1>1, <1>2, <1>3, <2>1
<1>6. CASE k = i
  BY <1>1, <1>2, <1>3, <1>6
<1> QED
  BY <1>4, <1>5, <1>6

(* and transitive.                                                         *)
LEMMA LessIsTransitive ==
    ASSUME NEW x \in Keys, NEW y \in Keys, NEW z \in Keys, Less(x, y), Less(y, z)
    PROVE  Less(x, z)
<1>1. PICK i \in 1..11 : x[i] < y[i] /\ \A j \in 1..(i - 1) : x[j] = y[j]
  BY DEF Less, Keys
<1>2. PICK k \in 1..11 : y[k] < z[k] /\ \A j \in 1..(k - 1) : y[j] = z[j]
  BY DEF Less, Keys
<1>3. DOMAIN x = 1..11 /\ \A n \in 1..11 : x[n] \in Int /\ y[n] \in Int /\ z[n] \in Int
  BY DEF Keys
<1> DEFINE first == IF i < k THEN i ELSE k
<1>4. first \in 1..11 /\ first <= i /\ first <= k
  OBVIOUS
<1>5. x[first] < z[first]
  <2>1. CASE i < k
    <3>1. i \in 1..(k - 1)
      BY <2>1
    <3>2. y[i] = z[i]
      BY <1>2, <3>1
    <3> QED
      BY <1>1, <2>1, <3>2
  <2>2. CASE k < i
    <3>1. k \in 1..(i - 1)
      BY <2>2
    <3>2. x[k] = y[k]
      BY <1>1, <3>1
    <3> QED
      BY <1>2, <2>2, <3>2
  <2>3. CASE k = i
    BY <1>1, <1>2, <1>3, <2>3
  <2> QED
    BY <2>1, <2>2, <2>3
<1> HIDE DEF first
<1>6. ASSUME NEW j \in 1..(first - 1) PROVE x[j] = z[j]
  <2>1. j \in 1..(i - 1) /\ j \in 1..(k - 1)
    BY <1>4
  <2> QED
    BY <1>1, <1>2, <2>1
<1> QED
  BY <1>3, <1>4, <1>5, <1>6 DEF Less

-----------------------------------------------------------------------------
(* The key of a mail.                                                       *)
Numbered(m) == m.received \in Int /\ m.relevance \in Int /\ m.due \in Int

(* The place of a value in a list is a number.                             *)
LEMMA PlacesAre ==
    ASSUME NEW value, NEW order, Len(order) \in Nat
    PROVE  PlaceIn(value, order) \in Int
<1>1. CASE \E i \in 1..Len(order) : order[i] = value
  <2>1. (CHOOSE i \in 1..Len(order) : order[i] = value) \in 1..Len(order)
    BY <1>1
  <2> QED
    BY <1>1, <2>1 DEF PlaceIn
<1>2. CASE ~ \E i \in 1..Len(order) : order[i] = value
  BY <1>2 DEF PlaceIn
<1> QED
  BY <1>1, <1>2

(* The key of a mail: unadvertised first, and the row of the database      *)
(* last.                                                                   *)
LEMMA KeysAre ==
    ASSUME NEW q, NEW m, Numbered(m)
    PROVE  /\ RankKey(q, m) \in Keys /\ RankKey(q, m)[11] = 0 - m.received
           /\ RankKey(q, m)[1] = Yes(Unadvertised(m))
           /\ Chronological(q) => RankKey(q, m)[2] = 0 - m.received
<1> DEFINE a == Yes(Unadvertised(m))
           b == IF Chronological(q) THEN 0 - m.received ELSE 0
           c == SemanticRank(q, m)
           d == IncidentRank(q, m)
           e == SubjectRank(q, m)
           f == IF LexicalTokens(q) # {} /\ semanticIntentFor(q).name # "hci_license_incident" THEN m.relevance ELSE 0
           g == PlaceIn(m.state, StateOrder(q))
           h == PlaceIn(m.priority, <<"critical", "high", "normal">>)
           i == Yes(m.due # NoDueDate)
           j == m.due
           k == 0 - m.received
<1>2. a \in Int /\ i \in Int
  BY DEF Yes
<1>3. b \in Int /\ f \in Int /\ j \in Int /\ k \in Int
  BY DEF Numbered
<1>4. c \in Int
  <2> DEFINE contracts == "review_required" \in WorkStatesOf(q) /\ q.topics \cap {"contract", "maintenance"} # {}
             leads == \/ semanticIntentFor(q).lead \subseteq m.subject
                      \/ semanticIntentFor(q).name = "hci_license_incident" /\ "hci" \in m.evidence
             held == "maintenance" \in Strict(m)
             rank == IF "contract" \in Strict(m) THEN 1 ELSE 2
  <2>1. c = CASE contracts /\ held -> 0 [] contracts /\ ~held -> rank [] ~contracts -> Yes(leads)
    BY DEF SemanticRank
  <2>2. rank \in Int /\ Yes(leads) \in Int
    BY DEF Yes
  <2>3. contracts \in BOOLEAN /\ held \in BOOLEAN
    OBVIOUS
  <2> HIDE DEF contracts, leads, rank, held
  <2>4. CASE contracts /\ held
    <3>1. c = 0
      BY <2>1, <2>4
    <3> QED
      BY <3>1
  <2>5. CASE contracts /\ ~held
    <3>1. c = rank
      BY <2>1, <2>5
    <3> QED
      BY <2>2, <3>1
  <2>6. CASE ~contracts
    <3>1. c = Yes(leads)
      BY <2>1, <2>6
    <3> QED
      BY <2>2, <3>1
  <2> QED
    BY <2>3, <2>4, <2>5, <2>6
<1>5. d \in Int /\ e \in Int
  BY DEF IncidentRank, SubjectRank
<1>6. g \in Int
  <2>1. Len(StateOrder(q)) \in Nat
    BY DEF StateOrder
  <2> QED
    BY <2>1, PlacesAre
<1>7. h \in Int
  <2>1. Len(<<"critical", "high", "normal">>) \in Nat
    OBVIOUS
  <2> QED
    BY <2>1, PlacesAre
<1>8. RankKey(q, m) = <<a, b, c, d, e, f, g, h, i, j, k>>
  BY DEF RankKey
<1>9. Chronological(q) => b = 0 - m.received
  OBVIOUS
<1>10. a = Yes(Unadvertised(m)) /\ k = 0 - m.received
  OBVIOUS
<1> HIDE DEF a, b, c, d, e, f, g, h, i, j, k
<1>11. <<a, b, c, d, e, f, g, h, i, j, k>> \in [1..11 -> Int]
  BY <1>2, <1>3, <1>4, <1>5, <1>6, <1>7
<1> QED
  BY <1>8, <1>9, <1>10, <1>11 DEF Keys

-----------------------------------------------------------------------------
(* What the ordered list of mails is: all of them, each before those that   *)
(* come after it by its key.                                                *)
Distinct(mails) == \A m, other \in mails : m.received = other.received => m = other
Sortable(mails) == IsFiniteSet(mails) /\ Distinct(mails) /\ \A m \in mails : Numbered(m)

Keyed(q, mails) == {<<RankKey(q, m), m>> : m \in mails}

(* Each mail has a key of its own.                                         *)
LEMMA KeyedIs ==
    ASSUME NEW q, NEW mails, Sortable(mails)
    PROVE  /\ IsFiniteSet(Keyed(q, mails)) /\ Cardinality(Keyed(q, mails)) = Cardinality(mails)
           /\ \A k \in Keyed(q, mails) : k[1] = RankKey(q, k[2]) /\ k[2] \in mails /\ k[1] \in Keys
           /\ \A k, other \in Keyed(q, mails) : k # other => k[1] # other[1]
<1> DEFINE keyed == Keyed(q, mails)
           pair == [m \in mails |-> <<RankKey(q, m), m>>]
<1>1. \A k \in keyed : k = <<RankKey(q, k[2]), k[2]>> /\ k[2] \in mails
  BY DEF Keyed
<1>2. \A k \in keyed : k[1] = RankKey(q, k[2]) /\ k[2] \in mails /\ k[1] \in Keys
  <2> SUFFICES ASSUME NEW k \in keyed PROVE k[1] = RankKey(q, k[2]) /\ k[2] \in mails /\ k[1] \in Keys
    OBVIOUS
  <2>1. k = <<RankKey(q, k[2]), k[2]>> /\ k[2] \in mails
    BY <1>1
  <2>2. k[1] = RankKey(q, k[2])
    <3> DEFINE m == k[2]
    <3>1. k = <<RankKey(q, m), m>>
      BY <2>1
    <3> HIDE DEF m
    <3>2. k[1] = RankKey(q, m)
      BY <3>1
    <3> QED
      BY <3>2 DEF m
  <2>3. Numbered(k[2])
    BY <2>1 DEF Sortable
  <2> QED
    BY <2>1, <2>2, <2>3, KeysAre
<1>3. ASSUME NEW k \in keyed, NEW other \in keyed, k[1] = other[1] PROVE k = other
  <2>1. k[2].received = other[2].received
    <3>1. k[1][11] = 0 - k[2].received /\ other[1][11] = 0 - other[2].received
      BY <1>2, KeysAre DEF Sortable
    <3>2. k[2].received \in Int /\ other[2].received \in Int
      BY <1>2 DEF Sortable, Numbered
    <3> QED
      BY <1>3, <3>1, <3>2
  <2>2. k[2] = other[2]
    BY <1>2, <2>1 DEF Sortable, Distinct
  <2> QED
    BY <1>1, <2>2
<1>4. pair \in Bijection(mails, keyed)
  <2>1. pair \in [mails -> keyed]
    BY DEF Keyed
  <2>2. \A m, other \in mails : pair[m] = pair[other] => m = other
    <3> SUFFICES ASSUME NEW m \in mails, NEW other \in mails, pair[m] = pair[other] PROVE m = other
      OBVIOUS
    <3>1. <<RankKey(q, m), m>> = <<RankKey(q, other), other>>
      OBVIOUS
    <3> QED
      BY <3>1
  <2>3. \A k \in keyed : \E m \in mails : pair[m] = k
    BY DEF Keyed
  <2> HIDE DEF pair, keyed
  <2> QED
    BY <2>1, <2>2, <2>3 DEF Bijection, Injection, Surjection, IsInjective
<1>5. IsFiniteSet(keyed) /\ Cardinality(keyed) = Cardinality(mails)
  <2> HIDE DEF keyed, pair
  <2> QED
    BY <1>4, FS_Bijection DEF Sortable, ExistsBijection
<1> QED
  BY <1>2, <1>3, <1>5

(* The list holds every mail once, in the order of the keys.               *)
LEMMA RankedIs ==
    ASSUME NEW q, NEW mails, Sortable(mails)
    PROVE  /\ Cardinality(mails) \in Nat
           /\ Ranked(q, mails) \in Seq(mails) /\ Len(Ranked(q, mails)) = Cardinality(mails)
           /\ \A m \in mails : \E n \in 1..Cardinality(mails) : Ranked(q, mails)[n] = m
           /\ \A n, k \in 1..Cardinality(mails) : n # k => Ranked(q, mails)[n] # Ranked(q, mails)[k]
           /\ \A n, k \in 1..Cardinality(mails) :
                 Less(RankKey(q, Ranked(q, mails)[n]), RankKey(q, Ranked(q, mails)[k])) => n < k
<1> DEFINE keyed == Keyed(q, mails)
           R == {r \in keyed \X keyed : Less(r[1][1], r[2][1])}
           N == Cardinality(mails)
           s == Ranked(q, mails)
           p == [n \in 1..N |-> Nth(R, keyed, n)]
<1>1. /\ IsFiniteSet(keyed) /\ Cardinality(keyed) = N
      /\ \A k \in keyed : k[1] = RankKey(q, k[2]) /\ k[2] \in mails /\ k[1] \in Keys
      /\ \A k, other \in keyed : k # other => k[1] # other[1]
  BY KeyedIs
<1>2. N \in Nat
  BY FS_CardinalityType DEF Sortable
<1>3. \A m \in mails : <<RankKey(q, m), m>> \in keyed
  BY DEF Keyed
<1>4. keyed = {<<RankKey(q, m), m>> : m \in mails}
  BY DEF Keyed
<1> HIDE DEF keyed
<1>5. \A k, other \in keyed : <<k, other>> \in R <=> Less(k[1], other[1])
  OBVIOUS
<1> HIDE DEF R
<1>6. IsOrder(R, keyed)
  <2>1. \A k, other \in keyed : k # other => <<k, other>> \in R \/ <<other, k>> \in R
    BY <1>1, <1>5, LessIsTotal
  <2>2. \A k, other \in keyed : ~(<<k, other>> \in R /\ <<other, k>> \in R)
    BY <1>1, <1>5, LessOneWay
  <2>3. \A k, other, third \in keyed : <<k, other>> \in R /\ <<other, third>> \in R => <<k, third>> \in R
    BY <1>1, <1>5, LessIsTransitive
  <2> QED
    BY <2>1, <2>2, <2>3 DEF IsOrder
<1>7. /\ \A n \in 1..N : p[n] \in keyed
      /\ \A k \in keyed : \E n \in 1..N : p[n] = k
      /\ \A n, k \in 1..N : n < k => <<p[n], p[k]>> \in R
      /\ \A n, k \in 1..N : <<p[n], p[k]>> \in R => n < k
  <2> DEFINE g == [n \in 1..Cardinality(keyed) |-> Nth(R, keyed, n)]
  <2>1. IsFiniteSet(keyed) /\ Cardinality(keyed) = N
    BY <1>1
  <2>2. /\ \A n \in 1..Cardinality(keyed) : g[n] \in keyed
        /\ \A k \in keyed : \E n \in 1..Cardinality(keyed) : g[n] = k
        /\ \A n, k \in 1..Cardinality(keyed) : n < k => <<g[n], g[k]>> \in R
        /\ \A n, k \in 1..Cardinality(keyed) : <<g[n], g[k]>> \in R => n < k
    <3>1. IsFiniteSet(keyed)
      BY <2>1
    <3>2. \A n \in 1..Cardinality(keyed) : g[n] = Nth(R, keyed, n)
      OBVIOUS
    <3> HIDE DEF g
    <3> QED
      BY <1>6, <3>1, <3>2, CountedOff
  <2>3. p = g
    BY <2>1
  <2> HIDE DEF p, g
  <2> QED
    BY <2>1, <2>2, <2>3
<1>8. ASSUME NEW n \in 1..N PROVE s[n] = p[n][2]
  <2>1. \A k \in keyed : Rank(R, keyed, k) = Cardinality({other \in keyed : Less(other[1], k[1])})
    <3>1. \A k \in keyed : {other \in keyed : <<other, k>> \in R} = {other \in keyed : Less(other[1], k[1])}
      BY <1>5
    <3> QED
      BY <3>1 DEF Rank
  <2>2. p[n] = CHOOSE k \in keyed : Rank(R, keyed, k) = n - 1
    BY DEF Nth
  <2>3. p[n] = CHOOSE k \in keyed : Cardinality({other \in keyed : Less(other[1], k[1])}) = n - 1
    BY <2>1, <2>2
  <2>4. s[n] = (CHOOSE k \in keyed : Cardinality({other \in keyed : Less(other[1], k[1])}) = n - 1)[2]
    BY <1>4 DEF Ranked
  <2> QED
    BY <2>3, <2>4
<1>9. s = [n \in 1..N |-> s[n]]
  BY DEF Ranked
<1> HIDE DEF s, p
<1>10. \A n \in 1..N : s[n] \in mails /\ p[n] = <<RankKey(q, s[n]), s[n]>>
  <2> SUFFICES ASSUME NEW n \in 1..N PROVE s[n] \in mails /\ p[n] = <<RankKey(q, s[n]), s[n]>>
    OBVIOUS
  <2>1. PICK m \in mails : p[n] = <<RankKey(q, m), m>>
    BY <1>4, <1>7
  <2> QED
    BY <1>8, <2>1
<1>11. s \in Seq(mails) /\ Len(s) = N
  <2>1. s \in [1..N -> mails]
    BY <1>9, <1>10
  <2> HIDE DEF N
  <2> QED
    BY <1>2, <2>1, LenProperties, IsASeq
<1>12. ASSUME NEW m \in mails PROVE \E n \in 1..N : s[n] = m
  <2>1. PICK n \in 1..N : p[n] = <<RankKey(q, m), m>>
    BY <1>3, <1>7
  <2> QED
    BY <1>8, <2>1
<1>13. \A n, k \in 1..N : Less(RankKey(q, s[n]), RankKey(q, s[k])) => n < k
  <2> SUFFICES ASSUME NEW n \in 1..N, NEW k \in 1..N, Less(RankKey(q, s[n]), RankKey(q, s[k])) PROVE n < k
    OBVIOUS
  <2>1. p[n] \in keyed /\ p[k] \in keyed /\ p[n][1] = RankKey(q, s[n]) /\ p[k][1] = RankKey(q, s[k])
    <3>1. p[n] = <<RankKey(q, s[n]), s[n]>> /\ p[k] = <<RankKey(q, s[k]), s[k]>>
      BY <1>10
    <3> QED
      BY <1>7, <3>1
  <2>2. <<p[n], p[k]>> \in R
    BY <1>5, <2>1
  <2> QED
    BY <1>7, <2>2
<1>14. \A n, k \in 1..N : n # k => s[n] # s[k]
  <2> SUFFICES ASSUME NEW n \in 1..N, NEW k \in 1..N, n < k PROVE s[n] # s[k]
    BY <1>2
  <2>1. <<p[n], p[k]>> \in R /\ ~(<<p[k], p[n]>> \in R)
    BY <1>2, <1>7
  <2> QED
    BY <1>10, <2>1
<1> QED
  BY <1>2, <1>11, <1>12, <1>13, <1>14 DEF s

-----------------------------------------------------------------------------
(* The first ones of a list are those it begins with.                       *)
LEMMA FirstOnesAre ==
    ASSUME NEW E, NEW s \in Seq(E), NEW limit \in Nat
    PROVE  /\ FirstOnes(s, limit) \in Seq(E)
           /\ Len(FirstOnes(s, limit)) = IF limit < Len(s) THEN limit ELSE Len(s)
           /\ \A i \in 1..Len(FirstOnes(s, limit)) : FirstOnes(s, limit)[i] = s[i]
<1> DEFINE n == IF limit < Len(s) THEN limit ELSE Len(s)
           f == SubSeq(s, 1, n)
<1>1. Len(s) \in Nat /\ \A i \in 1..Len(s) : s[i] \in E
  BY LenProperties, ElementOfSeq
<1>2. n \in Nat /\ n <= Len(s)
  BY <1>1
<1> HIDE DEF n
<1>3. 1 \in Int /\ n \in Int /\ \A i \in 1..n : s[i] \in E
  BY <1>1, <1>2
<1>4. /\ f \in Seq(E) /\ Len(f) = IF 1 <= n THEN n - 1 + 1 ELSE 0
      /\ \A i \in 1..(n - 1 + 1) : f[i] = s[1 + i - 1]
  BY <1>3, SubSeqProperties
<1> HIDE DEF f
<1>5. Len(f) = n
  BY <1>2, <1>4
<1>6. ASSUME NEW i \in 1..n PROVE f[i] = s[i]
  <2>1. i \in 1..(n - 1 + 1) /\ 1 + i - 1 = i
    BY <1>2
  <2> QED
    BY <1>4, <2>1
<1>7. f = FirstOnes(s, limit)
  BY DEF f, n, FirstOnes
<1> QED
  BY <1>4, <1>5, <1>6, <1>7 DEF n

(* The mails that are left when those of another matter are taken out.      *)
Left(q, rows) == AtPlaces(rows, {i \in DOMAIN rows : Qualifies(q, rows[i])})

(* Which and in which order does not matter here: they are mails found.     *)
LEMMA RerankedAre ==
    ASSUME NEW E, NEW q, NEW rows \in Seq(E)
    PROVE  rerankSemanticSearchResults(q, rows) \in Seq(E)
<1>1. ASSUME NEW s \in Seq(E), NEW places \in SUBSET DOMAIN s PROVE AtPlaces(s, places) \in Seq(E)
  BY AtPlacesAre
<1>2. Left(q, rows) \in Seq(E)
  BY <1>1 DEF Left
<1>3. ASSUME NEW bonus PROVE WithBonus(q, Left(q, rows), bonus) \in Seq(E)
  <2> DEFINE left == Left(q, rows)
  <2>1. {i \in DOMAIN left : StateBonus(q, left[i]) = bonus} \in SUBSET DOMAIN left
    OBVIOUS
  <2> HIDE DEF left
  <2>2. AtPlaces(left, {i \in DOMAIN left : StateBonus(q, left[i]) = bonus}) \in Seq(E)
    BY <1>1, <1>2, <2>1 DEF left
  <2> QED
    BY <2>2 DEF WithBonus, left
<1>4. /\ WithBonus(q, Left(q, rows), 5) \in Seq(E) /\ WithBonus(q, Left(q, rows), 3) \in Seq(E)
      /\ WithBonus(q, Left(q, rows), 2) \in Seq(E) /\ WithBonus(q, Left(q, rows), 0) \in Seq(E)
  BY <1>3
<1>5. \/ rerankSemanticSearchResults(q, rows) = Left(q, rows)
      \/ rerankSemanticSearchResults(q, rows) =
            WithBonus(q, Left(q, rows), 5) \o WithBonus(q, Left(q, rows), 3)
               \o WithBonus(q, Left(q, rows), 2) \o WithBonus(q, Left(q, rows), 0)
  BY DEF rerankSemanticSearchResults, Left
<1> DEFINE a == WithBonus(q, Left(q, rows), 5)
           b == WithBonus(q, Left(q, rows), 3)
           c == WithBonus(q, Left(q, rows), 2)
           d == WithBonus(q, Left(q, rows), 0)
<1>6. a \in Seq(E) /\ b \in Seq(E) /\ c \in Seq(E) /\ d \in Seq(E)
  BY <1>4
<1>7. rerankSemanticSearchResults(q, rows) \in {Left(q, rows), a \o b \o c \o d}
  BY <1>5
<1> HIDE DEF a, b, c, d
<1>8. a \o b \in Seq(E)
  BY <1>6, ConcatProperties
<1>9. a \o b \o c \in Seq(E)
  BY <1>6, <1>8, ConcatProperties
<1>10. a \o b \o c \o d \in Seq(E)
  BY <1>6, <1>9, ConcatProperties
<1> QED
  BY <1>2, <1>7, <1>10

(* The latest of the mails of a matter: nothing is cut off before the mails *)
(* of another matter are left out.                                          *)
LEMMA LatestComeFirst ==
    ASSUME NEW q, Chronological(q), NEW mails, Sortable(mails),
           MaxCandidates \in Nat, Cardinality(mails) <= MaxCandidates,
           NEW rows, rows = FirstOnes(Ranked(q, mails), CandidateLimit(q)),
           NEW limit \in Nat, NEW found, found = FirstOnes(rerankSemanticSearchResults(q, rows), limit)
    PROVE  LET answering == {m \in mails : Qualifies(q, m)}
           IN  /\ \A i \in DOMAIN found, m \in answering :
                     Later(m, found[i]) => \E j \in 1..(i - 1) : found[j] = m
               /\ Len(found) < limit => Len(found) = Cardinality(answering)
<1> DEFINE N == Cardinality(mails)
           all == Ranked(q, mails)
           answering == {m \in mails : Qualifies(q, m)}
           places == {i \in DOMAIN rows : Qualifies(q, rows[i])}
           left == AtPlaces(rows, places)
           n == Cardinality(places)
<1>1. /\ N \in Nat /\ all \in Seq(mails) /\ Len(all) = N
      /\ \A m \in mails : \E i \in 1..N : all[i] = m
      /\ \A i, k \in 1..N : i # k => all[i] # all[k]
      /\ \A i, k \in 1..N : Less(RankKey(q, all[i]), RankKey(q, all[k])) => i < k
  BY RankedIs
<1>2. rows = FirstOnes(all, MaxCandidates)
  BY DEF CandidateLimit
<1> HIDE DEF all
<1>3. /\ rows \in Seq(mails) /\ Len(rows) = N /\ DOMAIN rows = 1..N
      /\ \A i \in 1..N : rows[i] = all[i] /\ rows[i] \in mails
  <2>1. /\ rows \in Seq(mails) /\ Len(rows) = IF MaxCandidates < Len(all) THEN MaxCandidates ELSE Len(all)
        /\ \A i \in 1..Len(rows) : rows[i] = all[i]
    BY <1>1, <1>2, FirstOnesAre
  <2> HIDE DEF N
  <2>2. Len(rows) = N
    BY <1>1, <2>1 DEF N
  <2> QED
    BY <2>1, <2>2, LenProperties, ElementOfSeq
<1> HIDE DEF N
<1>4. \A m \in mails : \E i \in 1..N : rows[i] = m
  BY <1>1, <1>3
<1>5. \A i, k \in 1..N : (rows[i] = rows[k] => i = k)
                         /\ (Less(RankKey(q, rows[i]), RankKey(q, rows[k])) => i < k)
  BY <1>1, <1>3
<1>6. places \in SUBSET DOMAIN rows
  OBVIOUS
<1>7. places \in SUBSET (1..N) /\ \A i \in 1..N : i \in places <=> Qualifies(q, rows[i])
  BY <1>3
<1>8. rerankSemanticSearchResults(q, rows) = left /\ left = AtPlaces(rows, places)
  BY DEF rerankSemanticSearchResults
<1> HIDE DEF places, left
<1>9. left \in Seq(mails) /\ Len(left) = n /\ n \in Nat
  BY <1>3, <1>6, <1>8, AtPlacesAre
<1>10. PICK p : PlacedBy(p, left, rows, places)
  <2>1. rows \in Seq(mails)
    BY <1>3
  <2> QED
    BY <1>6, <1>8, <2>1, AtPlacesAre
<1>11. /\ p \in [1..n -> places]
       /\ \A i \in 1..n : left[i] = rows[p[i]]
       /\ \A i \in places : \E k \in 1..n : p[k] = i
       /\ \A i, k \in 1..n : i < k => p[i] < p[k]
       /\ \A i, k \in 1..n : p[i] < p[k] => i < k
  BY <1>10 DEF PlacedBy
<1> HIDE DEF n
<1>12. /\ found \in Seq(mails) /\ Len(found) = IF limit < n THEN limit ELSE n
       /\ \A i \in 1..Len(found) : found[i] = left[i]
  BY <1>8, <1>9, FirstOnesAre
<1>13. DOMAIN found = 1..Len(found) /\ Len(found) \in Nat /\ Len(found) <= n
  BY <1>9, <1>12, LenProperties
<1>14. ASSUME NEW i \in DOMAIN found, NEW m \in answering, Later(m, found[i])
       PROVE  \E j \in 1..(i - 1) : found[j] = m
  <2>1. i \in 1..n /\ found[i] = left[i] /\ left[i] = rows[p[i]] /\ p[i] \in places /\ p[i] \in 1..N
    <3>1. i \in 1..Len(found) /\ i \in 1..n
      BY <1>9, <1>13
    <3>2. found[i] = left[i]
      BY <1>12, <3>1
    <3>3. left[i] = rows[p[i]] /\ p[i] \in places
      BY <1>11, <3>1
    <3> QED
      BY <1>7, <3>1, <3>2, <3>3
  <2>2. PICK k \in 1..N : rows[k] = m
    BY <1>4
  <2>3. k \in places
    BY <1>7, <2>2
  <2>4. PICK j \in 1..n : p[j] = k
    BY <1>11, <2>3
  <2>5. Less(RankKey(q, rows[k]), RankKey(q, rows[p[i]]))
    <3> DEFINE x == RankKey(q, m)
               y == RankKey(q, found[i])
    <3>1. Numbered(m) /\ Numbered(found[i])
      BY <1>3, <2>1 DEF Sortable
    <3>2. /\ x \in Keys /\ x[1] = Yes(Unadvertised(m)) /\ x[2] = 0 - m.received
          /\ y \in Keys /\ y[1] = Yes(Unadvertised(found[i])) /\ y[2] = 0 - found[i].received
      BY <3>1, KeysAre
    <3> HIDE DEF x, y
    <3>3. x[1] = y[1] /\ x[2] < y[2]
      BY <1>14, <3>1, <3>2 DEF Later, Numbered
    <3>4. 2 \in DOMAIN x /\ \A t \in 1..(2 - 1) : x[t] = y[t]
      BY <3>2, <3>3 DEF Keys
    <3>5. Less(x, y)
      BY <3>3, <3>4 DEF Less
    <3> QED
      BY <2>1, <2>2, <3>5 DEF x, y
  <2>6. p[j] < p[i]
    BY <1>5, <2>1, <2>4, <2>5
  <2>7. j < i
    BY <1>11, <2>1, <2>4, <2>6
  <2>8. j \in 1..(i - 1) /\ j \in 1..Len(found)
    BY <1>9, <1>13, <2>1, <2>4, <2>7
  <2>9. found[j] = m
    BY <1>11, <1>12, <2>2, <2>4, <2>8
  <2> QED
    BY <2>8, <2>9
<1>15. n = Cardinality(answering)
  <2> DEFINE b == [i \in places |-> rows[i]]
  <2>1. b \in [places -> answering]
    BY <1>3, <1>7
  <2>2. \A i, k \in places : b[i] = b[k] => i = k
    BY <1>5, <1>7
  <2>3. \A m \in answering : \E i \in places : b[i] = m
    BY <1>4, <1>7
  <2> HIDE DEF b, answering
  <2>4. b \in Bijection(places, answering)
    BY <2>1, <2>2, <2>3 DEF Bijection, Injection, Surjection, IsInjective
  <2>5. IsFiniteSet(places)
    <3>1. 1 \in Int /\ N \in Int
      BY <1>1 DEF N
    <3>2. IsFiniteSet(1..N)
      BY <3>1, FS_Interval
    <3> QED
      BY <1>7, <3>2, FS_Subset
  <2> QED
    BY <2>4, <2>5, FS_Bijection DEF ExistsBijection, n
<1>16. Len(found) < limit => Len(found) = n
  BY <1>9, <1>12
<1> QED
  BY <1>14, <1>15, <1>16

-----------------------------------------------------------------------------
(* The answer is what was found for its question in the mailbox.            *)
SearchInv ==
    /\ mailbox \in Mailboxes
    /\ \/ answer = NoAnswer
       \/ /\ answer.question \in Questions /\ answer.fallback \in BOOLEAN
          /\ answer.found = Found(answer.question, intelligentSearch(answer.question, answer.fallback))

(* The answer shown is what one reading of the mailbox found for its       *)
(* question (intelligentSearch, which keeps nothing between two            *)
(* searches).                                                              *)
THEOREM SearchInvariant == SearchSpec => []SearchInv
<1>1. SearchInit => SearchInv
  BY DEF SearchInit, SearchInv
<1>2. SearchInv /\ [SearchNext]_searchVars => SearchInv'
  <2> SUFFICES ASSUME SearchInv, [SearchNext]_searchVars PROVE SearchInv'
    OBVIOUS
  <2>1. ASSUME NEW q \in Questions, Search(q), UNCHANGED mailbox PROVE SearchInv'
    <3> DEFINE retried == Found(q, intelligentSearch(q, FALSE)) = <<>> /\ FallbackAllowed(q)
    <3>1. answer' = [question |-> q, fallback |-> retried,
                     found |-> Found(q, IF retried THEN intelligentSearch(q, TRUE) ELSE intelligentSearch(q, FALSE))]
      BY <2>1 DEF Search
    <3>2. \A coverage : intelligentSearch(q, coverage)' = intelligentSearch(q, coverage)
      BY <2>1 DEF intelligentSearch
    <3>3. retried \in BOOLEAN
      OBVIOUS
    <3> HIDE DEF retried
    <3>4. answer'.question = q /\ answer'.fallback = retried
      BY <3>1
    <3>5. answer'.found = Found(q, intelligentSearch(q, retried))
      <4>1. CASE retried = TRUE
        BY <3>1, <4>1
      <4>2. CASE retried = FALSE
        BY <3>1, <4>2
      <4> QED
        BY <3>3, <4>1, <4>2
    <3> QED
      BY <2>1, <3>2, <3>3, <3>4, <3>5 DEF SearchInv
  <2>2. CASE UNCHANGED searchVars
    BY <2>2 DEF searchVars, SearchInv, intelligentSearch
  <2> QED
    BY <2>1, <2>2 DEF SearchNext
<1> QED
  BY <1>1, <1>2, PTL DEF SearchSpec

(* What the assumption says of the mails a question finds.                  *)
LEMMA MatchingAreSortable ==
    ASSUME mailbox \in Mailboxes, NEW q, NEW coverage
    PROVE  Sortable({m \in mailbox : Matches(q, m, coverage)})
<1> DEFINE mails == {m \in mailbox : Matches(q, m, coverage)}
<1>1. mails \subseteq mailbox
  OBVIOUS
<1> HIDE DEF mails
<1>2. /\ IsFiniteSet(mailbox)
      /\ \A m \in mailbox : m.received \in Int /\ m.relevance \in Int /\ m.due \in Int
      /\ \A m, other \in mailbox : m.received = other.received => m = other
  BY SearchAssumption
<1>3. IsFiniteSet(mails)
  BY <1>1, <1>2, FS_Subset
<1>4. Sortable(mails)
  BY <1>1, <1>2, <1>3 DEF Sortable, Distinct, Numbered
<1> QED
  BY <1>4 DEF mails

(* The limits of a question are numbers.                                   *)
LEMMA LimitIs == \A q \in Questions : ResultLimit(q) \in Nat /\ CandidateLimit(q) \in Nat
  BY SearchAssumption DEF ResultLimit, CandidateLimit

(* Type correctness of the search: an answer lists mails of the mailbox.   *)
THEOREM SearchTypeCorrect == SearchSpec => []SearchTypeOK
<1>1. SearchInv => SearchTypeOK
  <2> SUFFICES ASSUME SearchInv PROVE SearchTypeOK
    OBVIOUS
  <2>1. CASE answer = NoAnswer
    <3>1. DOMAIN answer.found = {} /\ answer.fallback = FALSE
      BY <2>1 DEF NoAnswer
    <3> QED
      BY <2>1, <3>1 DEF SearchTypeOK
  <2>2. CASE answer # NoAnswer
    <3> DEFINE q == answer.question
               coverage == answer.fallback
               mails == {m \in mailbox : Matches(q, m, coverage)}
               rows == intelligentSearch(q, coverage)
    <3>1. q \in Questions /\ coverage \in BOOLEAN /\ answer.found = Found(q, rows)
      BY <2>2 DEF SearchInv
    <3>2. Sortable(mails)
      BY MatchingAreSortable DEF SearchInv
    <3>3. ResultLimit(q) \in Nat /\ CandidateLimit(q) \in Nat
      BY <3>1, LimitIs
    <3>4. rows = IF FailClosed(q) THEN <<>> ELSE FirstOnes(Ranked(q, mails), CandidateLimit(q))
      BY DEF intelligentSearch
    <3>5. mails \subseteq mailbox
      OBVIOUS
    <3> HIDE DEF q, coverage, mails, rows
    <3>6. rows \in Seq(mails)
      <4>1. <<>> \in Seq(mails)
        BY EmptySeq
      <4>2. FirstOnes(Ranked(q, mails), CandidateLimit(q)) \in Seq(mails)
        BY <3>2, <3>3, RankedIs, FirstOnesAre
      <4> QED
        BY <3>4, <4>1, <4>2
    <3>7. answer.found \in Seq(mails)
      BY <3>1, <3>3, <3>6, RerankedAre, FirstOnesAre DEF Found
    <3>8. \A i \in DOMAIN answer.found : answer.found[i] \in mailbox
      BY <3>5, <3>7, LenProperties, ElementOfSeq
    <3> QED
      BY <3>1, <3>8 DEF SearchTypeOK, q, coverage
  <2> QED
    BY <2>1, <2>2
<1> QED
  BY <1>1, SearchInvariant, PTL

(* A question for the latest mails of a matter lists the newest that       *)
(* match: a mail newer than one in the list is in the list before it, and  *)
(* a list that is not full has them all (intelligentSearch and             *)
(* rerankSemanticSearchResults).                                           *)
THEOREM LatestAreFound == SearchSpec => []LatestAreTheNewest
<1>1. SearchInv => LatestAreTheNewest
  <2> DEFINE q == answer.question
             coverage == answer.fallback
             found == answer.found
             mails == {m \in mailbox : Matches(q, m, coverage)}
             answering == Answering(q, coverage)
             rows == intelligentSearch(q, coverage)
  <2> SUFFICES ASSUME SearchInv, answer # NoAnswer, Chronological(q), ~FailClosed(q),
                      Cardinality(mails) <= MaxCandidates
               PROVE  /\ \A i \in DOMAIN found, m \in answering :
                            Later(m, found[i]) => \E j \in 1..(i - 1) : found[j] = m
                      /\ Len(found) < ResultLimit(q) => Len(found) = Cardinality(answering)
    BY DEF LatestAreTheNewest
  <2>1. q \in Questions /\ found = Found(q, rows)
    BY DEF SearchInv
  <2>2. Sortable(mails)
    BY MatchingAreSortable DEF SearchInv
  <2>3. ResultLimit(q) \in Nat /\ MaxCandidates \in Nat
    BY <2>1, LimitIs, SearchAssumption
  <2>4. rows = FirstOnes(Ranked(q, mails), CandidateLimit(q))
    BY DEF intelligentSearch
  <2>5. found = FirstOnes(rerankSemanticSearchResults(q, rows), ResultLimit(q))
    BY <2>1 DEF Found
  <2>6. answering = {m \in mails : Qualifies(q, m)}
    BY DEF Answering
  <2> HIDE DEF q, coverage, found, mails, answering, rows
  <2>7. LET those == {m \in mails : Qualifies(q, m)}
        IN  /\ \A i \in DOMAIN found, m \in those :
                  Later(m, found[i]) => \E j \in 1..(i - 1) : found[j] = m
            /\ Len(found) < ResultLimit(q) => Len(found) = Cardinality(those)
    <3>1. Chronological(q) /\ Cardinality(mails) <= MaxCandidates
      OBVIOUS
    <3> QED
      BY ONLY <2>2, <2>3, <2>4, <2>5, <3>1, LatestComeFirst
  <2> QED
    BY <2>6, <2>7
<1> QED
  BY <1>1, SearchInvariant, PTL
=============================================================================
