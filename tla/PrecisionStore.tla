--------------------------- MODULE PrecisionStore ---------------------------
(***************************************************************************)
(* The verdict precision_classifications keeps for every message and the   *)
(* six that write it: the rules, the answer of a language model, a         *)
(* correction by a person, the policy learned from one, the work links     *)
(* taken from a Notion snapshot, and the project import                    *)
(* (precision-intelligence.js, work-links.js, project-reclassification.js, *)
(* sqlite-store.js).                                                       *)
(*                                                                         *)
(* A verdict is reduced to who decided it: `source` and `provider` for     *)
(* what it says of the work, `project` and `candidate` for the project.    *)
(* What the rules find in a text is any of RuleProjects.  Handlers run to  *)
(* their end; the model's answer and a refresh of the links are awaited,   *)
(* and a correction takes several transactions the process can die between.*)
(***************************************************************************)
EXTENDS Naturals, FiniteSets

CONSTANTS
    PMails,         \* messages
    PolicyKey,      \* PMails -> policyKey: mails of one sender and template share it
    Masters,        \* Notion objects a mail may match
    RuleProjects,   \* project resolutions the rules come to
    Overrides,      \* sets of fields a correction may set
    MaxTexts        \* bound: versions of one mail

None == "none"

Projects == {"confirmed", "candidate", "review_required", "unassigned"}

ASSUME PrecisionAssumption ==
    MaxTexts \in Nat \ {0} /\ None \notin Masters /\ RuleProjects \subseteq Projects

Keys == {PolicyKey[m] : m \in PMails}

VARIABLES
    text,        \* messages: the version of each, 0 before it arrives
    pending,     \* mails whose verdict is missing or older than the mail
    verdict,         \* precision_classifications
    correction,  \* precision_corrections
    policy,      \* precision_learning_policies by key
    correcting,  \* the correction being made: its mail, and what it has still to do
    asked,       \* mails of the batch a language model was asked about
    links,       \* work_links with status 'candidate': PMails -> Masters
    refresh      \* the refresh of the links in progress

precisionVars == <<text, pending, verdict, correction, policy, correcting, asked, links, refresh>>

NoRow == [source |-> None, provider |-> None, review |-> None,
          project |-> "unassigned", candidate |-> None]
NoCorrecting == [mail |-> None, todo |-> {}]
NoRefresh == [snapshot |-> [m \in PMails |-> 0], got |-> [m \in PMails |-> 0],
              todo |-> {}, on |-> FALSE]

Verdicts ==
    [source : {"rules", "ai", "hybrid", "user-corrected"}, provider : {"rules", "llm", "worklink"},
     review : {"auto", "review_required", "corrected"}, project : Projects,
     candidate : {None, "rules", "user", "cleared"} \cup Masters]
Correctings == [mail : PMails \cup {None}, todo : SUBSET (PMails \cup {"policy"})]
Refreshes == [snapshot : [PMails -> 0..MaxTexts], got : [PMails -> 0..MaxTexts], todo : SUBSET PMails, on : BOOLEAN]

PrecisionTypeOK ==
    /\ text \in [PMails -> 0..MaxTexts]
    /\ pending \subseteq PMails
    /\ verdict \in [PMails -> {NoRow} \cup Verdicts]
    /\ correction \in [PMails -> Overrides \cup {{}}]
    /\ policy \in [Keys -> Overrides \cup {{}}]
    /\ correcting \in Correctings
    /\ asked \subseteq PMails
    /\ links \in [PMails -> Masters \cup {None}]
    /\ refresh \in Refreshes

PrecisionInit ==
    /\ text = [m \in PMails |-> 0]
    /\ pending = {}
    /\ verdict = [m \in PMails |-> NoRow]
    /\ correction = [m \in PMails |-> {}]
    /\ policy = [k \in Keys |-> {}]
    /\ correcting = NoCorrecting
    /\ asked = {}
    /\ links = [m \in PMails |-> None]
    /\ refresh = NoRefresh

Stored(m) == text[m] > 0
Free == correcting = NoCorrecting

------------------------------------------------------------------------------
(* What each party makes of a mail. *)
RulesSay(p) ==
    [source |-> "rules", provider |-> "rules",
     review |-> IF p = "review_required" THEN "review_required" ELSE "auto",
     project |-> p, candidate |-> IF p = "unassigned" THEN None ELSE "rules"]

applyPrecisionCorrection(r, fields) ==
    [r EXCEPT !.source = "user-corrected", !.review = "corrected",
              !.project = IF "project" \in fields THEN "confirmed" ELSE @,
              !.candidate = IF "project" \in fields THEN "user" ELSE @]

applyLearnedPolicy(r, fields) ==
    [applyPrecisionCorrection(r, fields) EXCEPT !.source = "hybrid", !.review = "auto"]

matchingPolicy(m) == policy[PolicyKey[m]]
WithPolicy(r, m) == IF matchingPolicy(m) = {} THEN r ELSE applyLearnedPolicy(r, matchingPolicy(m))

mergeLlmClassification(r) ==
    [r EXCEPT !.source = "ai", !.provider = "llm", !.review = "auto"]

\* An answer of a model is kept in place of the rules, and lost once a policy applies.
keepAi(m) == verdict[m].source = "ai" /\ verdict[m].provider # "rules"

BadEvaluate(m, p) ==
    LET automatic == IF keepAi(m) THEN verdict[m] ELSE RulesSay(p) IN
    IF matchingPolicy(m) # {} THEN applyLearnedPolicy(automatic, matchingPolicy(m))
    ELSE IF correction[m] # {} THEN applyPrecisionCorrection(automatic, correction[m])
    ELSE automatic
Evaluate(m, p) ==
    LET automatic == IF keepAi(m) THEN verdict[m] ELSE RulesSay(p) IN
    IF correction[m] # {} THEN applyPrecisionCorrection(automatic, correction[m])
    ELSE WithPolicy(automatic, m)

\* Every save of a verdict makes it newer than its mail.
SaveRow(m, r) ==
    /\ verdict' = [verdict EXCEPT ![m] = r]
    /\ pending' = pending \ {m}

------------------------------------------------------------------------------
(* The mailbox, and the classification of what is new in it. *)
MailStored(m) ==
    /\ Free
    /\ text[m] < MaxTexts
    /\ text' = [text EXCEPT ![m] = @ + 1]
    /\ pending' = pending \cup {m}
    /\ UNCHANGED <<verdict, correction, policy, correcting, asked, links, refresh>>

\* The end of a sync and a search take the pending mails; a new project takes all.
classifyOne(m) ==
    /\ Free
    /\ Stored(m)
    /\ \E p \in RuleProjects : SaveRow(m, Evaluate(m, p))
    /\ UNCHANGED <<text, correction, policy, correcting, asked, links, refresh>>

------------------------------------------------------------------------------
(* A correction: the correction itself, the policy learned from it, the    *)
(* mails like it that have no correction of their own, then its own verdict.   *)
correct(m, fields) ==
    /\ Free
    /\ Stored(m)
    /\ correction' = [correction EXCEPT ![m] = fields]
    /\ correcting' = [mail |-> m, todo |-> {"policy"}]
    /\ UNCHANGED <<text, pending, verdict, policy, asked, links, refresh>>

saveLearningPolicy ==
    /\ correcting.todo = {"policy"}
    /\ LET m == correcting.mail
           like == {n \in PMails \ {m} : PolicyKey[n] = PolicyKey[m] /\ Stored(n) /\ correction[n] = {}} IN
       /\ policy' = [policy EXCEPT ![PolicyKey[m]] = correction[m]]
       /\ correcting' = [correcting EXCEPT !.todo = like \cup {m}]
    /\ UNCHANGED <<text, pending, verdict, correction, asked, links, refresh>>

Reclassify(m) ==
    /\ m \in correcting.todo
    /\ m = correcting.mail => correcting.todo = {m}
    /\ \E p \in RuleProjects : SaveRow(m, Evaluate(m, p))
    /\ correcting' = IF m = correcting.mail THEN NoCorrecting
                     ELSE [correcting EXCEPT !.todo = @ \ {m}]
    /\ UNCHANGED <<text, correction, policy, asked, links, refresh>>

------------------------------------------------------------------------------
(* The language model: candidates have no correction when they are chosen, *)
(* and are looked at again when the answer is there.                       *)
listLlmCandidates(batch) ==
    /\ Free
    /\ asked = {}
    /\ batch # {}
    /\ \A m \in batch : Stored(m) /\ correction[m] = {} /\ verdict[m].review # "corrected"
    /\ asked' = batch
    /\ UNCHANGED <<text, pending, verdict, correction, policy, correcting, links, refresh>>

\* A request may name the mails itself, corrected ones too.
classifyByIds(batch) ==
    /\ Free
    /\ asked = {}
    /\ batch # {}
    /\ \A m \in batch : Stored(m)
    /\ asked' = batch
    /\ UNCHANGED <<text, pending, verdict, correction, policy, correcting, links, refresh>>

acceptLlmObservation(m) ==
    /\ Free
    /\ m \in asked
    /\ asked' = asked \ {m}
    /\ IF correction[m] # {}
       THEN UNCHANGED <<verdict, pending>>
       ELSE \E p \in RuleProjects : SaveRow(m, WithPolicy(mergeLlmClassification(RulesSay(p)), m))
    /\ UNCHANGED <<text, correction, policy, correcting, links, refresh>>

\* A failure is recorded on what the rules say; no correction is looked for.
recordLlmFailure(m) ==
    /\ Free
    /\ m \in asked
    /\ asked' = asked \ {m}
    /\ \E p \in RuleProjects : SaveRow(m, WithPolicy(RulesSay(p), m))
    /\ UNCHANGED <<text, correction, policy, correcting, links, refresh>>

------------------------------------------------------------------------------
(* Work links. *)
isDerived(r) == r.provider = "worklink" \/ r.candidate \in Masters \cup {"cleared"}

isProtected(r) ==
    /\ r # NoRow
    /\ \/ r.source = "user-corrected"
       \/ r.review = "corrected"
       \/ r.project = "confirmed"
       \/ ~isDerived(r) /\ r.project # "unassigned"

\* The verdict of one mail after a refresh that matched it to `link`.
Projection(r, link) ==
    CASE isProtected(r) \/ (r = NoRow /\ link = None) -> r
      [] r = NoRow /\ link # None ->
            [source |-> "rules", provider |-> "worklink", review |-> "auto",
             project |-> "candidate", candidate |-> link]
      [] OTHER ->
            [r EXCEPT !.provider = "worklink",
                      !.project = IF link = None THEN "unassigned" ELSE "candidate",
                      !.candidate = IF link = None THEN "cleared" ELSE link]

refreshLinks ==
    /\ Free
    /\ ~refresh.on
    /\ refresh' = [NoRefresh EXCEPT !.snapshot = text, !.on = TRUE,
                                    !.todo = {m \in PMails : Stored(m)}]
    /\ UNCHANGED <<text, pending, verdict, correction, policy, correcting, asked, links>>

\* One page, after an await.
CollectPage(m) ==
    /\ Free
    /\ m \in refresh.todo
    /\ refresh' = [refresh EXCEPT !.got[m] = text[m], !.todo = @ \ {m}]
    /\ UNCHANGED <<text, pending, verdict, correction, policy, correcting, asked, links>>

BadSourceUnchanged == refresh.got = refresh.snapshot
SourceUnchanged == text = refresh.snapshot /\ refresh.got = refresh.snapshot

\* A mail that was collected matches any of the masters of the Notion snapshot, or none.
commitWorkLinkRefresh(match) ==
    /\ Free
    /\ refresh.on /\ refresh.todo = {}
    /\ SourceUnchanged
    /\ \A m \in PMails : refresh.got[m] = 0 => match[m] = None
    /\ links' = match
    /\ verdict' = [m \in PMails |-> Projection(verdict[m], match[m])]
    /\ pending' = {m \in pending : isProtected(verdict[m]) \/ (verdict[m] = NoRow /\ match[m] = None)}
    /\ refresh' = NoRefresh
    /\ UNCHANGED <<text, correction, policy, correcting, asked>>

\* WORKLINK_SOURCE_CHANGED, or any await that failed: the links stay as they were.
abortRefresh ==
    /\ Free
    /\ refresh.on
    /\ refresh' = NoRefresh
    /\ UNCHANGED <<text, pending, verdict, correction, policy, correcting, asked, links>>

------------------------------------------------------------------------------
(* The project import reclassifies the projects of all mails in one        *)
(* transaction and leaves the age of the rows alone.                       *)
ProjectOf(m, p) ==
    LET fields == IF correction[m] # {} THEN correction[m] ELSE matchingPolicy(m)
        orphan == verdict[m].source \in {"user-corrected", "hybrid"} /\ fields = {} IN
    IF verdict[m] = NoRow \/ orphan THEN verdict[m]
    ELSE [verdict[m] EXCEPT
            !.project = IF "project" \in fields THEN "confirmed" ELSE p,
            !.candidate = IF "project" \in fields THEN "user"
                          ELSE IF p = "unassigned" THEN None ELSE "rules",
            !.review = IF @ # "corrected" /\ "project" \notin fields /\ p = "review_required"
                       THEN "review_required" ELSE @]

reclassifyProjectAnalysis ==
    /\ Free
    /\ \E found \in [PMails -> RuleProjects] :
          verdict' = [m \in PMails |-> ProjectOf(m, found[m])]
    /\ UNCHANGED <<text, pending, correction, policy, correcting, asked, links, refresh>>

\* The server dies: what was asked, collected or half corrected is forgotten.
PrecisionCrash ==
    /\ asked # {} \/ refresh.on \/ ~Free
    /\ asked' = {}
    /\ refresh' = NoRefresh
    /\ correcting' = NoCorrecting
    /\ UNCHANGED <<text, pending, verdict, correction, policy, links>>

------------------------------------------------------------------------------
PrecisionNext ==
    \/ \E m \in PMails :
          \/ MailStored(m) \/ classifyOne(m)
          \/ \E fields \in Overrides : correct(m, fields)
          \/ Reclassify(m)
          \/ acceptLlmObservation(m) \/ recordLlmFailure(m)
          \/ CollectPage(m)
    \/ saveLearningPolicy
    \/ \E batch \in SUBSET PMails : listLlmCandidates(batch) \/ classifyByIds(batch)
    \/ \E match \in [PMails -> Masters \cup {None}] : commitWorkLinkRefresh(match)
    \/ refreshLinks \/ abortRefresh
    \/ reclassifyProjectAnalysis
    \/ PrecisionCrash

PrecisionSpec == PrecisionInit /\ [][PrecisionNext]_precisionVars

------------------------------------------------------------------------------
\* The three queries of 01-CONTRACTS.md:177: every verdict that is not protected shows
\* exactly the link its mail has (workLinkProjectionAgreement).
Agrees(m) ==
    isProtected(verdict[m]) \/
        IF links[m] # None THEN verdict[m].project = "candidate" /\ verdict[m].candidate = links[m]
        ELSE isDerived(verdict[m]) => verdict[m].project = "unassigned" /\ verdict[m].candidate = "cleared"

\* Links are swapped only when the mailbox, the pages and the snapshot are all the same
\* (WORKLINK_SOURCE_CHANGED), so none is made from a text that has changed since, and
\* afterwards links and verdicts agree: commitWorkLinkRefresh.
LinksAgreeOnCommit ==
    [][(\E match \in [PMails -> Masters \cup {None}] : commitWorkLinkRefresh(match))
          => \A m \in PMails : Agrees(m)' /\ (Stored(m) => refresh.got[m] = text[m])]_precisionVars

\* V1.2.0-PRECISION-CLASSIFICATION-PLAN.md:118 "A user correction remains authoritative
\* until explicitly changed": no policy, rule, link, import or answer of a model takes a
\* corrected mail away from its correction.  The exception is a mail a model was asked
\* about: a failure of that batch is recorded over the correction (recordLlmFailures).
CorrectionOutranks ==
    [][\A m \in PMails : verdict[m].source = "user-corrected" /\ correction[m] # {}
          => verdict'[m].source = "user-corrected" \/ m \in asked]_precisionVars

=============================================================================
