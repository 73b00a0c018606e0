----------------------------- MODULE AiAnalysis ------------------------------
(***************************************************************************)
(* External AI on top of the settings: an analysis reads the provider, the  *)
(* mail and the cache, asks the provider's command line tool, and keeps the *)
(* answer in the cache under a key of the mail, the provider and the model. *)
(* Settings and mail change while the tool runs.  Every provider has a      *)
(* circuit: failures in a row open it for a minute.  The analyses run side  *)
(* by side and share the circuit.                                          *)
(***************************************************************************)
EXTENDS RuntimeConfig

CONSTANTS
    Analyses,         \* analyses of the mail in progress
    Models,           \* the models the settings may name
    MaxRevision,      \* bound: the revisions of the mail
    WithChangeKey,    \* the revisions that have a change key, which Graph makes anew with every one
    FailureThreshold, \* failures that open a circuit
    AllowExternalAi   \* MAIL_INTELLIGENCE_ALLOW_EXTERNAL_AI

ASSUME AnalysisAssumption ==
    /\ {MaxRevision, FailureThreshold} \subseteq Nat \ {0}
    /\ Models # {} /\ WithChangeKey \subseteq 1..MaxRevision

VARIABLES
    revision,  \* the revision of the mail in the store
    model,     \* the model the settings name
    analysis,  \* the analyses
    cached,    \* message_analysis: the keys, and what the kept answers are of
    circuit,   \* the circuit of each provider
    lastEvent  \* the latest real_mail_analysis audit event of each provider

aiVars == <<revision, model, analysis, cached, circuit, lastEvent>>
analysisVars == <<configVars, aiVars>>

ReceivedAt == 0    \* when the mail was received: no edit changes it
Of == [revision : 1..MaxRevision, provider : Providers \cup {Rules}, model : Models]
CacheKeys == [stamp : 0..MaxRevision, provider : Providers \cup {Rules}, model : Models]
SomeModel == CHOOSE m \in Models : TRUE
NoAnalysis == [step |-> "idle", of |-> [revision |-> 1, provider |-> Rules, model |-> SomeModel]]
Closed == [failures |-> 0, open |-> FALSE]
AnalysisStates == [step : {"idle", "status", "call"}, of : Of]
Circuits == [failures : 0..FailureThreshold, open : BOOLEAN]

AnalysisTypeOK ==
    /\ ConfigTypeOK
    /\ revision \in 1..MaxRevision /\ model \in Models
    /\ analysis \in [Analyses -> AnalysisStates]
    /\ cached \subseteq [key : CacheKeys, of : Of]
    /\ circuit \in [Providers -> Circuits]
    /\ lastEvent \in [Providers -> {"never", "passed", "failed"}]

AnalysisInit ==
    /\ ConfigInit
    /\ revision = 1 /\ model = SomeModel
    /\ analysis = [a \in Analyses |-> NoAnalysis]
    /\ cached = {}
    /\ circuit = [p \in Providers |-> Closed]
    /\ lastEvent = [p \in Providers |-> "never"]

------------------------------------------------------------------------------
(* The mail and the model. *)

MailRevised ==
    /\ revision < MaxRevision
    /\ revision' = revision + 1
    /\ UNCHANGED <<configVars, model, analysis, cached, circuit, lastEvent>>

\* The settings name another model, by a request or as an older copy is put into use.
ModelChanges ==
    /\ model' \in Models \ {model}
    /\ UNCHANGED <<configVars, revision, analysis, cached, circuit, lastEvent>>

------------------------------------------------------------------------------
(* enrichWithAI *)

At(a, step) == phase = "serving" /\ analysis[a].step = step
Provider(a) == analysis[a].of.provider
AnalysisEnds(a) == analysis' = [analysis EXCEPT ![a] = NoAnalysis]

BadBuildAnalysisCacheKey(of) == [stamp |-> ReceivedAt, provider |-> of.provider, model |-> of.model]

\* The change key or, where the mail has none, when it was received.
buildAnalysisCacheKey(of) ==
    [stamp |-> IF of.revision \in WithChangeKey THEN of.revision ELSE ReceivedAt,
     provider |-> of.provider, model |-> of.model]

Present == [revision |-> revision, provider |-> config.public.provider, model |-> model]
Hit(of) == \E c \in cached : c.key = buildAnalysisCacheKey(of)
OptedIn == AllowExternalAi /\ config.public.accepted = policy

\* The provider, the model, the mail and the cache are read before the first await; the rules and a
\* cached answer need no provider, and a refused route fails without an event.
enrichWithAI(a) ==
    /\ At(a, "idle")
    /\ Present.provider # Rules /\ ~Hit(Present) /\ OptedIn
    /\ analysis' = [analysis EXCEPT ![a] = [step |-> "status", of |-> Present]]
    /\ UNCHANGED <<configVars, revision, model, cached, circuit, lastEvent>>

Records(a, event) == lastEvent' = [lastEvent EXCEPT ![Provider(a)] = event]

\* The tool is there and logged in, and withAiResilience lets the call through: a circuit
\* whose minute is over starts from nothing.
CallStarts(a) ==
    /\ At(a, "status")
    /\ ~circuit[Provider(a)].open
    /\ analysis' = [analysis EXCEPT ![a].step = "call"]
    /\ circuit' = [circuit EXCEPT ![Provider(a)].failures = IF @ = FailureThreshold THEN 0 ELSE @]
    /\ UNCHANGED <<configVars, revision, model, cached, lastEvent>>

\* No tool, no login, or the circuit is open.
CallRefused(a) ==
    /\ At(a, "status")
    /\ Records(a, "failed")
    /\ AnalysisEnds(a)
    /\ UNCHANGED <<configVars, revision, model, cached, circuit>>

\* Any answer of the tool closes the circuit.
CallAnswers(a) ==
    /\ At(a, "call")
    /\ circuit' = [circuit EXCEPT ![Provider(a)] = Closed]
    /\ AnalysisEnds(a)

\* parseAiAnalysis accepts the answer: saveAnalysis replaces what the key had.
AnswerKept(a) ==
    LET key == buildAnalysisCacheKey(analysis[a].of) IN
    /\ CallAnswers(a)
    /\ cached' = {c \in cached : c.key # key} \cup {[key |-> key, of |-> analysis[a].of]}
    /\ Records(a, "passed")
    /\ UNCHANGED <<configVars, revision, model>>

\* A mail is missing from the answer, or its evidence is not in the mail.
AnswerRejected(a) ==
    /\ CallAnswers(a)
    /\ Records(a, "failed")
    /\ UNCHANGED <<configVars, revision, model, cached>>

\* The tool fails or times out.  A failure that is not the provider's (a 4xx) does not count.
CallFails(a, counts) ==
    /\ At(a, "call")
    /\ LET n == circuit[Provider(a)].failures + 1 IN
       circuit' = IF counts
                  THEN [circuit EXCEPT ![Provider(a)] =
                           [failures |-> IF n > FailureThreshold THEN FailureThreshold ELSE n,
                            open |-> n >= FailureThreshold]]
                  ELSE circuit
    /\ Records(a, "failed")
    /\ AnalysisEnds(a)
    /\ UNCHANGED <<configVars, revision, model, cached>>

CircuitCools(p) ==
    /\ circuit[p].open
    /\ circuit' = [circuit EXCEPT ![p].open = FALSE]
    /\ UNCHANGED <<configVars, revision, model, analysis, cached, lastEvent>>

------------------------------------------------------------------------------
(* With the settings. *)

SettingsChange ==
    /\ ConfigNext
    /\ IF phase' = "serving" THEN UNCHANGED <<analysis, circuit>>
       ELSE /\ analysis' = [a \in Analyses |-> NoAnalysis]
            /\ circuit' = [p \in Providers |-> Closed]
    /\ UNCHANGED <<revision, model, cached, lastEvent>>

AnalysisNext ==
    \/ SettingsChange \/ MailRevised \/ ModelChanges
    \/ \E a \in Analyses :
         \/ enrichWithAI(a) \/ CallStarts(a) \/ CallRefused(a) \/ AnswerKept(a) \/ AnswerRejected(a)
         \/ \E counts \in BOOLEAN : CallFails(a, counts)
    \/ \E p \in Providers : CircuitCools(p)

AnalysisSpec == AnalysisInit /\ [][AnalysisNext]_analysisVars

------------------------------------------------------------------------------
(* Properties. *)

\* What the cache gives for the present mail, provider and model was answered by this
\* provider and model, and about this revision if it has a change key, although mail and
\* settings change while the tool runs.  What it gives for a revision without a change key
\* may be about another one without (enrichWithAI, buildAnalysisCacheKey).
AnalysisIsOfItsMail ==
    \A c \in cached : c.key = buildAnalysisCacheKey(Present) =>
        /\ c.of.provider = Present.provider /\ c.of.model = Present.model
        /\ IF revision \in WithChangeKey THEN c.of.revision = revision ELSE c.of.revision \notin WithChangeKey

=============================================================================
