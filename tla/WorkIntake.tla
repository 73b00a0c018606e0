------------------------------ MODULE WorkIntake ------------------------------
(***************************************************************************)
(* What the work intake makes of a stored mail: the master records read    *)
(* from CWOS in two requests, the work links the mail is given, and the    *)
(* candidate that is put into CWOS and recorded as delivered               *)
(* (mail-work-intake.js, sync-work-intake.js and the adapters cwos-*.js).  *)
(* The intake after a sync takes one mail after the other; a request of    *)
(* the operator takes one mail beside it.  Whose mail is taken in is the   *)
(* matter of IntakeGrant: here an intake keeps whether the binding it has  *)
(* captured is the present one.                                            *)
(*                                                                         *)
(* A text is the set of master records it names, {} one that is stored     *)
(* without body yet.  The text in `delivered` is not in the code: it is    *)
(* the one the candidate was confirmed for.                                *)
(***************************************************************************)
EXTENDS Naturals, FiniteSets

CONSTANTS
    CrmMails,        \* received mails
    CrmAccounts, CrmEngagements, \* master records
    AccountOf,       \* CrmEngagements -> the account its row names
    AccountMasterGet,\* whether accounts alone are read, and not the projection of a plan
    Texts,           \* sets of master records a body may name
    Editions,        \* sets of master records the projection may have
    MaxRevisions,    \* bound: revisions of a mail
    MaxRuntime,      \* bound: versions of the state of CWOS
    MaxPosts         \* bound: candidates on their way at once

CrmMasters == CrmAccounts \cup CrmEngagements

ASSUME IntakeAssumption ==
    /\ CrmMasters \in Editions /\ Editions \subseteq SUBSET CrmMasters
    /\ MaxRevisions \in Nat \ {0} /\ MaxRuntime \in Nat \ {0}

Intakes == {"sync", "request"}
NoRuntime == 0  \* no candidate is put forward: no masters, or one has failed
NoDelivery == [rev |-> 0, text |-> {}]
NoPost == [mail |-> "none", rev |-> 0, text |-> {}]

VARIABLES
    mailRow,      \* the rows of the mails
    crm,         \* CWOS: the version of its state, the rows of the projection
    candidates, crmPosts,  \* the candidates CWOS has, and those on their way
    intake,      \* the intakes between their awaits
    cwosLinks,   \* mail_work_links of system cwos
    delivered    \* the last mail.crm_candidate.delivered of every mail

crmVars == <<crm, candidates, crmPosts>>
workIntakeVars == <<mailRow, crmVars, intake, cwosLinks, delivered>>

Revisions == 1..MaxRevisions
Bodies == Texts \cup {{}}
Rows == [rev : Revisions, text : Bodies, gone : BOOLEAN]
Candidates == [mail : CrmMails, rev : Revisions, text : Bodies]

FirstRow == [rev |-> 1, text |-> {}, gone |-> FALSE]
NotRunning == [step |-> "idle", fresh |-> TRUE, todo |-> {}, row |-> FirstRow, runtime |-> NoRuntime,
               masters |-> {}, sent |-> NoPost]

IntakeStates ==
    [step : {"idle", "state", "masters", "ingest", "posting", "created", "conflict", "denied"}, fresh : BOOLEAN,
     todo : SUBSET CrmMails, row : Rows, runtime : 0..MaxRuntime, masters : SUBSET CrmMasters,
     sent : Candidates \cup {NoPost}]
CandidatePosts == [candidate : Candidates, expected : 1..MaxRuntime, awaited : BOOLEAN]
CwosLinkRecords == [master : CrmMasters, rev : Revisions, older : SUBSET Revisions]

IntakeTypeOK ==
    /\ mailRow \in [CrmMails -> Rows]
    /\ crm \in [version : 1..MaxRuntime, rows : Editions]
    /\ candidates \subseteq Candidates
    /\ crmPosts \subseteq CandidatePosts
    /\ intake \in [Intakes -> IntakeStates]
    /\ cwosLinks \in [CrmMails -> SUBSET CwosLinkRecords]
    /\ delivered \in [CrmMails -> [rev : 0..MaxRevisions, text : Bodies]]

IntakeInit ==
    /\ mailRow = [m \in CrmMails |-> FirstRow]
    /\ crm = [version |-> 1, rows |-> CrmMasters]
    /\ candidates = {} /\ crmPosts = {}
    /\ intake = [o \in Intakes |-> NotRunning]
    /\ cwosLinks = [m \in CrmMails |-> {}]
    /\ delivered = [m \in CrmMails |-> NoDelivery]

-----------------------------------------------------------------------------
(* Around the intake.  A mail is stored again, by a sync, with its          *)
(* attachments or by the backfill: with the body it lacked, in a new        *)
(* revision, or removed.                                                    *)
StoredAgain(m) ==
    /\ ~mailRow[m].gone
    /\ \E now \in Rows :
          /\ \/ now = [mailRow[m] EXCEPT !.gone = TRUE]
             \/ now.rev = mailRow[m].rev /\ mailRow[m].text = {} /\ ~now.gone
             \/ now.rev = mailRow[m].rev + 1 /\ ~now.gone
          /\ mailRow' = [mailRow EXCEPT ![m] = now]
    /\ UNCHANGED <<crmVars, intake, cwosLinks, delivered>>

BindingMoves ==
    /\ intake' = [o \in Intakes |-> [intake[o] EXCEPT !.fresh = intake[o].step = "idle"]]
    /\ UNCHANGED <<mailRow, crmVars, cwosLinks, delivered>>

(* what was posted may still arrive *)
Unawaited == {[p EXCEPT !.awaited = FALSE] : p \in crmPosts}
ServerRestarts ==
    /\ intake' = [o \in Intakes |-> NotRunning]
    /\ crmPosts' = Unawaited
    /\ UNCHANGED <<mailRow, crm, candidates, cwosLinks, delivered>>

(* Anything in CWOS is edited, its masters perhaps with it. *)
CrmMoves ==
    /\ crm.version < MaxRuntime
    /\ \E rows \in Editions : crm' = [version |-> crm.version + 1, rows |-> rows]
    /\ UNCHANGED <<mailRow, candidates, crmPosts, intake, cwosLinks, delivered>>

(* CWOS takes a candidate that was posted, perhaps after its sender has     *)
(* given up: one for a source, and none once its state has moved.           *)
SameOccurrence(c, d) == c.mail = d.mail /\ c.rev = d.rev
CrmTakes(p) ==
    LET known == {c \in candidates : SameOccurrence(c, p.candidate)}
        Answers(answer) ==
            intake' = IF p.awaited THEN [intake EXCEPT !["sync"].step = answer,
                                             !["sync"].runtime = IF answer = "created" THEN crm'.version ELSE @]
                      ELSE intake
    IN  /\ p \in crmPosts /\ crmPosts' = crmPosts \ {p}
        /\ \/ /\ known = {} /\ p.expected = crm.version /\ crm.version < MaxRuntime
              /\ candidates' = candidates \cup {p.candidate}
              /\ crm' = [crm EXCEPT !.version = @ + 1]
              /\ Answers("created")
           \/ /\ p.candidate \in known
              /\ UNCHANGED <<candidates, crm>> /\ Answers("created")
           \/ /\ known # {} \/ p.expected # crm.version
              /\ UNCHANGED <<candidates, crm>> /\ Answers("conflict")
           \/ UNCHANGED <<candidates, crm>> /\ Answers("denied")
        /\ UNCHANGED <<mailRow, cwosLinks, delivered>>

PostIsLost(p) ==
    /\ p \in crmPosts /\ crmPosts' = crmPosts \ {p}
    /\ intake' = IF p.awaited THEN [intake EXCEPT !["sync"].step = "denied"] ELSE intake
    /\ UNCHANGED <<mailRow, crm, candidates, cwosLinks, delivered>>

PostTimesOut(p) ==
    /\ p \in crmPosts /\ p.awaited
    /\ crmPosts' = (crmPosts \ {p}) \cup {[p EXCEPT !.awaited = FALSE]}
    /\ intake' = [intake EXCEPT !["sync"].step = "denied"]
    /\ UNCHANGED <<mailRow, crm, candidates, cwosLinks, delivered>>

-----------------------------------------------------------------------------
(* The masters are read in two requests: the state, then the projection of  *)
(* the plan or the list of accounts.                                        *)
Begins(o, mails, row) ==
    /\ intake[o].step = "idle"
    /\ intake' = [intake EXCEPT ![o] = [NotRunning EXCEPT !.step = "state", !.todo = mails, !.row = row]]
    /\ UNCHANGED <<mailRow, crmVars, cwosLinks, delivered>>

ingestAfterCommittedSync == \E mails \in (SUBSET CrmMails) \ {{}} : Begins("sync", mails, FirstRow)
RequestIntake(m) == ~mailRow[m].gone /\ Begins("request", {m}, mailRow[m])

StateAnswers(o) ==
    /\ intake[o].step = "state"
    /\ intake' = [intake EXCEPT ![o].step = "masters", ![o].runtime = IF o = "sync" THEN crm.version ELSE NoRuntime]
    /\ UNCHANGED <<mailRow, crmVars, cwosLinks, delivered>>

(* every engagement belongs to an account that was read with it             *)
ReferencesConsistent(rows) == \A e \in rows \cap CrmEngagements : AccountOf[e] \in rows
Readable == AccountMasterGet \/ ReferencesConsistent(crm.rows)
MastersRead == IF AccountMasterGet THEN crm.rows \cap CrmAccounts ELSE crm.rows

BindingCurrent(o) == intake[o].fresh

(* matchesFor looks at each master alone; a link keeps the revisions it was *)
(* made for before (CwosWorkSystemAdapter.candidate)                        *)
Linked(m, row, masters) ==
    LET named == row.text \cap masters
        Before(x) == {l \in cwosLinks[m] : l.master = x}
        Older(x) == UNION {l.older \cup ({l.rev} \ {row.rev}) : l \in Before(x)}
    IN  {l \in cwosLinks[m] : l.master \notin named}
          \cup {[master |-> x, rev |-> row.rev, older |-> Older(x)] : x \in named}

(* the transaction of ingest compares the mail with the one it began with *)
SourceCurrent(m, row) == mailRow[m] = row

MastersForSync ==
    /\ intake["sync"].step = "masters" /\ Readable
    /\ intake' = IF BindingCurrent("sync")
                 THEN [intake EXCEPT !["sync"].step = "ingest", !["sync"].masters = MastersRead]
                 ELSE [intake EXCEPT !["sync"] = NotRunning]
    /\ UNCHANGED <<mailRow, crmVars, cwosLinks, delivered>>

MastersForRequest(m) ==
    /\ intake["request"].step = "masters" /\ m \in intake["request"].todo /\ Readable
    /\ intake' = [intake EXCEPT !["request"] = NotRunning]
    /\ cwosLinks' = IF BindingCurrent("request") /\ SourceCurrent(m, intake["request"].row)
                    THEN [cwosLinks EXCEPT ![m] = Linked(m, intake["request"].row, MastersRead)]
                    ELSE cwosLinks
    /\ UNCHANGED <<mailRow, crmVars, delivered>>

(* no answer, a refusal, or what the archive's references contradict: a     *)
(* request fails with the read, a sync goes on without masters              *)
MastersFail(o) ==
    /\ intake[o].step \in {"state", "masters"}
    /\ intake' = IF o = "sync"
                 THEN [intake EXCEPT ![o].step = "ingest", ![o].runtime = NoRuntime]
                 ELSE [intake EXCEPT ![o] = NotRunning]
    /\ UNCHANGED <<mailRow, crmVars, cwosLinks, delivered>>

-----------------------------------------------------------------------------
(* After a sync: one mail after the other, and for some of them a candidate *)
AtMail(m) == intake["sync"].step = "ingest" /\ m \in intake["sync"].todo
Passed(m) == [intake EXCEPT !["sync"].todo = @ \ {m}]

IngestRefused(m) ==
    /\ AtMail(m) /\ (mailRow[m].gone \/ ~BindingCurrent("sync"))
    /\ intake' = Passed(m)
    /\ UNCHANGED <<mailRow, crmVars, cwosLinks, delivered>>

(* whether the rules take the mail for mere reference, or for a candidate   *)
(* of a project, is the matter of PrecisionRules                            *)
IngestMail(m) ==
    LET run == intake["sync"]
        row == mailRow[m]
        links == Linked(m, row, run.masters)
        candidate == [mail |-> m, rev |-> row.rev, text |-> row.text]
    IN  /\ AtMail(m) /\ ~row.gone /\ BindingCurrent("sync")
        /\ cwosLinks' = [cwosLinks EXCEPT ![m] = links]
        /\ \/ /\ intake' = Passed(m)  \* reference, or nothing to put forward
              /\ UNCHANGED crmPosts
           \/ /\ delivered[m].rev # row.rev /\ run.runtime # NoRuntime /\ Cardinality(crmPosts) < MaxPosts
              /\ intake' = [Passed(m) EXCEPT !["sync"].step = "posting", !["sync"].sent = candidate]
              /\ crmPosts' = crmPosts \cup {[candidate |-> candidate, expected |-> run.runtime, awaited |-> TRUE]}
        /\ UNCHANGED <<mailRow, crm, candidates, delivered>>

(* the answer counts while binding and source are still those of the post; *)
(* a failure keeps the mails that follow from being put forward             *)
StillCurrent ==
    LET posted == intake["sync"].sent
    IN  BindingCurrent("sync") /\ ~mailRow[posted.mail].gone /\ mailRow[posted.mail].rev = posted.rev
GoesOn(run) == intake' = [intake EXCEPT !["sync"] = [run EXCEPT !.step = "ingest", !.sent = NoPost]]
Confirmed(runtime) ==
    LET run == intake["sync"]
    IN  IF StillCurrent
        THEN /\ delivered' = [delivered EXCEPT ![run.sent.mail] = [rev |-> run.sent.rev, text |-> run.sent.text]]
             /\ GoesOn([run EXCEPT !.runtime = runtime])
        ELSE /\ GoesOn([run EXCEPT !.runtime = NoRuntime])
             /\ UNCHANGED delivered

AnswerArrives ==
    /\ \/ intake["sync"].step = "created" /\ Confirmed(intake["sync"].runtime)
       \/ intake["sync"].step = "denied" /\ GoesOn([intake["sync"] EXCEPT !.runtime = NoRuntime]) /\ UNCHANGED delivered
    /\ UNCHANGED <<mailRow, crmVars, cwosLinks>>

(* after a conflict: does CWOS have this very candidate? *)
BadSameCandidate(c, sent) == SameOccurrence(c, sent)
SameCandidate(c, sent) == c = sent
lookupConfirmedCandidate ==
    /\ intake["sync"].step = "conflict"
    /\ \/ (\E c \in candidates : SameCandidate(c, intake["sync"].sent)) /\ Confirmed(crm.version)
       \/ GoesOn([intake["sync"] EXCEPT !.runtime = NoRuntime]) /\ UNCHANGED delivered  \* or the lookup fails
    /\ UNCHANGED <<mailRow, crmVars, cwosLinks>>

SyncIntakeEnds ==
    /\ intake["sync"].step = "ingest" /\ intake["sync"].todo = {}
    /\ intake' = [intake EXCEPT !["sync"] = NotRunning]
    /\ UNCHANGED <<mailRow, crmVars, cwosLinks, delivered>>

IntakeNext ==
    \/ \E m \in CrmMails : StoredAgain(m) \/ RequestIntake(m) \/ MastersForRequest(m) \/ IngestRefused(m) \/ IngestMail(m)
    \/ BindingMoves \/ ServerRestarts \/ CrmMoves
    \/ \E p \in crmPosts : CrmTakes(p) \/ PostIsLost(p) \/ PostTimesOut(p)
    \/ ingestAfterCommittedSync \/ MastersForSync
    \/ \E o \in Intakes : StateAnswers(o) \/ MastersFail(o)
    \/ AnswerArrives \/ lookupConfirmedCandidate \/ SyncIntakeEnds

IntakeSpec == IntakeInit /\ [][IntakeNext]_workIntakeVars

-----------------------------------------------------------------------------
(* What the intake writes about a mail is of the mail as it then stands: a  *)
(* link names a master its text names, under its present revision, although *)
(* the masters were awaited (ingest), and a candidate is recorded as        *)
(* delivered for the present revision, and only if CWOS has it with the     *)
(* text that was posted, although answers get lost and bodies are filled in *)
(* between two attempts (CwosMailCandidateWriter.create).                   *)
WrittenOfTheMail ==
    [][\A m \in CrmMails :
         /\ \A l \in cwosLinks'[m] \ cwosLinks[m] : l.rev = mailRow[m].rev /\ l.master \in mailRow[m].text
         /\ delivered'[m] # delivered[m] =>
               /\ delivered'[m].rev = mailRow[m].rev
               /\ [mail |-> m, rev |-> delivered'[m].rev, text |-> delivered'[m].text] \in candidates]_workIntakeVars
===============================================================================
