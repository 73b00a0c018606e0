---------------------------- MODULE OperatorProofs ----------------------------
(***************************************************************************)
(* Proofs about what an operator does in the browser: composing a draft     *)
(* over a connection that loses answers, and signing in for the work        *)
(* intake.                                                                  *)
(*                                                                          *)
(* That a mail is filed under the account it was fetched from follows from  *)
(* what a proof is (ProofIsOfThePin), and that needs to be known of the     *)
(* proofs still under way: a registration about to be written holds a token *)
(* of the account it pins, and a sync takes the principal it files under    *)
(* from the binding it froze (GrantInFlight).                               *)
(*                                                                          *)
(* That a composition becomes one draft, as long as no import whose row was *)
(* removed drops its request id, follows from its attempts carrying one id  *)
(* (OneIdPerEdition): the attempts under way count as well as the drafts    *)
(* there are, and the id of the form is theirs as long as the form still    *)
(* shows the composition.  An import whose row is in the form drops the id  *)
(* too, but then nothing of the composition was submitted (Settled).        *)
(***************************************************************************)
EXTENDS MCComposer, FiniteSetTheorems, TLAPS

ProofIsOfThePin == proof # NoProof => pin # NoPin /\ Owner[proof] = pin.principal

GrantInFlight ==
    /\ \A r \in GrantRequests :
          /\ request[r].step \in {"prove", "write"} => request[r].pin # NoPin
          /\ request[r].step = "verify" => request[r].pin # NoPin
          /\ request[r].step = "write" =>
                request[r].token # NoToken /\ Owner[request[r].token] = request[r].pin.principal
    /\ run.step = "gate" => run.pin # NoPin
    /\ run.step \in {"masters", "intake"} => run.principal = run.pin.principal

GrantInv == GrantTypeOK /\ ProofIsOfThePin /\ GrantInFlight /\ FiledUnderItsAccount

-----------------------------------------------------------------------------
(* The principal of a pin is the account of some token.                     *)
LEMMA PinnedPrincipal ==
    ASSUME NEW p \in Pins, p # NoPin PROVE p.principal \in Accounts
  BY DEF Pins

(* What a registration would pin is a pin.                                  *)
LEMMA PlannedPin ==
    ASSUME GrantTypeOK, NEW p \in Accounts, NEW i \in Intents
    PROVE  planPinnedRegistration(p, i) \in Pins /\ planPinnedRegistration(p, i) # NoPin
  <1>1. pin \in Pins
    BY DEF GrantTypeOK
  <1>2. CASE pin = NoPin
    BY <1>2 DEF planPinnedRegistration, Pins, NoPin
  <1>3. CASE pin # NoPin
    <2> DEFINE planned == [pin EXCEPT !.intents = @ \cup {i}]
    <2>1. planned.intents = pin.intents \cup {i} /\ planned \in [principal : Accounts, intents : SUBSET Intents]
      BY <1>1, <1>3 DEF Pins
    <2>2. planned # NoPin
      BY <2>1 DEF NoPin
    <2> QED
      BY <1>3, <2>1, <2>2 DEF planPinnedRegistration, Pins
  <1> QED
    BY <1>2, <1>3

(* The grant begins unbound.                                               *)
LEMMA GrantInitInv == GrantInit => GrantInv
  BY DEF GrantInit, GrantInv, GrantTypeOK, ProofIsOfThePin, GrantInFlight, FiledUnderItsAccount,
         GrantCalls, GrantSyncs, Resting, NoRun, Pins, NoProof

(* A request that goes on, or is answered.                                  *)
LEMMA Awaiting ==
    ASSUME GrantTypeOK, NEW r \in GrantRequests, NEW change \in GrantCalls, Await(r, change)
    PROVE  /\ request' \in [GrantRequests -> GrantCalls]
           /\ request'[r] = change
           /\ \A q \in GrantRequests \ {r} : request'[q] = request[q]
  BY DEF GrantTypeOK, Await

(* A call at rest is one of the states of a call.                          *)
LEMMA RestIsACall == Resting \in GrantCalls /\ Resting.step = "idle"
  BY DEF Resting, GrantCalls, Pins

(* The token, the mailbox and the client change: the proof is kept or taken *)
(* back.                                                                    *)
LEMMA TokenSteps ==
    ASSUME GrantInv, NEW r \in GrantRequests,
           RefreshStarts(r) \/ publishRefreshedAccessToken(r) \/ LoginEnds(r) \/ SettingsStart(r) \/ SettingsEnd(r)
    PROVE  GrantInv'
  <1> USE DEF GrantInv
  <1>1. /\ UNCHANGED <<pin, pinFile, run, ingested>>
        /\ proof' \in {proof, NoProof} /\ fresh' \subseteq fresh
        /\ token' \in Tokens \cup {NoToken} /\ inbox' \in {"me", "shared"}
    BY DEF GrantTypeOK, GrantCalls, RefreshStarts, publishRefreshedAccessToken, LoginEnds, SettingsStart, SettingsEnd,
           noteIntakeRuntimeChange, Raise, Same
  <1>2. PICK change \in GrantCalls : Await(r, change) /\ change.step \in {"idle", "refresh", "saved", "settings"}
    <2> USE DEF GrantCalls, Resting, Pins
    <2>1. token \in Tokens \cup {NoToken} /\ request[r] \in GrantCalls
      BY DEF GrantTypeOK
    <2>2. CASE RefreshStarts(r)
      <3> DEFINE change == [Resting EXCEPT !.step = "refresh", !.token = token]
      <3>1. change \in GrantCalls /\ change.step = "refresh"
        BY <2>1
      <3> QED
        BY <2>2, <3>1 DEF RefreshStarts
    <2>3. CASE publishRefreshedAccessToken(r)
      BY <2>3, RestIsACall DEF publishRefreshedAccessToken, Rest
    <2>4. CASE LoginEnds(r)
      <3>1. PICK t \in Tokens : Await(r, [Resting EXCEPT !.step = "saved", !.token = t])
        BY <2>4 DEF LoginEnds
      <3> DEFINE change == [Resting EXCEPT !.step = "saved", !.token = t]
      <3>2. change \in GrantCalls /\ change.step = "saved"
        OBVIOUS
      <3> QED
        BY <3>1, <3>2
    <2>5. CASE SettingsStart(r)
      <3>1. PICK t \in Tokens \cup {NoToken}, m \in {"me", "shared"} :
              Await(r, [Resting EXCEPT !.step = "settings", !.before = token, !.token = t, !.selected = m])
        BY <2>5 DEF SettingsStart
      <3> DEFINE change == [Resting EXCEPT !.step = "settings", !.before = token, !.token = t, !.selected = m]
      <3>2. change \in GrantCalls /\ change.step = "settings"
        BY <2>1
      <3> QED
        BY <3>1, <3>2
    <2>6. CASE SettingsEnd(r)
      <3> DEFINE change == [Resting EXCEPT !.step = "saved", !.token = token']
      <3>1. change \in GrantCalls /\ change.step = "saved"
        BY <1>1
      <3> QED
        BY <2>6, <3>1 DEF SettingsEnd
    <2> QED
      BY <2>2, <2>3, <2>4, <2>5, <2>6
  <1>3. GrantTypeOK'
    BY <1>1, <1>2, Awaiting DEF GrantTypeOK
  <1>4. GrantInFlight'
    BY <1>1, <1>2, Awaiting DEF GrantInFlight
  <1> QED
    BY <1>1, <1>3, <1>4 DEF ProofIsOfThePin, FiledUnderItsAccount

(* A token is proven to be the pinned account's, or taken back.             *)
LEMMA VerifySteps ==
    ASSUME GrantInv, NEW r \in GrantRequests, reverifyIntakeToken(r) \/ VerifyEnds(r)
    PROVE  GrantInv'
  <1> USE DEF GrantInv
  <1>1. UNCHANGED <<token, inbox, pin, pinFile, run, ingested>> /\ request[r] \in GrantCalls
    BY DEF GrantTypeOK, reverifyIntakeToken, VerifyEnds
  <1>2. CASE reverifyIntakeToken(r)
    <2>1. proof' \in {proof, NoProof} /\ fresh' \subseteq fresh \cup {r}
      BY <1>2 DEF reverifyIntakeToken, Raise, Same
    <2>2. PICK change \in GrantCalls : Await(r, change) /\ change.step \in {"idle", "verify"} /\ (change.step = "verify" => change.pin # NoPin)
      <3> DEFINE change == [request[r] EXCEPT !.step = "verify", !.pin = pin]
      <3>1. change \in GrantCalls /\ change.step = "verify" /\ change.pin = pin
        BY <1>1 DEF GrantCalls, GrantTypeOK
      <3> HIDE DEF change
      <3>2. (Await(r, change) /\ pin # NoPin) \/ Await(r, Resting)
        BY <1>2 DEF reverifyIntakeToken, Rest, Configured, change
      <3> QED
        BY <3>1, <3>2, RestIsACall
    <2> QED
      BY <1>1, <2>1, <2>2, Awaiting DEF GrantTypeOK, ProofIsOfThePin, GrantInFlight, FiledUnderItsAccount
  <1>3. CASE VerifyEnds(r)
    <2>1. /\ Await(r, Resting) /\ fresh' \subseteq fresh
          /\ \/ proof' \in {proof, NoProof}
             \/ proof' = request[r].token /\ request[r].token # NoToken /\ pin # NoPin /\ Owner[proof'] = pin.principal
      BY <1>3 DEF VerifyEnds, Rest, Raise, Same, publishProof, proveDelegatedIdentity, GrantInFlight
    <2> QED
      BY <1>1, <2>1, Awaiting, RestIsACall
         DEF GrantTypeOK, GrantCalls, ProofIsOfThePin, GrantInFlight, FiledUnderItsAccount, NoProof
  <1> QED
    BY <1>2, <1>3

(* An identity is registered: proven, written, and published.               *)
LEMMA RegistrationSteps ==
    ASSUME GrantInv, NEW r \in GrantRequests,
           registerIntakeIdentity(r) \/ RegistrationProved(r) \/ publishRegistration(r)
    PROVE  GrantInv'
  <1> USE DEF GrantInv
  <1>1. UNCHANGED <<token, inbox, run, ingested>> /\ request[r] \in GrantCalls
    BY DEF GrantTypeOK, registerIntakeIdentity, RegistrationProved, publishRegistration
  <1>2. CASE registerIntakeIdentity(r)
    <2>1. PICK p \in Accounts, i \in Intents :
            Await(r, [Resting EXCEPT !.step = "prove", !.token = token, !.pin = planPinnedRegistration(p, i)])
      BY <1>2 DEF registerIntakeIdentity
    <2> DEFINE change == [Resting EXCEPT !.step = "prove", !.token = token, !.pin = planPinnedRegistration(p, i)]
    <2>2. change \in GrantCalls /\ change.step = "prove" /\ change.pin # NoPin
      BY PlannedPin DEF GrantCalls, GrantTypeOK, Resting
    <2> HIDE DEF change
    <2>3. Await(r, change) /\ UNCHANGED <<pin, pinFile, proof>> /\ fresh' = fresh \cup {r}
      BY <1>2, <2>1 DEF registerIntakeIdentity, change
    <2> QED
      BY <1>1, <2>2, <2>3, Awaiting DEF GrantTypeOK, ProofIsOfThePin, GrantInFlight, FiledUnderItsAccount
  <1>3. CASE RegistrationProved(r)
    <2>1. UNCHANGED <<pin, pinFile>> /\ proof' \in {proof, NoProof} /\ fresh' \subseteq fresh
      BY <1>3 DEF RegistrationProved, Raise, Same
    <2> DEFINE change == [request[r] EXCEPT !.step = "write"]
    <2>2. change \in GrantCalls /\ change.step = "write" /\ change.token = request[r].token /\ change.pin = request[r].pin
      BY <1>1 DEF GrantCalls
    <2> HIDE DEF change
    <2>3. \/ Await(r, change) /\ request[r].token # NoToken /\ Owner[request[r].token] = request[r].pin.principal
          \/ Await(r, Resting)
      BY <1>3 DEF RegistrationProved, Rest, proveDelegatedIdentity, change
    <2>4. request[r].pin # NoPin
      BY <1>3 DEF RegistrationProved, GrantInFlight
    <2>5. CASE Await(r, Resting)
      BY <1>1, <2>1, <2>5, Awaiting, RestIsACall DEF GrantTypeOK, ProofIsOfThePin, GrantInFlight, FiledUnderItsAccount
    <2>6. CASE Await(r, change) /\ request[r].token # NoToken /\ Owner[request[r].token] = request[r].pin.principal
      BY <1>1, <2>1, <2>2, <2>4, <2>6, Awaiting DEF GrantTypeOK, ProofIsOfThePin, GrantInFlight, FiledUnderItsAccount
    <2> QED
      BY <2>3, <2>5, <2>6
  <1>4. CASE publishRegistration(r)
    <2>1. /\ Await(r, Resting) /\ UNCHANGED fresh /\ pinFile' = request[r].pin
          /\ \/ UNCHANGED <<pin, proof>>
             \/ /\ pin' = request[r].pin /\ proof' = request[r].token
                /\ request[r].pin # NoPin /\ Owner[request[r].token] = request[r].pin.principal
      BY <1>4 DEF publishRegistration, Rest, GrantInFlight
    <2>2. GrantTypeOK'
      BY <1>1, <2>1, Awaiting, RestIsACall DEF GrantTypeOK, GrantCalls, NoProof
    <2>3. GrantInFlight'
      BY <1>1, <2>1, Awaiting, RestIsACall DEF GrantInFlight
    <2> QED
      BY <1>1, <2>1, <2>2, <2>3 DEF ProofIsOfThePin, FiledUnderItsAccount
  <1> QED
    BY <1>2, <1>3, <1>4

-----------------------------------------------------------------------------
(* The sync.                                                                *)
LEMMA GateSteps ==
    ASSUME GrantInv, SyncUnbound \/ captureVerifiedIntakeSync \/ GateVerifies \/ GateRefuses
    PROVE  GrantInv'
  <1> USE DEF GrantInv
  <1>1. UNCHANGED <<token, inbox, pin, pinFile, request, ingested>>
    BY DEF SyncUnbound, captureVerifiedIntakeSync, GateVerifies, GateRefuses
  <1>2. fresh' \subseteq fresh \cup {Sync}
    BY DEF SyncUnbound, captureVerifiedIntakeSync, GateVerifies, GateRefuses, Freeze, Raise, Same
  <1>3. /\ proof' \in Tokens \cup {NoProof}
        /\ proof' # NoProof => pin # NoPin /\ Owner[proof'] = pin.principal
    BY DEF GrantTypeOK, GrantSyncs, ProofIsOfThePin, SyncUnbound, captureVerifiedIntakeSync, GateVerifies, GateRefuses,
           publishProof, proveDelegatedIdentity, Configured, Raise, Same, NoProof
  <1>4. run' \in GrantSyncs /\ run'.step \notin {"masters", "intake"} /\ (run'.step = "gate" => run'.pin # NoPin)
    <2> USE DEF GrantSyncs, Pins, NoRun
    <2>1. run \in GrantSyncs /\ pin \in Pins /\ token \in Tokens \cup {NoToken}
      BY DEF GrantTypeOK
    <2>2. CASE SyncUnbound
      BY <2>1, <2>2 DEF SyncUnbound
    <2>3. CASE captureVerifiedIntakeSync
      <3> DEFINE step == IF ProofIsFor(token) THEN "fetch" ELSE "gate"
      <3>1. run' = [NoRun EXCEPT !.step = step, !.token = token, !.pin = pin] /\ pin # NoPin
        BY <2>3 DEF captureVerifiedIntakeSync, Configured
      <3>2. step \in {"fetch", "gate"}
        OBVIOUS
      <3> HIDE DEF step
      <3> QED
        BY <2>1, <3>1, <3>2
    <2>4. CASE GateVerifies
      BY <2>1, <2>4 DEF GateVerifies, Freeze
    <2>5. CASE GateRefuses
      BY <2>5 DEF GateRefuses
    <2> QED
      BY <2>2, <2>3, <2>4, <2>5
  <1> QED
    BY <1>1, <1>2, <1>3, <1>4 DEF GrantTypeOK, ProofIsOfThePin, GrantInFlight, FiledUnderItsAccount

(* A sync keeps the principal it froze.                                    *)
LEMMA IntakeSteps ==
    ASSUME GrantInv,
           ingestAfterCommittedSync \/ MastersAreRead \/ SyncEnds \/ \E m \in IntakeMails : ingest(m)
    PROVE  GrantInv'
  <1> USE DEF GrantInv
  <1>1. UNCHANGED <<token, inbox, pin, pinFile, proof, fresh, request>> /\ run \in GrantSyncs /\ pin \in Pins
    BY DEF GrantTypeOK, ingestAfterCommittedSync, MastersAreRead, SyncEnds, ingest
  <1>2. CASE ingestAfterCommittedSync
    <2>1. run' = [run EXCEPT !.step = "masters", !.principal = pin.principal, !.todo = IntakeMails]
      BY <1>2 DEF ingestAfterCommittedSync
    <2>2. pin = run.pin /\ pin # NoPin /\ UNCHANGED ingested
      BY <1>2 DEF ingestAfterCommittedSync, MayTakeIn, assertFrozen
    <2>3. run' \in GrantSyncs /\ run'.step = "masters" /\ run'.principal = run'.pin.principal
      BY <1>1, <2>1, <2>2, PinnedPrincipal DEF GrantSyncs
    <2> QED
      BY <1>1, <2>2, <2>3 DEF GrantTypeOK, ProofIsOfThePin, GrantInFlight, FiledUnderItsAccount
  <1>3. CASE MastersAreRead \/ SyncEnds
    <2>1. UNCHANGED ingested /\ run' \in GrantSyncs /\ run'.step \in {"intake", "idle"}
          /\ (run'.step = "intake" => run'.principal = run'.pin.principal)
      BY <1>1, <1>3 DEF MastersAreRead, SyncEnds, GrantSyncs, GrantInFlight, NoRun, Pins
    <2> QED
      BY <1>1, <2>1 DEF GrantTypeOK, ProofIsOfThePin, GrantInFlight, FiledUnderItsAccount
  <1>4. CASE \E m \in IntakeMails : ingest(m)
    <2>1. PICK m \in IntakeMails : ingest(m)
      BY <1>4
    <2>2. /\ run.principal = pin.principal /\ pin # NoPin
          /\ run.token \in Tokens /\ Owner[run.token] = pin.principal
      BY <1>1, <2>1 DEF ingest, MayTakeIn, assertFrozen, ProofIsFor, ProofIsOfThePin, GrantInFlight, GrantTypeOK
    <2>3. <<m, Owner[run.token], run.principal>> \in IntakeMails \X Accounts \X Accounts
      BY <1>1, <2>2, PinnedPrincipal DEF Accounts
    <2>4. ingested' = ingested \cup {<<m, Owner[run.token], run.principal>>}
      BY <2>1 DEF ingest
    <2>5. run' \in GrantSyncs /\ run'.step = run.step /\ run'.pin = run.pin /\ run'.principal = run.principal
      BY <1>1, <2>1 DEF ingest, GrantSyncs
    <2> QED
      BY <1>1, <2>2, <2>3, <2>4, <2>5 DEF GrantTypeOK, ProofIsOfThePin, GrantInFlight, FiledUnderItsAccount
  <1> QED
    BY <1>2, <1>3, <1>4

(* A proof is of the account that is pinned, in the settings and in every  *)
(* call and sync under way, and what is filed is filed under it.           *)
THEOREM GrantInvariant == GrantSpec => []GrantInv
  <1>1. ASSUME GrantInv, [GrantNext]_grantVars PROVE GrantInv'
    <2>1. CASE UNCHANGED grantVars
      BY <1>1, <2>1 DEF grantVars, GrantInv, GrantTypeOK, ProofIsOfThePin, GrantInFlight, FiledUnderItsAccount
    <2>2. CASE GrantRestart
      BY <1>1, <2>2 DEF GrantRestart, Raise, GrantInv, GrantTypeOK, GrantCalls, GrantSyncs, Pins, Resting, NoRun, NoProof,
                        ProofIsOfThePin, GrantInFlight, FiledUnderItsAccount
    <2> QED
      BY <1>1, <2>1, <2>2, TokenSteps, VerifySteps, RegistrationSteps, GateSteps, IntakeSteps DEF GrantNext
  <1> QED
    BY GrantInitInv, <1>1, PTL DEF GrantSpec

(* Types of the grant, of the requests under way and of the sync.           *)
THEOREM GrantTypeCorrect == GrantSpec => []GrantTypeOK
  BY GrantInvariant, PTL DEF GrantInv

(* Every mail taken in is filed under the account it was fetched from,      *)
(* however many tokens, accounts and requests there are.                    *)
THEOREM FiledByAccount == GrantSpec => []FiledUnderItsAccount
  BY GrantInvariant, PTL DEF GrantInv

-----------------------------------------------------------------------------
(* The composer.  An attempt is a creation on its way, or done.             *)
Attempts == creations \cup {created[i] : i \in DOMAIN created}

OneIdPerEdition ==
    /\ \A x \in Attempts : /\ x.request \in 1..requestIds /\ x.edition <= edition /\ x.forgotten <= forgotten
                           /\ x.edition = edition /\ x.forgotten = forgotten => x.request = requestId
    /\ \A x, y \in Attempts : x.edition = y.edition /\ x.forgotten = y.forgotten => x.request = y.request

Settled ==
    /\ \A f \in importing : fileState[f] = "uploading"
    /\ (\E x \in Attempts : x.edition = edition) => attached \cap importing = {}

OneDraftPerId == \A i, j \in DOMAIN created : created[i].request = created[j].request => i = j

Compositions == [wording : Wordings \cup {Blank}, files : SUBSET AttachableFiles, links : SUBSET ReviewLinks]
Posts == [request : Nat, of : Compositions, edition : Nat, forgotten : Nat, heard : BOOLEAN]
CreatedDrafts == [request : Nat, of : Compositions, edition : Nat, forgotten : Nat]
Savings == [phase : {"idle", "posting", "answered", "refused", "listing"}, draft : Nat]

Batches == {files \in Seq(LocalFiles) : files # <<>>}

FormTypes ==
    /\ wording \in Wordings \cup {Blank} /\ linked \subseteq ReviewLinks /\ attached \subseteq AttachableFiles
    /\ fileState \in [AttachableFiles -> {"new", "waiting", "uploading", "ready", "failed"}]
    /\ \A f \in attached : fileState[f] \in {"uploading", "ready", "failed"}
    /\ batches \subseteq Batches /\ importing \subseteq DriveFilesSeen

IdTypes ==
    /\ requestIds \in 0..MaxRequestIds /\ requestId \in 0..requestIds /\ edition \in Nat /\ forgotten \in Nat

ServerTypes ==
    /\ creations \subseteq Posts /\ created \in Seq(CreatedDrafts)
    /\ saving \in Savings /\ saving.draft <= Len(created)

ViewTypes ==
    /\ selectedDraft \in 0..Len(created) /\ shownDraft \in 0..Len(created)
    /\ listedDrafts \in 0..Len(created) /\ acting \in 0..Len(created)
    /\ \A detail \in details : detail.draft \in 0..Len(created)

ComposerInv == FormTypes /\ IdTypes /\ ServerTypes /\ ViewTypes /\ OneIdPerEdition /\ OneDraftPerId /\ Settled

(* The composer begins empty.                                              *)
LEMMA ComposerInitInv == ComposerInit => ComposerInv
  <1> SUFFICES ASSUME ComposerInit PROVE ComposerInv
    OBVIOUS
  <1>1. FormTypes /\ IdTypes
    BY ComposerAssumption DEF ComposerInit, FormTypes, IdTypes, AttachableFiles, Absent
  <1>2. ServerTypes /\ ViewTypes
    BY DEF ComposerInit, ServerTypes, ViewTypes, NotSaving, Savings, Absent
  <1>3. OneIdPerEdition /\ OneDraftPerId /\ Settled
    BY DEF ComposerInit, OneIdPerEdition, OneDraftPerId, Settled, Attempts
  <1> QED
    BY <1>1, <1>2, <1>3 DEF ComposerInv

(* With every change of the composition the attempts there are become those *)
(* of an earlier one; while it stays what it is, its request id is given up *)
(* only before it is submitted, or with an import that is forgotten.        *)
LEMMA NewEdition ==
    ASSUME ComposerInv, UNCHANGED serverVars, UNCHANGED requestIds,
           edition' \in Nat, edition' >= edition, forgotten' \in Nat, forgotten' >= forgotten,
           edition' = edition /\ forgotten' = forgotten /\ requestId' # requestId => attached \cap importing # {},
           edition' = edition => attached' \cap importing' \subseteq attached \cap importing,
           \A f \in importing' : fileState'[f] = "uploading"
    PROVE  OneIdPerEdition' /\ OneDraftPerId' /\ Settled'
  <1>1. \A x \in Attempts : x.edition \in Nat /\ x.forgotten \in Nat
    <2>1. \A x \in creations : x.edition \in Nat /\ x.forgotten \in Nat
      BY DEF ComposerInv, ServerTypes, Posts
    <2>2. \A i \in DOMAIN created : created[i] \in CreatedDrafts
      BY DEF ComposerInv, ServerTypes
    <2> QED
      BY <2>1, <2>2 DEF Attempts, CreatedDrafts
  <1>2. Attempts' = Attempts
    BY DEF Attempts, serverVars
  <1>3. \A x \in Attempts : x.edition <= edition' /\ (x.edition = edition' => edition' = edition)
    BY <1>1 DEF ComposerInv, IdTypes, OneIdPerEdition
  <1>4. Settled'
    BY <1>2, <1>3 DEF ComposerInv, Settled
  <1>5. \A x \in Attempts : x.edition = edition' /\ x.forgotten = forgotten' => x.request = requestId'
    <2> SUFFICES ASSUME NEW x \in Attempts, x.edition = edition', x.forgotten = forgotten' PROVE x.request = requestId'
      OBVIOUS
    <2>1. edition' = edition /\ forgotten' = forgotten
      BY <1>1, <1>3 DEF ComposerInv, IdTypes, OneIdPerEdition
    <2> QED
      BY <2>1 DEF ComposerInv, Settled, OneIdPerEdition
  <1>6. \A x \in Attempts : x.forgotten <= forgotten'
    BY <1>1 DEF ComposerInv, IdTypes, OneIdPerEdition
  <1> QED
    BY <1>2, <1>3, <1>4, <1>5, <1>6 DEF ComposerInv, OneIdPerEdition, OneDraftPerId, serverVars

(* Composing changes the form and no draft.                                *)
LEMMA ComposingSteps ==
    ASSUME ComposerInv,
           \/ \E words \in Wordings : Type(words)
           \/ \E link \in ReviewLinks : AddLink(link) \/ RemoveLink(link)
           \/ \E f \in AttachableFiles : RemoveFile(f)
           \/ \E f \in DriveFilesSeen : importDriveFile(f)
           \/ \E f \in importing, outcome \in {"ready", "failed"} : ImportEnds(f, outcome)
    PROVE  ComposerInv'
  <1> USE DEF ComposerInv
  <1>1. UNCHANGED <<batches, requestIds, saving, serverVars, viewVars>>
    BY DEF Type, AddLink, RemoveLink, RemoveFile, importDriveFile, ImportEnds
  <1>2. /\ edition' \in Nat /\ edition' >= edition /\ forgotten' \in Nat /\ forgotten' >= forgotten
        /\ requestId' \in {requestId, Absent}
    BY DEF IdTypes, Edits, Type, AddLink, RemoveLink, RemoveFile, importDriveFile, ImportEnds
  <1>3. /\ edition' = edition /\ forgotten' = forgotten /\ requestId' # requestId => attached \cap importing # {}
        /\ edition' = edition => attached' \cap importing' \subseteq attached \cap importing
    BY DEF IdTypes, Edits, Type, AddLink, RemoveLink, RemoveFile, importDriveFile, ImportEnds
  <1>4. FormTypes'
    BY DEF FormTypes, AttachableFiles, Type, AddLink, RemoveLink, RemoveFile, importDriveFile, ImportEnds
  <1>5. \A f \in importing' : fileState'[f] = "uploading"
    BY DEF Settled, FormTypes, AttachableFiles, Type, AddLink, RemoveLink, RemoveFile, importDriveFile, ImportEnds
  <1>6. IdTypes'
    BY <1>1, <1>2 DEF IdTypes, Absent
  <1> QED
    BY <1>1, <1>2, <1>3, <1>4, <1>5, <1>6, NewEdition DEF ServerTypes, ViewTypes, serverVars, viewVars

(* Files chosen together follow one another into whatever is composed.      *)
LEMMA UploadSteps ==
    ASSUME ComposerInv,
           \/ \E f \in LocalFiles : ChooseFiles(<<f>>) \/ \E g \in LocalFiles \ {f} : ChooseFiles(<<f, g>>)
           \/ \E files \in batches, outcome \in {"ready", "failed"} : UploadEnds(files, outcome)
    PROVE  ComposerInv'
  <1> USE DEF ComposerInv
  <1>1. UNCHANGED <<wording, linked, importing, requestId, requestIds, forgotten, saving, serverVars, viewVars>>
    BY DEF ChooseFiles, UploadEnds
  <1>2. FormTypes' /\ edition' \in Nat /\ edition' >= edition /\ (edition' = edition => attached' = attached)
    <2>1. ASSUME NEW files \in Seq(LocalFiles), files # <<>>, ChooseFiles(files)
          PROVE  FormTypes' /\ edition' \in Nat /\ edition' >= edition /\ (edition' = edition => attached' = attached)
      <3>1. Head(files) \in LocalFiles /\ 1 \in DOMAIN files /\ Head(files) = files[1]
        BY <2>1
      <3>2. edition' \in Nat /\ edition' > edition
        BY <2>1 DEF ChooseFiles, Edits, IdTypes
      <3>3. fileState' \in [AttachableFiles -> {"new", "waiting", "uploading", "ready", "failed"}]
        BY <2>1 DEF ChooseFiles, FormTypes
      <3>4. \A f \in attached' : fileState'[f] \in {"uploading", "ready", "failed"}
        <4> SUFFICES ASSUME NEW f \in attached', f # Head(files)
                     PROVE  fileState'[f] \in {"uploading", "ready", "failed"}
          BY <2>1, <3>1 DEF ChooseFiles, FormTypes, AttachableFiles
        <4>1. f \in attached /\ f \in AttachableFiles
          BY <2>1 DEF ChooseFiles, FormTypes
        <4>2. \A i \in DOMAIN files : files[i] # f
          BY <2>1, <4>1 DEF ChooseFiles, FormTypes
        <4> QED
          BY <2>1, <4>1, <4>2 DEF ChooseFiles, FormTypes
      <3> QED
        BY <1>1, <2>1, <3>1, <3>2, <3>3, <3>4 DEF ChooseFiles, FormTypes, AttachableFiles, Batches, IdTypes
    <2>2. ASSUME NEW files \in batches, NEW outcome \in {"ready", "failed"}, UploadEnds(files, outcome)
          PROVE  FormTypes' /\ edition' \in Nat /\ edition' >= edition /\ (edition' = edition => attached' = attached)
      <3> DEFINE rest == Tail(files)
                 next == IF rest = <<>> THEN {} ELSE {Head(rest)}
      <3>1. files \in Seq(LocalFiles) /\ files # <<>>
        BY DEF FormTypes, Batches
      <3>2. rest \in Seq(LocalFiles) /\ next \subseteq LocalFiles
        BY <3>1
      <3>3. Cardinality(next) \in {0, 1} /\ (Cardinality(next) = 0 => next = {})
        BY FS_EmptySet, FS_Singleton
      <3> HIDE DEF rest, next
      <3>4. /\ fileState' = [f \in AttachableFiles |->
                  IF f = Head(files) THEN outcome ELSE IF f \in next THEN "uploading" ELSE fileState[f]]
            /\ batches' = (batches \ {files}) \cup (IF rest = <<>> THEN {} ELSE {rest})
            /\ attached' = attached \cup next
            /\ edition' = edition + Cardinality(next)
        BY <2>2 DEF UploadEnds, rest, next
      <3>5. edition' \in Nat /\ edition' >= edition /\ (edition' = edition => attached' = attached)
        BY <3>3, <3>4 DEF IdTypes
      <3>6. fileState' \in [AttachableFiles -> {"new", "waiting", "uploading", "ready", "failed"}]
        BY <3>4 DEF FormTypes
      <3>7. \A f \in attached' : fileState'[f] \in {"uploading", "ready", "failed"}
        BY <3>2, <3>4 DEF FormTypes, AttachableFiles
      <3>8. batches' \subseteq Batches /\ attached' \subseteq AttachableFiles
        BY <3>2, <3>4 DEF FormTypes, AttachableFiles, Batches
      <3> QED
        BY <1>1, <3>5, <3>6, <3>7, <3>8 DEF FormTypes
    <2>3. \A f, g \in LocalFiles : <<f>> \in Seq(LocalFiles) /\ <<f>> # <<>> /\ <<f, g>> \in Seq(LocalFiles) /\ <<f, g>> # <<>>
      OBVIOUS
    <2>4. CASE \E f \in LocalFiles : ChooseFiles(<<f>>) \/ \E g \in LocalFiles \ {f} : ChooseFiles(<<f, g>>)
      BY <2>1, <2>3, <2>4
    <2> QED
      BY <2>2, <2>4
  <1>3. IdTypes'
    BY <1>1, <1>2 DEF IdTypes
  <1>4. \A f \in importing' : fileState'[f] = "uploading"
    <2>1. \A f \in importing : f \in AttachableFiles /\ f \notin LocalFiles /\ fileState[f] = "uploading"
      BY ComposerAssumption DEF FormTypes, AttachableFiles, Settled
    <2>2. \A f \in AttachableFiles : fileState'[f] = fileState[f] \/ f \in LocalFiles
      <3>1. ASSUME NEW files \in Seq(LocalFiles), files # <<>>, ChooseFiles(files)
            PROVE  \A f \in AttachableFiles : fileState'[f] = fileState[f] \/ f \in LocalFiles
        <4>1. \A i \in DOMAIN files : files[i] \in LocalFiles
          BY <3>1
        <4>2. Head(files) \in LocalFiles
          BY <3>1
        <4> QED
          BY <3>1, <4>1, <4>2 DEF ChooseFiles
      <3>2. ASSUME NEW files \in batches, NEW outcome \in {"ready", "failed"}, UploadEnds(files, outcome)
            PROVE  \A f \in AttachableFiles : fileState'[f] = fileState[f] \/ f \in LocalFiles
        <4>1. files \in Seq(LocalFiles) /\ files # <<>>
          BY DEF FormTypes, Batches
        <4>2. Head(files) \in LocalFiles /\ (Tail(files) # <<>> => Head(Tail(files)) \in LocalFiles)
          BY <4>1
        <4> QED
          BY <3>2, <4>2 DEF UploadEnds
      <3>3. \A f, g \in LocalFiles : <<f>> \in Seq(LocalFiles) /\ <<f>> # <<>> /\ <<f, g>> \in Seq(LocalFiles) /\ <<f, g>> # <<>>
        OBVIOUS
      <3>4. CASE \E f \in LocalFiles : ChooseFiles(<<f>>) \/ \E g \in LocalFiles \ {f} : ChooseFiles(<<f, g>>)
        BY <3>1, <3>3, <3>4
      <3> QED
        BY <3>2, <3>4
    <2> QED
      BY <1>1, <2>1, <2>2
  <1> QED
    BY <1>1, <1>2, <1>3, <1>4, NewEdition DEF IdTypes, ServerTypes, ViewTypes, serverVars, viewVars

-----------------------------------------------------------------------------
(* What is shown and asked for: drafts that exist.                          *)
LEMMA ViewSteps ==
    ASSUME ComposerInv,
           \/ \E draft \in 1..Len(created) : Select(draft)
           \/ \E detail \in details, arrived \in BOOLEAN : DetailArrives(detail, arrived)
           \/ refreshDrafts \/ act \/ ActAnswers \/ ActFails
           \/ \E list \in lists, arrived \in BOOLEAN :
                 ListArrives(list, arrived) \/ ActListed(list, arrived) \/ SaveListed(list, arrived)
    PROVE  ComposerInv'
  <1> USE DEF ComposerInv
  <1>1. UNCHANGED <<composeVars, serverVars>> /\ saving' \in {saving, NotSaving}
    BY DEF Select, DetailArrives, refreshDrafts, act, ActAnswers, ActFails, ListArrives, ActListed, SaveListed, Acted
  <1>2. FormTypes' /\ IdTypes' /\ ServerTypes'
    BY <1>1 DEF FormTypes, IdTypes, ServerTypes, composeVars, serverVars, NotSaving, Savings, Absent
  <1>3. OneIdPerEdition' /\ OneDraftPerId' /\ Settled'
    BY <1>1 DEF OneIdPerEdition, OneDraftPerId, Settled, Attempts, composeVars, serverVars
  <1>4. ViewTypes'
    <2> USE DEF ViewTypes, ServerTypes, serverVars, Absent
    <2>1. Len(created) \in Nat /\ created' = created /\ saving.draft \in 0..Len(created)
      BY <1>1 DEF Savings
    <2>2. CASE \E draft \in 1..Len(created) : Select(draft)
      BY <2>1, <2>2 DEF Select, Selects
    <2>3. CASE \E detail \in details, arrived \in BOOLEAN : DetailArrives(detail, arrived)
      BY <2>1, <2>3 DEF DetailArrives
    <2>4. CASE refreshDrafts \/ act
      BY <2>1, <2>4 DEF refreshDrafts, act
    <2>5. CASE ActAnswers \/ ActFails
      BY <2>1, <2>5 DEF ActAnswers, ActFails, Acted
    <2>6. CASE \E list \in lists, arrived \in BOOLEAN : ListArrives(list, arrived)
      BY <2>1, <2>6 DEF ListArrives, Listed, SelectsAgain, Selects
    <2>7. CASE \E list \in lists, arrived \in BOOLEAN : ActListed(list, arrived)
      BY <2>1, <2>7 DEF ActListed, Listed, Acted
    <2>8. CASE \E list \in lists, arrived \in BOOLEAN : SaveListed(list, arrived)
      BY <2>1, <2>8 DEF SaveListed, Listed, Selects
    <2> QED
      BY <2>2, <2>3, <2>4, <2>5, <2>6, <2>7, <2>8
  <1> QED
    BY <1>2, <1>3, <1>4

-----------------------------------------------------------------------------
(* Saving.                                                                  *)
LEMMA SubmitStep == ASSUME ComposerInv, Submit PROVE ComposerInv'
  <1> USE DEF ComposerInv
  <1> DEFINE post == [request |-> RequestIdFor, of |-> Composition, edition |-> edition,
                      forgotten |-> forgotten, heard |-> TRUE]
  <1>1. /\ RequestIdFor \in 1..requestIds' /\ requestIds' \in requestIds..MaxRequestIds
        /\ requestId = Absent \/ RequestIdFor = requestId
    BY ComposerAssumption DEF IdTypes, Submit, RequestIdFor, Absent
  <1>2. post \in Posts /\ post.request = RequestIdFor /\ post.edition = edition /\ post.forgotten = forgotten
    BY <1>1 DEF IdTypes, FormTypes, Posts, Compositions, Composition
  <1> HIDE DEF post
  <1>3. /\ UNCHANGED <<wording, linked, attached, fileState, batches, importing, edition, forgotten, created, viewVars>>
        /\ creations' = creations \cup {post} /\ requestId' = RequestIdFor
        /\ saving' = [phase |-> "posting", draft |-> Absent]
    BY DEF Submit, post
  <1>4. FormTypes' /\ IdTypes' /\ ViewTypes'
    BY <1>1, <1>3, ComposerAssumption DEF FormTypes, IdTypes, ViewTypes, viewVars
  <1>5. ServerTypes'
    BY <1>2, <1>3 DEF ServerTypes, Savings, Absent
  <1>6. OneIdPerEdition'
    <2>1. Attempts' = Attempts \cup {post}
      BY <1>3 DEF Attempts
    <2>2. \A x \in Attempts : x.request \in 1..requestIds' /\ x.edition <= edition /\ x.forgotten <= forgotten
                           /\ (x.edition = edition /\ x.forgotten = forgotten => x.request = RequestIdFor)
      BY <1>1 DEF OneIdPerEdition, IdTypes, Absent
    <2> QED
      BY <1>1, <1>2, <1>3, <2>1, <2>2 DEF OneIdPerEdition, IdTypes
  <1>7. Settled'
    <2>1. attached \cap importing = {}
      BY DEF Submit, Settled
    <2> QED
      BY <1>3, <2>1 DEF Settled
  <1> QED
    BY <1>3, <1>4, <1>5, <1>6, <1>7 DEF OneDraftPerId

(* An answer names a draft there is.                                       *)
LEMMA AnsweredStep ==
    ASSUME ComposerInv, NEW post \in creations, NEW phase \in {"answered", "refused"}, NEW draft \in 0..Len(created'),
           CreationAnswered(post, phase, draft), Len(created') >= Len(created), Len(created') \in Nat
    PROVE  saving' \in Savings /\ saving'.draft <= Len(created')
  BY DEF ComposerInv, ServerTypes, Savings, CreationAnswered

(* A request creates the draft of its id, or none.                         *)
LEMMA CreationSteps ==
    ASSUME ComposerInv, NEW post \in creations, DraftIsCreated(post) \/ RejectDraft(post)
    PROVE  ComposerInv'
  <1> USE DEF ComposerInv
  <1>1. UNCHANGED <<composeVars, viewVars>> /\ creations' = creations \ {post} /\ post \in Posts
    BY DEF DraftIsCreated, RejectDraft, ServerTypes
  <1> DEFINE known == {i \in DOMAIN created : created[i].request = post.request}
             draft == [request |-> post.request, of |-> post.of, edition |-> post.edition, forgotten |-> post.forgotten]
  <1>2. CASE known = {} /\ created' = Append(created, draft) /\ CreationAnswered(post, "answered", Len(created) + 1)
    <2>1. draft \in CreatedDrafts /\ draft.request = post.request /\ draft.edition = post.edition /\ draft.forgotten = post.forgotten
      BY <1>1 DEF Posts, CreatedDrafts
    <2>2. \A i \in DOMAIN created : created[i].request # draft.request
      BY <1>2, <2>1
    <2> HIDE DEF draft, known
    <2>3. /\ created' \in Seq(CreatedDrafts) /\ Len(created') = Len(created) + 1 /\ Len(created) \in Nat
          /\ DOMAIN created' = DOMAIN created \cup {Len(created) + 1}
          /\ created'[Len(created) + 1] = draft
          /\ \A i \in DOMAIN created : i # Len(created) + 1 /\ created'[i] = created[i]
      BY <1>2, <2>1 DEF ServerTypes
    <2>4. ServerTypes'
      BY <1>1, <1>2, <2>3, AnsweredStep DEF ServerTypes
    <2>5. \A x \in Attempts' : \E y \in Attempts : x.request = y.request /\ x.edition = y.edition /\ x.forgotten = y.forgotten
      BY <1>1, <2>1, <2>3 DEF Attempts
    <2>6. OneIdPerEdition' /\ Settled'
      BY <1>1, <2>5 DEF OneIdPerEdition, Settled, composeVars
    <2>7. OneDraftPerId'
      BY <2>2, <2>3 DEF OneDraftPerId
    <2> QED
      BY <1>1, <2>3, <2>4, <2>6, <2>7 DEF FormTypes, IdTypes, ViewTypes, composeVars, viewVars
  <1>3. CASE /\ UNCHANGED created
             /\ \E phase \in {"answered", "refused"}, i \in 0..Len(created) : CreationAnswered(post, phase, i)
    <2>1. ServerTypes'
      BY <1>1, <1>3, AnsweredStep DEF ServerTypes
    <2>2. Attempts' \subseteq Attempts
      BY <1>1, <1>3 DEF Attempts
    <2>3. OneIdPerEdition' /\ OneDraftPerId' /\ Settled'
      BY <1>1, <1>3, <2>2 DEF OneIdPerEdition, OneDraftPerId, Settled, composeVars
    <2> QED
      BY <1>1, <1>3, <2>1, <2>3 DEF FormTypes, IdTypes, ViewTypes, composeVars, viewVars
  <1>4. \A i \in DOMAIN created : i \in 0..Len(created)
    BY DEF ServerTypes
  <1>5. Absent \in 0..Len(created)
    BY DEF ServerTypes, Absent
  <1> QED
    BY <1>2, <1>3, <1>4, <1>5 DEF DraftIsCreated, RejectDraft

(* An answer that arrives or is lost leaves the drafts.                    *)
LEMMA SavedSteps ==
    ASSUME ComposerInv, SaveAnswers \/ SaveFails
    PROVE  ComposerInv'
  <1> USE DEF ComposerInv
  <1>1. CASE SaveAnswers
    <2>1. /\ UNCHANGED <<fileState, batches, importing, requestIds, forgotten, serverVars, shownDraft, listedDrafts, acting, details>>
          /\ edition' = edition + 1 /\ requestId' = Absent /\ selectedDraft' = saving.draft
          /\ wording' = Blank /\ attached' = {} /\ linked' = {}
      BY <1>1 DEF SaveAnswers
    <2>2. ServerTypes'
      BY <1>1, <2>1 DEF SaveAnswers, ServerTypes, Savings, serverVars
    <2>3. FormTypes' /\ IdTypes' /\ ViewTypes'
      BY <2>1 DEF FormTypes, IdTypes, ViewTypes, ServerTypes, Savings, Absent, serverVars
    <2>4. OneIdPerEdition' /\ OneDraftPerId' /\ Settled'
      BY <2>1, <2>3, NewEdition DEF IdTypes, Settled
    <2> QED
      BY <2>2, <2>3, <2>4
  <1>2. CASE SaveFails
    <2>1. /\ UNCHANGED <<composeVars, created, listedDrafts, acting, lists>> /\ saving' = NotSaving
          /\ creations' = {[post EXCEPT !.heard = FALSE] : post \in creations}
      BY <1>2 DEF SaveFails
    <2>2. \A post \in creations : /\ [post EXCEPT !.heard = FALSE] \in Posts
                                  /\ [post EXCEPT !.heard = FALSE].request = post.request
                                  /\ [post EXCEPT !.heard = FALSE].edition = post.edition
                                  /\ [post EXCEPT !.heard = FALSE].forgotten = post.forgotten
      BY DEF ServerTypes, Posts
    <2>3. ServerTypes'
      BY <2>1, <2>2 DEF ServerTypes, NotSaving, Savings, Absent
    <2>4. ViewTypes'
      BY <1>2, <2>1 DEF SaveFails, SelectsAgain, Selects, ViewTypes, ServerTypes, Absent
    <2>5. \A x \in Attempts' : \E y \in Attempts : x.request = y.request /\ x.edition = y.edition /\ x.forgotten = y.forgotten
      <3>1. \A x \in creations' : \E y \in creations : x.request = y.request /\ x.edition = y.edition /\ x.forgotten = y.forgotten
        BY <2>1, <2>2
      <3> QED
        BY <2>1, <3>1 DEF Attempts
    <2>6. OneIdPerEdition' /\ OneDraftPerId' /\ Settled'
      BY <2>1, <2>5 DEF OneIdPerEdition, OneDraftPerId, Settled, composeVars
    <2> QED
      BY <2>1, <2>3, <2>4, <2>6 DEF FormTypes, IdTypes, composeVars
  <1> QED
    BY <1>1, <1>2

(* All attempts to save one composition between which no import of a       *)
(* removed row ended well carry one request id, and so do the drafts the   *)
(* server made of them.                                                    *)
THEOREM ComposerInvariant == ComposerSpec => []ComposerInv
  <1>1. ASSUME ComposerInv, [ComposerNext]_composerVars PROVE ComposerInv'
    <2>1. CASE UNCHANGED composerVars
      BY <1>1, <2>1 DEF composerVars, composeVars, serverVars, viewVars, ComposerInv, FormTypes, IdTypes, ServerTypes,
                        ViewTypes, OneIdPerEdition, OneDraftPerId, Settled, Attempts
    <2> QED
      BY <1>1, <2>1, ComposingSteps, UploadSteps, ViewSteps, SubmitStep, CreationSteps, SavedSteps DEF ComposerNext
  <1> QED
    BY ComposerInitInv, <1>1, PTL DEF ComposerSpec

(* Types of the page and of what is on its way to the server: only drafts   *)
(* that exist are shown, and no file that is not uploaded is waited for.    *)
THEOREM ComposerTypeCorrect == ComposerSpec => []ComposerTypeOK
  <1>1. ComposerInv => ComposerTypeOK
    BY ComposerAssumption DEF ComposerInv, FormTypes, IdTypes, ServerTypes, ViewTypes, Savings, OneIdPerEdition, Attempts, ComposerTypeOK
  <1> QED
    BY <1>1, ComposerInvariant, PTL

(* A composition that is saved again and again becomes one draft at most,   *)
(* whenever its attempts reach the server, unless an import whose row was   *)
(* removed ends well between two of them (the run composer_retry shows      *)
(* that case).                                                              *)
THEOREM OneDraftEach == ComposerSpec => []OneDraftUnlessForgotten
  <1>1. ComposerInv => OneDraftUnlessForgotten
    BY DEF ComposerInv, OneIdPerEdition, OneDraftPerId, Attempts, OneDraftUnlessForgotten
  <1> QED
    BY <1>1, ComposerInvariant, PTL

-----------------------------------------------------------------------------
(* The parts beside each other, as the run has them: whichever part runs,   *)
(* each takes only steps of its own, so that what is proved of the parts    *)
(* holds of the run.                                                        *)
THEOREM OperatorRunsItsParts == OperatorSpec => Spec /\ ComposerSpec /\ GrantSpec
<1>1. OperatorInit => Init /\ ComposerInit /\ GrantInit
  BY DEF OperatorInit
<1>2. [OperatorNext]_operatorVars => [Next]_vars /\ [ComposerNext]_composerVars /\ [GrantNext]_grantVars
  BY DEF OperatorNext, SendTurn, ComposerTurn, GrantTurn, operatorVars
<1> QED
  BY <1>1, <1>2, PTL DEF OperatorSpec, Spec, ComposerSpec, GrantSpec
=============================================================================
