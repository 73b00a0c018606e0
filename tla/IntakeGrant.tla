---------------------------- MODULE IntakeGrant ----------------------------
(***************************************************************************)
(* Whose mail the work intake takes in: the access token of the runtime    *)
(* configuration, the identity pinned for the intake, the proof that the   *)
(* token belongs to it, and the intake at the end of a sync                *)
(* (intake-authorization.js, intake-identity.js, sync-work-intake.js and   *)
(* the handlers of server.mjs that change the token).                      *)
(*                                                                         *)
(* Every change of token, mailbox or client raises the grant's epoch, and  *)
(* what was captured at an earlier epoch is stale.  The counter itself is  *)
(* not kept: `fresh` holds who captured the present epoch.  A request is   *)
(* cut at its awaits; what it read before one is in its record.            *)
(***************************************************************************)
EXTENDS FiniteSets

CONSTANTS
    Tokens,        \* access tokens
    Owner,         \* Tokens -> the account that signed in for it
    Intents,       \* intent references a person may register
    GrantRequests, \* requests of the server in flight at once
    IntakeMails    \* mails of one sync

Accounts == {Owner[t] : t \in Tokens}
NoToken == "no token"
NoPin == [principal |-> "nobody", intents |-> {}]
NoProof == NoToken
Sync == "sync"

VARIABLES
    token,     \* runtimeConfig.accessToken
    inbox,  \* the mailbox: "me", or a shared one
    pin,       \* expected: the pinned binding; a new intent is a new revision
    pinFile,   \* .mail-intake-binding.json
    proof,     \* the token proven to be the pinned principal's
    fresh,     \* requests, and Sync, whose captured epoch is the present one
    request,   \* the requests in flight
    run,       \* the sync
    ingested   \* <<mail, account it was fetched from, principal it was filed under>>

grantVars == <<token, inbox, pin, pinFile, proof, fresh, request, run, ingested>>

Resting == [step |-> "idle", token |-> NoToken, before |-> NoToken,
          pin |-> NoPin, selected |-> "me"]
NoRun == [step |-> "idle", token |-> NoToken, pin |-> NoPin, principal |-> "nobody", todo |-> {}]
Pins == {NoPin} \cup [principal : Accounts, intents : SUBSET Intents]
GrantCalls ==
    [step : {"idle", "refresh", "saved", "settings", "verify", "prove", "write"},
     token : Tokens \cup {NoToken}, before : Tokens \cup {NoToken}, pin : Pins, selected : {"me", "shared"}]
GrantSyncs ==
    [step : {"idle", "gate", "fetch", "masters", "intake"}, token : Tokens \cup {NoToken},
     pin : Pins, principal : Accounts \cup {"nobody"}, todo : SUBSET IntakeMails]

GrantTypeOK ==
    /\ token \in Tokens \cup {NoToken}
    /\ inbox \in {"me", "shared"}
    /\ pin \in Pins /\ pinFile \in Pins
    /\ proof \in Tokens \cup {NoProof}
    /\ fresh \subseteq GrantRequests \cup {Sync}
    /\ request \in [GrantRequests -> GrantCalls]
    /\ run \in GrantSyncs
    /\ ingested \subseteq IntakeMails \X Accounts \X Accounts

GrantInit ==
    /\ token \in Tokens \cup {NoToken}
    /\ inbox = "me"
    /\ pin = NoPin /\ pinFile = NoPin
    /\ proof = NoProof
    /\ fresh = {}
    /\ request = [r \in GrantRequests |-> Resting]
    /\ run = NoRun
    /\ ingested = {}

Configured == pin # NoPin
BadProofIsFor(t) == Configured /\ proof # NoProof
ProofIsFor(t) == Configured /\ proof # NoProof /\ proof = t
Raise == fresh' = {} /\ proof' = NoProof
Same == UNCHANGED <<fresh, proof>>
Await(r, change) == request' = [request EXCEPT ![r] = change]
Rest(r) == Await(r, Resting)

------------------------------------------------------------------------------
(* The token.  noteAccessTokenReplacement compares it with the one the     *)
(* handler saw before, noteClientTenantChange the client.                  *)
noteIntakeRuntimeChange(before, newToken, newSelected, newClient) ==
    IF newToken # before \/ newSelected # inbox \/ newClient THEN Raise ELSE Same

\* An expired token is exchanged for another of the account it belongs to.
RefreshStarts(r) ==
    /\ request[r].step = "idle"
    /\ token # NoToken
    /\ Await(r, [Resting EXCEPT !.step = "refresh", !.token = token])
    /\ UNCHANGED <<token, inbox, pin, pinFile, proof, fresh, run, ingested>>

publishRefreshedAccessToken(r) ==
    /\ request[r].step = "refresh"
    /\ \E t \in {t \in Tokens : Owner[t] = Owner[request[r].token]} :
          /\ token' = t
          /\ noteIntakeRuntimeChange(token, t, inbox, FALSE)
    /\ Rest(r)
    /\ UNCHANGED <<inbox, pin, pinFile, run, ingested>>

\* The OAuth callback of Outlook: any account, any mailbox, then the identity is verified.
LoginEnds(r) ==
    /\ request[r].step = "idle"
    /\ \E t \in Tokens, m \in {"me", "shared"}, client \in BOOLEAN :
          /\ token' = t /\ inbox' = m
          /\ noteIntakeRuntimeChange(token, t, m, client)
          /\ Await(r, [Resting EXCEPT !.step = "saved", !.token = t])
    /\ UNCHANGED <<pin, pinFile, run, ingested>>

\* The settings: a copy of the configuration is changed and saved, then assigned back;
\* DELETE saves the defaults, which hold no token.
SettingsStart(r) ==
    /\ request[r].step = "idle"
    /\ \E t \in Tokens \cup {NoToken}, m \in {"me", "shared"} :
          Await(r, [Resting EXCEPT !.step = "settings", !.before = token, !.token = t, !.selected = m])
    /\ UNCHANGED <<token, inbox, pin, pinFile, proof, fresh, run, ingested>>

SettingsEnd(r) ==
    /\ request[r].step = "settings"
    /\ token' = request[r].token
    /\ inbox' = request[r].selected
    /\ \E client \in BOOLEAN :
          noteIntakeRuntimeChange(request[r].before, token', inbox', client)
    /\ Await(r, [Resting EXCEPT !.step = "saved", !.token = token'])
    /\ UNCHANGED <<pin, pinFile, run, ingested>>

------------------------------------------------------------------------------
(* The proof. *)
proveDelegatedIdentity(t, binding) == t # NoToken /\ Owner[t] = binding.principal

\* The epoch is captured and the mailbox compared before Graph is asked.
reverifyIntakeToken(r) ==
    /\ request[r].step = "saved"
    /\ IF Configured /\ request[r].token # NoToken /\ inbox = "me"
       THEN /\ Await(r, [request[r] EXCEPT !.step = "verify", !.pin = pin])
            /\ fresh' = fresh \cup {r}
            /\ UNCHANGED proof
       ELSE /\ Rest(r)
            /\ IF Configured /\ request[r].token # NoToken /\ proof # NoProof THEN Raise ELSE Same
    /\ UNCHANGED <<token, inbox, pin, pinFile, run, ingested>>

publishProof(holder, t, binding) ==
    IF holder \in fresh /\ binding = pin THEN proof' = t ELSE UNCHANGED proof

\* Graph names the owner, or does not answer, which counts as a denial.
VerifyEnds(r) ==
    /\ request[r].step = "verify"
    /\ \/ /\ proveDelegatedIdentity(request[r].token, request[r].pin)
          /\ publishProof(r, request[r].token, request[r].pin)
          /\ UNCHANGED fresh
       \/ IF proof # NoProof THEN Raise ELSE Same
    /\ Rest(r)
    /\ UNCHANGED <<token, inbox, pin, pinFile, run, ingested>>

------------------------------------------------------------------------------
(* Registering the identity. *)
planPinnedRegistration(principal, intent) ==
    IF pin = NoPin THEN [principal |-> principal, intents |-> {intent}]
    ELSE [pin EXCEPT !.intents = @ \cup {intent}]

registerIntakeIdentity(r) ==
    /\ request[r].step = "idle"
    /\ token # NoToken /\ inbox = "me"
    /\ \E p \in Accounts, i \in Intents :
          /\ Configured => p = pin.principal
          /\ Await(r, [Resting EXCEPT !.step = "prove", !.token = token,
                                    !.pin = planPinnedRegistration(p, i)])
    /\ fresh' = fresh \cup {r}
    /\ UNCHANGED <<token, inbox, pin, pinFile, proof, run, ingested>>

\* A refusal takes back the proof there is; a proven one is written if nothing changed.
RegistrationProved(r) ==
    /\ request[r].step = "prove"
    /\ \/ /\ proveDelegatedIdentity(request[r].token, request[r].pin)
          /\ r \in fresh
          /\ Await(r, [request[r] EXCEPT !.step = "write"])
          /\ Same
       \/ /\ Rest(r)
          /\ \/ proof # NoProof /\ Raise
             \/ (proof = NoProof \/ r \notin fresh) /\ Same
    /\ UNCHANGED <<token, inbox, pin, pinFile, run, ingested>>

\* The file is written by then, and stays written when the epoch moved meanwhile.
publishRegistration(r) ==
    /\ request[r].step = "write"
    /\ pinFile' = request[r].pin
    /\ IF r \in fresh
       THEN pin' = request[r].pin /\ proof' = request[r].token
       ELSE UNCHANGED <<pin, proof>>
    /\ Rest(r)
    /\ UNCHANGED <<token, inbox, fresh, run, ingested>>

------------------------------------------------------------------------------
(* The sync: the gate, the pages, the masters, and the intake of its mails. *)
Freeze == run' = [run EXCEPT !.step = "fetch", !.pin = pin] /\ fresh' = fresh \cup {Sync}

\* Nothing is pinned: the mails are fetched and no intake takes place.
SyncUnbound ==
    /\ run = NoRun /\ token # NoToken
    /\ ~Configured
    /\ run' = [NoRun EXCEPT !.step = "fetch", !.token = token]
    /\ UNCHANGED <<token, inbox, pin, pinFile, proof, fresh, request, ingested>>

captureVerifiedIntakeSync ==
    /\ run = NoRun /\ token # NoToken
    /\ Configured /\ inbox = "me"
    /\ run' = [NoRun EXCEPT !.step = IF ProofIsFor(token) THEN "fetch" ELSE "gate",
                            !.token = token, !.pin = pin]
    /\ fresh' = fresh \cup {Sync}
    /\ UNCHANGED <<token, inbox, pin, pinFile, proof, request, ingested>>

GateVerifies ==
    /\ run.step = "gate"
    /\ proveDelegatedIdentity(run.token, run.pin)
    /\ publishProof(Sync, run.token, run.pin)
    /\ Configured /\ proof' = run.token
    /\ Freeze
    /\ UNCHANGED <<token, inbox, pin, pinFile, request, ingested>>

GateRefuses ==
    /\ run.step = "gate"
    /\ run' = NoRun
    /\ IF proof # NoProof THEN Raise ELSE Same
    /\ UNCHANGED <<token, inbox, pin, pinFile, request, ingested>>

assertFrozen == Sync \in fresh /\ ProofIsFor(run.token) /\ pin = run.pin

MayTakeIn == run.pin # NoPin /\ assertFrozen

\* The principal of the provenance is read once, before the masters are awaited.
ingestAfterCommittedSync ==
    /\ run.step = "fetch"
    /\ MayTakeIn
    /\ run' = [run EXCEPT !.step = "masters", !.principal = pin.principal, !.todo = IntakeMails]
    /\ UNCHANGED <<token, inbox, pin, pinFile, proof, fresh, request, ingested>>

MastersAreRead ==
    /\ run.step = "masters"
    /\ MayTakeIn
    /\ run' = [run EXCEPT !.step = "intake"]
    /\ UNCHANGED <<token, inbox, pin, pinFile, proof, fresh, request, ingested>>

\* One transaction per mail; between two of them CWOS answers a candidate.
ingest(m) ==
    /\ run.step = "intake"
    /\ m \in run.todo
    /\ MayTakeIn
    /\ ingested' = ingested \cup {<<m, Owner[run.token], run.principal>>}
    /\ run' = [run EXCEPT !.todo = @ \ {m}]
    /\ UNCHANGED <<token, inbox, pin, pinFile, proof, fresh, request>>

\* Fetched, refused, stale (INTAKE_BINDING_STALE), or done.
SyncEnds ==
    /\ run.step \in {"fetch", "masters", "intake"}
    /\ run' = NoRun
    /\ UNCHANGED <<token, inbox, pin, pinFile, proof, fresh, request, ingested>>

\* The token is persisted only when the operator asked for that; the pin always is.
GrantRestart ==
    /\ token' \in {token, NoToken}
    /\ pin' = pinFile
    /\ Raise
    /\ request' = [r \in GrantRequests |-> Resting]
    /\ run' = NoRun
    /\ UNCHANGED <<inbox, pinFile, ingested>>

------------------------------------------------------------------------------
GrantNext ==
    \/ \E r \in GrantRequests :
          \/ RefreshStarts(r) \/ publishRefreshedAccessToken(r)
          \/ LoginEnds(r) \/ SettingsStart(r) \/ SettingsEnd(r)
          \/ reverifyIntakeToken(r) \/ VerifyEnds(r)
          \/ registerIntakeIdentity(r) \/ RegistrationProved(r) \/ publishRegistration(r)
    \/ SyncUnbound \/ captureVerifiedIntakeSync \/ GateVerifies \/ GateRefuses
    \/ ingestAfterCommittedSync \/ MastersAreRead
    \/ \E m \in IntakeMails : ingest(m)
    \/ SyncEnds
    \/ GrantRestart

GrantSpec == GrantInit /\ [][GrantNext]_grantVars

------------------------------------------------------------------------------
\* A mail taken in by a sync is filed under the account it was fetched from, whatever
\* happened meanwhile to the token, the mailbox, the settings and the registration
\* (readProviderIdentity, freezeVerified).
FiledUnderItsAccount == \A i \in ingested : i[2] = i[3]

=============================================================================
