---------------------------- MODULE RuntimeConfig ----------------------------
(***************************************************************************)
(* The settings the server runs with and the two files they are kept in:    *)
(* the public configuration, and the tokens in an encrypted file of their   *)
(* own.  A settings request copies the settings, awaits both writes and     *)
(* then puts its whole copy into use; a token refresh or a login changes    *)
(* the settings at once and saves them afterwards.  A start reads the files *)
(* and falls back to the rules when the external provider in them was       *)
(* accepted for another version of the data policy.                         *)
(***************************************************************************)
EXTENDS Naturals, FiniteSets

CONSTANTS
    SettingRequests, \* settings requests, refreshes and logins in progress
    Providers,       \* the external AI providers
    Policies,        \* bound: AI_OPT_IN_VERSION of the releases that are installed
    MaxTokens,       \* bound: the tokens Microsoft hands out
    PersistSecrets   \* shouldPersistSecrets

ASSUME ConfigAssumption == MaxTokens \in Nat

VARIABLES
    phase,       \* "down", "migrating" (a start that saves what it changed), "serving"
    policy,      \* AI_OPT_IN_VERSION of the release that is installed
    config,      \* runtimeConfig: provider, the policy accepted for it, the token
    configFile,  \* the public part, or none
    secretFile,  \* the token in the encrypted file, none, or a file that does not decrypt
    tokens,      \* tokens handed out so far
    setting      \* the requests that change the settings

configVars == <<phase, policy, config, configFile, secretFile, tokens, setting>>

Rules == "rules"
NotAccepted == 0
NoSecret == 0
Public == [provider : Providers \cup {Rules}, accepted : Policies \cup {NotAccepted}]
Secrets == 0..MaxTokens
Damaged == MaxTokens + 1
RulesOnly == [provider |-> Rules, accepted |-> NotAccepted]
Defaults == [public |-> RulesOnly, token |-> NoSecret]
NoSetting == [step |-> "idle", next |-> Defaults, live |-> FALSE]
Configs == [public : Public, token : Secrets]
SettingStates == [step : {"idle", "refresh", "public", "secret", "apply"}, next : Configs, live : BOOLEAN]

ConfigTypeOK ==
    /\ phase \in {"down", "migrating", "serving"}
    /\ policy \in Policies
    /\ config \in Configs
    /\ configFile \in Public
    /\ secretFile \in Secrets \cup {Damaged}
    /\ tokens \in 0..MaxTokens
    /\ setting \in [SettingRequests -> SettingStates]

ConfigInit ==
    /\ phase = "serving"
    /\ policy \in Policies
    /\ config = Defaults
    /\ configFile = RulesOnly
    /\ secretFile = NoSecret
    /\ tokens = 0
    /\ setting = [r \in SettingRequests |-> NoSetting]

------------------------------------------------------------------------------
(* Settings. *)

SetStep(r, step, next, live) ==
    setting' = [setting EXCEPT ![r] = [step |-> step, next |-> next, live |-> live]]

\* Choosing a provider is accepting the data policy of this release for it.
validatedPublicConfig(provider) ==
    [provider |-> provider, accepted |-> IF provider = Rules THEN NotAccepted ELSE policy]

\* POST /api/outlook/config: other fields than the provider and the token are left out.
SettingsPosted(r, public, token, persist) ==
    /\ phase = "serving" /\ setting[r].step = "idle"
    /\ public \in {config.public} \cup {validatedPublicConfig(p) : p \in Providers \cup {Rules}}
    /\ token \in ({config.token, tokens + 1} \cap Secrets)
    /\ tokens' = IF token > tokens THEN token ELSE tokens
    /\ SetStep(r, IF persist THEN "public" ELSE "apply", [public |-> public, token |-> token], FALSE)
    /\ UNCHANGED <<phase, policy, config, configFile, secretFile>>

SettingsDeleted(r) ==
    /\ phase = "serving" /\ setting[r].step = "idle"
    /\ SetStep(r, "public", Defaults, FALSE)
    /\ UNCHANGED <<phase, policy, config, configFile, secretFile, tokens>>

\* getGraphAccessToken with an access token that has run out.
TokenRefresh(r) ==
    /\ phase = "serving" /\ setting[r].step = "idle"
    /\ config.token # NoSecret
    /\ SetStep(r, "refresh", Defaults, TRUE)
    /\ UNCHANGED <<phase, policy, config, configFile, secretFile, tokens>>

\* publishRefreshedAccessToken, and /auth/callback which needs no earlier token.
TokenArrives(r) ==
    /\ phase = "serving" /\ setting[r].step \in {"idle", "refresh"}
    /\ tokens < MaxTokens
    /\ tokens' = tokens + 1
    /\ config' = [config EXCEPT !.token = tokens + 1]
    /\ SetStep(r, "public", config', TRUE)
    /\ UNCHANGED <<phase, policy, configFile, secretFile>>

------------------------------------------------------------------------------
(* savePersistedConfig: one file after the other. *)

\* A save of the settings in use reads the tokens when the first file is written.
PublicWritten(r) ==
    /\ phase = "serving" /\ setting[r].step = "public"
    /\ configFile' = setting[r].next.public
    /\ setting' = [setting EXCEPT ![r].step = "secret",
                                  ![r].next.token = IF setting[r].live THEN config.token ELSE @]
    /\ UNCHANGED <<phase, policy, config, secretFile, tokens>>

Kept(token) == IF PersistSecrets THEN token ELSE NoSecret

SecretsWritten(r) ==
    /\ phase = "serving" /\ setting[r].step = "secret"
    /\ secretFile' = Kept(setting[r].next.token)
    /\ setting' = [setting EXCEPT ![r] = IF @.live THEN NoSetting
                                            ELSE [setting[r] EXCEPT !.step = "apply"]]
    /\ UNCHANGED <<phase, policy, config, configFile, tokens>>

\* Object.assign(runtimeConfig, nextConfig)
SettingsApplied(r) ==
    /\ phase = "serving" /\ setting[r].step = "apply"
    /\ config' = setting[r].next
    /\ setting' = [setting EXCEPT ![r] = NoSetting]
    /\ UNCHANGED <<phase, policy, configFile, secretFile, tokens>>

\* A write throws, or Microsoft refuses the refresh: the request answers an error.
SettingFails(r) ==
    /\ phase = "serving" /\ setting[r].step \in {"refresh", "public", "secret"}
    /\ setting' = [setting EXCEPT ![r] = NoSetting]
    /\ UNCHANGED <<phase, policy, config, configFile, secretFile, tokens>>

------------------------------------------------------------------------------
(* Stops and starts. *)

ServerStops ==
    /\ phase # "down"
    /\ phase' = "down"
    /\ config' = Defaults
    /\ setting' = [r \in SettingRequests |-> NoSetting]
    /\ UNCHANGED <<policy, configFile, secretFile, tokens>>

ReleaseInstalled(p) ==
    /\ phase = "down" /\ p # policy
    /\ policy' = p
    /\ UNCHANGED <<phase, config, configFile, secretFile, tokens, setting>>

BadUnapproved(public) == public.provider # Rules /\ public.accepted = NotAccepted
Unapproved(public) == public.provider # Rules /\ public.accepted # policy

\* The encrypted file, or the key it is encrypted with, is damaged.
SecretsDamaged ==
    /\ phase = "down" /\ secretFile # NoSecret
    /\ secretFile' = Damaged
    /\ UNCHANGED <<phase, policy, config, configFile, tokens, setting>>

\* loadPersistedConfig with nothing to migrate: the tokens are read and added.  A start
\* that cannot read them ends with SECRETS_INVALID.
ServerStarts ==
    /\ phase = "down" /\ ~Unapproved(configFile) /\ secretFile # Damaged
    /\ phase' = "serving"
    /\ config' = [public |-> configFile, token |-> secretFile]
    /\ UNCHANGED <<policy, configFile, secretFile, tokens, setting>>

\* loadPersistedConfig with a provider to withdraw: what was read so far, without the
\* tokens, is saved first.
StartMigrates ==
    /\ phase = "down" /\ Unapproved(configFile)
    /\ phase' = "migrating"
    /\ configFile' = RulesOnly
    /\ config' = Defaults
    /\ UNCHANGED <<policy, secretFile, tokens, setting>>

MigrationSaved ==
    /\ phase = "migrating"
    /\ phase' = "serving"
    /\ secretFile' = Kept(config.token)
    /\ config' = [config EXCEPT !.token = secretFile']
    /\ UNCHANGED <<policy, configFile, tokens, setting>>

------------------------------------------------------------------------------
ConfigNext ==
    \/ \E r \in SettingRequests :
         \/ \E public \in Public, token \in Secrets, persist \in BOOLEAN :
                SettingsPosted(r, public, token, persist)
         \/ SettingsDeleted(r) \/ TokenRefresh(r) \/ TokenArrives(r)
         \/ PublicWritten(r) \/ SecretsWritten(r) \/ SettingsApplied(r) \/ SettingFails(r)
    \/ ServerStops \/ SecretsDamaged \/ ServerStarts \/ StartMigrates \/ MigrationSaved
    \/ \E p \in Policies : ReleaseInstalled(p)

ConfigSpec == ConfigInit /\ [][ConfigNext]_configVars

------------------------------------------------------------------------------
(* Properties. *)

\* An external provider is in use only when the data policy of this very release was
\* accepted for it, whatever was saved by another release, half saved or put back by a
\* settings request that had copied earlier settings (loadPersistedConfig,
\* validatedPublicConfig).
AcceptedForThisRelease ==
    phase = "serving" /\ config.public.provider # Rules => config.public.accepted = policy

=============================================================================
