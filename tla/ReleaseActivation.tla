--------------------------- MODULE ReleaseActivation ---------------------------
(***************************************************************************)
(* The activation of a release on the operator's machine: the script puts a *)
(* drop-in beside the unit of the service, proves from what systemd has     *)
(* loaded and from the environment files which environment a restart would  *)
(* give the server, rewrites runtime.env, restarts the service, looks at    *)
(* the process that came up, and undoes all of it when anything fails       *)
(* (activate-user-release.mjs, prepare-user-release.mjs and                 *)
(* user-release-boundary.mjs).  Meanwhile the operator edits the files, the *)
(* manager's environment changes, and systemd restarts a server that fails. *)
(*                                                                         *)
(* An environment is a function from names to values.  The four kill        *)
(* switches and the calendar are one name, the four keys of the donor are   *)
(* one, and "unknown" stands for any other COMPANY_MEMORY_ name.            *)
(***************************************************************************)
EXTENDS Naturals

CONSTANTS
    Release,       \* the commit that is activated
    FirstRuntimes, \* what runtime.env may hold at first
    Fragments,     \* what mail-send.env and hold.env may hold
    FirstUnit,     \* the unit the service was started with
    MaxEdits,      \* bound: edits of a file or of the manager's environment
    MaxServiceStarts \* bound: starts of the service

VARIABLES
    envFiles,      \* the three files of releaseEnvironmentFilePaths
    manager,       \* donor names in the environment of the user manager
    dropIn,        \* the unit as the files on disk describe it
    loadedUnit,    \* and as systemd has loaded it
    service,       \* the process
    activation,    \* the script
    edits          \* bound only

releaseVars == <<envFiles, manager, dropIn, loadedUnit, service, activation, edits>>

DonorNames == {"donor", "unknown"}
Settings == {"commit", "actions", "send"} \cup DonorNames

(* the operator does not write a commit into a file, only the script does *)
ASSUME ReleaseAssumption ==
    /\ MaxServiceStarts \in Nat \ {0} /\ MaxEdits \in Nat
    /\ \A r \in FirstRuntimes : DOMAIN r \subseteq Settings
    /\ \A fragment \in Fragments : DOMAIN fragment \subseteq Settings \ {"commit"}

Units == {FirstUnit} \cup [root : {Release}, unset : SUBSET DonorNames]
NoProcess == [up |-> FALSE, root |-> "none", env |-> <<>>, pid |-> 0]

EnvironmentFiles == {"runtime", "mail-send", "hold"}

(* what the first says goes before what the second says *)
Above(front, back) ==
    [n \in DOMAIN front \cup DOMAIN back |-> IF n \in DOMAIN front THEN front[n] ELSE back[n]]

(* later files override earlier ones *)
Layered(files) == Above(files["hold"], Above(files["mail-send"], files["runtime"]))
Without(env, names) == [n \in DOMAIN env \ names |-> env[n]]

-----------------------------------------------------------------------------
(* The proofs *)
DonorComplete(env) == "unknown" \notin DOMAIN env /\ ("donor" \in DOMAIN env => env["donor"] # "part")
HasValue(env, name, values) == name \in DOMAIN env /\ env[name] \in values

ExternalActionsDisabled(env) ==
    DonorComplete(env) /\ HasValue(env, "actions", {"0"}) /\ HasValue(env, "send", {"0", "1"})
ReleaseEnvironment(env) == ExternalActionsDisabled(env) /\ HasValue(env, "commit", {Release})

(* mergedEnvironment: the files alone may name a donor, and every donor they *)
(* do not name is kept from the server                                      *)
DonorsNeutralised(unit, files) ==
    /\ DonorComplete(Layered(files))
    /\ \A n \in {"donor"} \cup manager : n \in DOMAIN Layered(files) <=> n \notin unit.unset
Merged(unit, files) == Without(Above(Layered(files), [n \in manager |-> "inherited"]), unit.unset)

EffectiveRelease(files) ==
    /\ loadedUnit.root = Release
    /\ DonorsNeutralised(loadedUnit, files) /\ ReleaseEnvironment(Merged(loadedUnit, files))
SafeRollback ==
    DonorsNeutralised(loadedUnit, envFiles) /\ ExternalActionsDisabled(Merged(loadedUnit, envFiles))

(* runtime.env with the six keys of the release rewritten *)
Rewritten(runtime) == Above([n \in {"commit", "actions"} |-> IF n = "commit" THEN Release ELSE "0"], runtime)
PreparedFiles(files) == [files EXCEPT !["runtime"] = Rewritten(@)]
PreparedUnit(files) == [root |-> Release, unset |-> ({"donor"} \cup manager) \ DOMAIN Layered(PreparedFiles(files))]

-----------------------------------------------------------------------------
Trying == {"prepared", "kept", "replaced", "reloaded", "granted", "compared", "written", "proven", "restarted", "up",
           "looked"}
Undoing == {"undo", "runtimeUndone", "dropInUndone", "undone", "safe"}
Over == {"none", "active", "failed", "manual", "stuck", "killed"}
NotActivating == [step |-> "none", files |-> <<>>, unit |-> FirstUnit, oldUnit |-> FirstUnit,
                  oldRuntime |-> <<>>, changed |-> {}, expected |-> <<>>, pid |-> 0]

ReleaseTypeOK ==
    /\ DOMAIN envFiles = EnvironmentFiles
    /\ \A f \in EnvironmentFiles : DOMAIN envFiles[f] \subseteq Settings
    /\ manager \subseteq DonorNames /\ dropIn \in Units /\ loadedUnit \in Units
    /\ service.up \in BOOLEAN /\ service.pid \in 0..MaxServiceStarts /\ DOMAIN service.env \subseteq Settings
    /\ activation.step \in Trying \cup Undoing \cup Over
    /\ activation.changed \subseteq {"dropIn", "runtime", "restart"}
    /\ activation.oldUnit \in Units /\ activation.unit \in Units
    /\ edits \in 0..MaxEdits

ReleaseInit ==
    /\ \E r \in FirstRuntimes : envFiles = [f \in EnvironmentFiles |-> IF f = "runtime" THEN r ELSE <<>>]
    /\ manager = {}
    /\ dropIn = FirstUnit /\ loadedUnit = FirstUnit
    /\ service = [up |-> TRUE, root |-> FirstUnit.root, env |-> Merged(FirstUnit, envFiles), pid |-> 1]
    /\ activation = NotActivating /\ edits = 0

-----------------------------------------------------------------------------
(* What happens beside the script *)
Edited == edits < MaxEdits /\ edits' = edits + 1
FileEdited(f) ==
    /\ Edited
    /\ \E fragment \in Fragments : envFiles' = [envFiles EXCEPT ![f] = fragment]
    /\ UNCHANGED <<manager, dropIn, loadedUnit, service, activation>>
RuntimeEdited ==
    /\ Edited
    /\ \E fragment \in Fragments : envFiles' = [envFiles EXCEPT !["runtime"] = Above(fragment, @)]
    /\ UNCHANGED <<manager, dropIn, loadedUnit, service, activation>>
ManagerChanges ==
    /\ Edited
    /\ \E n \in DonorNames : manager' = manager \cup {n}
    /\ UNCHANGED <<envFiles, dropIn, loadedUnit, service, activation>>

(* a start reads the files anew, but the unit as it was loaded *)
NextProcess == [up |-> TRUE, root |-> loadedUnit.root, env |-> Merged(loadedUnit, envFiles), pid |-> service.pid + 1]
NoLongerUp == [NoProcess EXCEPT !.pid = service.pid]
Starts == service' = IF service.pid < MaxServiceStarts THEN NextProcess ELSE NoLongerUp
ServiceFails ==
    /\ service.up
    /\ Starts \/ service' = NoLongerUp
    /\ UNCHANGED <<envFiles, manager, dropIn, loadedUnit, activation, edits>>

-----------------------------------------------------------------------------
(* The script, cut where it awaits a command or a file *)
AtStep(step) == activation.step = step
GoesTo(step) == activation' = [activation EXCEPT !.step = step]
Undoes(changed) == [NotActivating EXCEPT !.step = "undo", !.changed = changed,
                                         !.oldUnit = activation.oldUnit, !.oldRuntime = activation.oldRuntime]
OnlyScript == UNCHANGED <<envFiles, manager, dropIn, loadedUnit, service, edits>>

Prepare ==
    /\ activation.step \in Over /\ service.up
    /\ ReleaseEnvironment(Layered(PreparedFiles(envFiles)))
    /\ activation' = [NotActivating EXCEPT !.step = "prepared", !.files = envFiles, !.unit = PreparedUnit(envFiles),
                                           !.oldUnit = dropIn]
    /\ OnlyScript
KeepOriginal ==
    /\ AtStep("prepared")
    /\ activation' = [activation EXCEPT !.step = "kept", !.oldRuntime = envFiles["runtime"]]
    /\ OnlyScript
ReplaceDropIn ==
    /\ AtStep("kept")
    /\ dropIn' = activation.unit
    /\ activation' = [activation EXCEPT !.step = "replaced", !.changed = {"dropIn"}]
    /\ UNCHANGED <<envFiles, manager, loadedUnit, service, edits>>
Reload(from, to) ==
    /\ AtStep(from) /\ GoesTo(to)
    /\ loadedUnit' = dropIn
    /\ UNCHANGED <<envFiles, manager, dropIn, service, edits>>

(* commitUserReleaseEnvironment *)
GrantCommit ==
    /\ AtStep("reloaded") /\ envFiles = activation.files /\ EffectiveRelease(PreparedFiles(envFiles))
    /\ GoesTo("granted") /\ OnlyScript
CompareRuntime ==
    /\ AtStep("granted") /\ envFiles["runtime"] = activation.files["runtime"]
    /\ GoesTo("compared") /\ OnlyScript
WriteRuntime ==
    /\ AtStep("compared")
    /\ envFiles' = [envFiles EXCEPT !["runtime"] = Rewritten(activation.files["runtime"])]
    /\ activation' = [activation EXCEPT !.step = "written", !.changed = @ \cup {"runtime"}]
    /\ UNCHANGED <<manager, dropIn, loadedUnit, service, edits>>

ProveEffective ==
    /\ AtStep("written") /\ EffectiveRelease(envFiles)
    /\ activation' = [activation EXCEPT !.step = "proven", !.expected = Merged(loadedUnit, envFiles)]
    /\ OnlyScript
RestartRelease ==
    /\ AtStep("proven") /\ Starts
    /\ activation' = IF service'.up THEN [activation EXCEPT !.step = "restarted", !.changed = @ \cup {"restart"}]
                     ELSE Undoes(activation.changed \cup {"restart"})
    /\ UNCHANGED <<envFiles, manager, dropIn, loadedUnit, edits>>
BecomesHealthy ==
    /\ AtStep("restarted") /\ service.up
    /\ activation' = [activation EXCEPT !.step = "up", !.pid = service.pid]
    /\ OnlyScript

(* the process under /proc, whose environment was read at its start *)
DonorIn(env) == {<<n, env[n]>> : n \in DonorNames \cap DOMAIN env}
IsRelease(process) ==
    /\ process.root = Release
    /\ ReleaseEnvironment(process.env) /\ DonorIn(process.env) = DonorIn(activation.expected)
LookAtProcess ==
    /\ AtStep("up") /\ service.up /\ service.pid = activation.pid /\ IsRelease(service)
    /\ GoesTo("looked") /\ OnlyScript
FinalProof ==
    /\ AtStep("looked") /\ EffectiveRelease(envFiles)
    /\ envFiles["runtime"] = Rewritten(activation.files["runtime"])
    /\ activation' = [NotActivating EXCEPT !.step = "active", !.pid = activation.pid]
    /\ OnlyScript

(* an assertion, a command or a file; before the drop-in nothing is undone *)
Fails ==
    /\ activation.step \in Trying
    /\ activation' = Undoes(activation.changed)
    /\ OnlyScript
Killed ==
    /\ activation.step \in Trying \cup Undoing
    /\ activation' = [NotActivating EXCEPT !.step = "killed"]
    /\ OnlyScript

-----------------------------------------------------------------------------
UndoRuntime ==
    /\ AtStep("undo") /\ GoesTo("runtimeUndone")
    /\ envFiles' = IF "runtime" \in activation.changed THEN [envFiles EXCEPT !["runtime"] = activation.oldRuntime]
                   ELSE envFiles
    /\ UNCHANGED <<manager, dropIn, loadedUnit, service, edits>>
BadUndoDropIn ==
    /\ AtStep("runtimeUndone")
    /\ IF "dropIn" \in activation.changed
       THEN GoesTo("undone") /\ dropIn' = activation.oldUnit
       ELSE GoesTo("undone") /\ UNCHANGED dropIn
    /\ UNCHANGED <<envFiles, manager, loadedUnit, service, edits>>
UndoDropIn ==
    /\ AtStep("runtimeUndone")
    /\ IF "dropIn" \in activation.changed
       THEN GoesTo("dropInUndone") /\ dropIn' = activation.oldUnit
       ELSE GoesTo("undone") /\ UNCHANGED dropIn
    /\ UNCHANGED <<envFiles, manager, loadedUnit, service, edits>>
ProveRollback ==
    /\ AtStep("undone")
    /\ GoesTo(IF "restart" \notin activation.changed THEN "failed" ELSE IF SafeRollback THEN "safe" ELSE "manual")
    /\ OnlyScript
RestartRestored ==
    /\ AtStep("safe") /\ Starts
    /\ GoesTo(IF service'.up THEN "failed" ELSE "stuck")
    /\ UNCHANGED <<envFiles, manager, dropIn, loadedUnit, edits>>
UndoFails ==
    /\ activation.step \in Undoing
    /\ activation' = [NotActivating EXCEPT !.step = "stuck"]
    /\ OnlyScript

ReleaseNext ==
    \/ \E f \in {"mail-send", "hold"} : FileEdited(f)
    \/ RuntimeEdited \/ ManagerChanges \/ ServiceFails
    \/ Prepare \/ KeepOriginal \/ ReplaceDropIn \/ Reload("replaced", "reloaded")
    \/ GrantCommit \/ CompareRuntime \/ WriteRuntime \/ ProveEffective \/ RestartRelease
    \/ BecomesHealthy \/ LookAtProcess \/ FinalProof \/ Fails \/ Killed
    \/ UndoRuntime \/ UndoDropIn \/ Reload("dropInUndone", "undone") \/ ProveRollback \/ RestartRestored \/ UndoFails

ReleaseSpec == ReleaseInit /\ [][ReleaseNext]_releaseVars

-----------------------------------------------------------------------------
(* However an activation ends, the operator knows what runs: after success  *)
(* the server that was looked at has the environment of the release, its    *)
(* external actions off and its donor complete, although the files changed  *)
(* between proof and start; after a failure that says no more, drop-in and  *)
(* runtime.env are those of before, systemd has them loaded, and a service  *)
(* that was restarted runs what it ran (activateUserRelease).               *)
EndsProvenOrRestored ==
    /\ AtStep("active") /\ service.up /\ service.pid = activation.pid =>
          service.root = Release /\ ReleaseEnvironment(service.env)
    /\ activation.step \in {"failed", "manual"} =>
          /\ dropIn = activation.oldUnit
          /\ "dropIn" \in activation.changed => loadedUnit = dropIn
          /\ "runtime" \in activation.changed /\ HasValue(envFiles["runtime"], "commit", {Release}) =>
                HasValue(activation.oldRuntime, "commit", {Release})
    /\ AtStep("failed") /\ "restart" \in activation.changed /\ service.up => service.root = activation.oldUnit.root
===============================================================================
