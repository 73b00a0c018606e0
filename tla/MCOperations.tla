----------------------------- MODULE MCOperations -----------------------------
(***************************************************************************)
(* Instances for TLC of the parts of the server beside the mail itself:    *)
(* the Drive connection, the sessions of the operator, the analyses under  *)
(* the settings, the shared integrity check, backup and restore, the rules *)
(* a mail is classified by, search, and the activation of a release.  They *)
(* share no state, so a behaviour runs the one it has chosen and leaves    *)
(* the others where they began.                                            *)
(***************************************************************************)
EXTENDS DriveGrants, AccessSessions, AiAnalysis, SharedIntegrity, DatabaseRestore,
        MCPrecisionRules, MCMailSearch, ReleaseActivation, TLC

CONSTANTS r1, r2

VARIABLE chosen

(* runtime.env of the release before, with its actions approved or not *)
RuntimeFile(approved, donor) == [commit |-> "old", actions |-> approved, send |-> "0"] @@ donor
RuntimeFiles == {RuntimeFile("1", <<>>), RuntimeFile("0", "donor" :> "whole")}
FileFragments == {<<>>, "actions" :> "1", "donor" :> "part"}
OldUnit == [root |-> "old", unset |-> {"donor"}]
(* requests and readers are alike, and the same values stand for them *)
Alike == Permutations({r1, r2})

operationsVars == <<driveVars, sessionVars, analysisVars, integrityVars, restoreVars,
                    rulesVars, searchVars, releaseVars, chosen>>

Init ==
  /\ chosen \in {"drive", "sessions", "analysis", "integrity",
                "restore", "rules", "search", "release"}
  /\ DriveInit
  /\ chosen # "drive" => \A f \in DriveFiles : Head(drive[f].versions) = CHOOSE c \in FileContents : TRUE
  /\ SessionsInit
  /\ chosen # "sessions" => legacyFile = NoLegacyFile
  /\ AnalysisInit
  /\ chosen # "analysis" => policy = 1
  /\ IntegrityInit /\ RestoreInit
  /\ RulesInit
  /\ chosen # "rules" => matches = 0 /\ mail = CHOOSE m \in RuledMails : TRUE
  /\ SearchInit
  /\ chosen # "search" => mailbox = {}
  /\ ReleaseInit
  /\ chosen # "release" => envFiles["runtime"] = RuntimeFile("1", <<>>)

DriveTurn ==
  /\ chosen = "drive" /\ DriveNext
  /\ UNCHANGED <<sessionVars, analysisVars, integrityVars, restoreVars, rulesVars, searchVars, releaseVars, chosen>>
SessionsTurn ==
  /\ chosen = "sessions" /\ SessionsNext
  /\ UNCHANGED <<driveVars, analysisVars, integrityVars, restoreVars, rulesVars, searchVars, releaseVars, chosen>>
AnalysisTurn ==
  /\ chosen = "analysis" /\ AnalysisNext
  /\ UNCHANGED <<driveVars, sessionVars, integrityVars, restoreVars, rulesVars, searchVars, releaseVars, chosen>>
IntegrityTurn ==
  /\ chosen = "integrity" /\ IntegrityNext
  /\ UNCHANGED <<driveVars, sessionVars, analysisVars, restoreVars, rulesVars, searchVars, releaseVars, chosen>>
RestoreTurn ==
  /\ chosen = "restore" /\ RestoreNext
  /\ UNCHANGED <<driveVars, sessionVars, analysisVars, integrityVars, rulesVars, searchVars, releaseVars, chosen>>
RulesTurn ==
  /\ chosen = "rules" /\ RulesNext
  /\ UNCHANGED <<driveVars, sessionVars, analysisVars, integrityVars, restoreVars,
                 searchVars, releaseVars, chosen>>
SearchTurn ==
  /\ chosen = "search" /\ SearchNext
  /\ answer = NoAnswer    \* a search keeps nothing, so the next one finds what it found
  /\ UNCHANGED <<driveVars, sessionVars, analysisVars, integrityVars, restoreVars,
                 rulesVars, releaseVars, chosen>>
ReleaseTurn ==
  /\ chosen = "release" /\ ReleaseNext
  /\ UNCHANGED <<driveVars, sessionVars, analysisVars, integrityVars, restoreVars,
                 rulesVars, searchVars, chosen>>

Next ==
  \/ DriveTurn \/ SessionsTurn \/ AnalysisTurn
  \/ IntegrityTurn \/ RestoreTurn \/ RulesTurn \/ SearchTurn \/ ReleaseTurn

Spec == Init /\ [][Next]_operationsVars

(* Types of the state of the part that runs. *)
OperationsTypeOK ==
  CASE chosen = "drive" -> DriveTypeOK /\ OneConnectionPerFlow
    [] chosen = "sessions" -> SessionsTypeOK
    [] chosen = "analysis" -> ConfigTypeOK /\ AnalysisTypeOK
    [] chosen = "integrity" -> IntegrityTypeOK
    [] chosen = "restore" -> RestoreTypeOK
    [] chosen = "rules" -> RulesTypeOK
    [] chosen = "search" -> SearchTypeOK
    [] chosen = "release" -> ReleaseTypeOK
===============================================================================
