---------------------------- MODULE DriveGrants ----------------------------
(***************************************************************************)
(* Google Drive as an attachment source: the OAuth connection, the files a *)
(* person selected under it, and the import of a selected file into the    *)
(* attachment assets (mail-drive-connections.js, mail-drive-api.js).       *)
(*                                                                         *)
(* One mailbox and one Google account.  A request is cut at its awaits:    *)
(* what it read before an await stays in its record of `ops`.              *)
(***************************************************************************)
EXTENDS Naturals, FiniteSets, Sequences

CONSTANTS
    DriveFiles,     \* the files of the Google account
    DriveRequests,  \* request ids of imports
    DriveOps,       \* requests of the server that can be in flight at once
    Browsers,       \* browser sessions
    FileContents,       \* what a file may hold
    MaxVersion,     \* bound: versions of one file
    MaxStarts       \* bound: OAuth flows started

ASSUME DriveAssumption ==
    /\ MaxVersion \in Nat \ {0}
    /\ MaxStarts \in Nat
    /\ IsFiniteSet(DriveOps)
    /\ IsFiniteSet(Browsers)

VARIABLES
    states,      \* Browsers -> number of OAuth states waiting for their callback
    started,     \* OAuth flows started
    connected,   \* OAuth flows that ended in a connection
    conn,        \* mail_drive_connections: the row of this account
    fileGrants,  \* mail_drive_file_grants: DriveFiles -> the grant
    drive,       \* Google's side: every version's content, and the access to it
    imported,    \* mail_attachment_assets of origin 'drive', by request id
    ops          \* the requests in flight

driveVars == <<states, started, connected, conn, fileGrants, drive, imported, ops>>

NoFile == "no file"
NotImported == [file |-> NoFile, version |-> 0, content |-> NoFile]
Request(step, f, r, version) ==
    [step |-> step, file |-> f, request |-> r, version |-> version, content |-> NoFile]
NoOp == Request("idle", NoFile, NoFile, 0)

OpSteps == {"idle", "callback", "selecting", "selected", "token", "metadata", "download",
          "confirm", "store", "recheck", "compare"}

StoredFiles == [access : {"open", "locked", "trashed"}, versions : Seq(FileContents)]
Imports == [file : DriveFiles, version : 1..MaxVersion, content : FileContents]
DriveRequestOps == [step : OpSteps, file : DriveFiles \cup {NoFile}, request : DriveRequests \cup {NoFile},
                    version : 0..MaxVersion, content : FileContents \cup {NoFile}]

DriveTypeOK ==
    /\ states \in [Browsers -> 0..MaxStarts]
    /\ started \in 0..MaxStarts
    /\ connected \in Nat
    /\ conn \in {"none", "live", "revoked"}
    /\ fileGrants \in [DriveFiles -> {"none", "live", "revoked"}]
    /\ drive \in [DriveFiles -> StoredFiles]
    /\ \A f \in DriveFiles : Len(drive[f].versions) \in 1..MaxVersion
    /\ imported \in [DriveRequests -> {NotImported} \cup Imports]
    /\ ops \in [DriveOps -> DriveRequestOps]

DriveInit ==
    /\ states = [b \in Browsers |-> 0]
    /\ started = 0
    /\ connected = 0
    /\ conn = "none"
    /\ fileGrants = [f \in DriveFiles |-> "none"]
    /\ drive \in [DriveFiles -> [access : {"open"}, versions : {<<c>> : c \in FileContents}]]
    /\ imported = [r \in DriveRequests |-> NotImported]
    /\ ops = [o \in DriveOps |-> NoOp]

Version(f) == Len(drive[f].versions)
Readable(f) == drive[f].access = "open"
Goto(o, step) == ops' = [ops EXCEPT ![o].step = step]
Done(o) == ops' = [ops EXCEPT ![o] = NoOp]

------------------------------------------------------------------------------
(* Google: the owner edits, locks, trashes or reopens a file at any time. *)
DriveEdits(f) ==
    /\ Version(f) < MaxVersion
    /\ \E c \in FileContents : drive' = [drive EXCEPT ![f].versions = Append(@, c)]
    /\ UNCHANGED <<states, started, connected, conn, fileGrants, imported, ops>>

DriveAccessChanges(f) ==
    /\ \E a \in {"open", "locked", "trashed"} \ {drive[f].access} :
          drive' = [drive EXCEPT ![f].access = a]
    /\ UNCHANGED <<states, started, connected, conn, fileGrants, imported, ops>>

------------------------------------------------------------------------------
(* The connection. *)
startConnect(b) ==
    /\ started < MaxStarts
    /\ started' = started + 1
    /\ states' = [states EXCEPT ![b] = @ + 1]
    /\ UNCHANGED <<connected, conn, fileGrants, drive, imported, ops>>

\* prune: a state older than STATE_TTL_MS is dropped by the next flow or callback.
StateExpires(b) ==
    /\ states[b] > 0
    /\ states' = [states EXCEPT ![b] = @ - 1]
    /\ UNCHANGED <<started, connected, conn, fileGrants, drive, imported, ops>>

\* The callback belongs to the session that started the flow, and it takes the
\* state out of the map before it exchanges the code.
BadFinishCallback(o, b) ==
    /\ ops[o].step = "idle"
    /\ states[b] > 0
    /\ Goto(o, "callback")
    /\ UNCHANGED <<states, started, connected, conn, fileGrants, drive, imported>>
finishCallback(o, b) ==
    /\ ops[o].step = "idle"
    /\ states[b] > 0
    /\ states' = [states EXCEPT ![b] = @ - 1]
    /\ Goto(o, "callback")
    /\ UNCHANGED <<started, connected, conn, fileGrants, drive, imported>>

\* The row of the account is inserted or revived; its grants are not touched.
CallbackStores(o) ==
    /\ ops[o].step = "callback"
    /\ conn' = "live"
    /\ connected' = connected + 1
    /\ Done(o)
    /\ UNCHANGED <<states, started, fileGrants, drive, imported>>

disconnect ==
    /\ conn = "live"
    /\ conn' = "revoked"
    /\ fileGrants' = [f \in DriveFiles |-> IF fileGrants[f] = "live" THEN "revoked" ELSE fileGrants[f]]
    /\ UNCHANGED <<states, started, connected, drive, imported, ops>>

------------------------------------------------------------------------------
(* Selecting a file: the connection is read before the token is refreshed, *)
(* and only the metadata stands between it and the grant.                  *)
recordSelection(o, f) ==
    /\ ops[o].step = "idle"
    /\ conn = "live"
    /\ ops' = [ops EXCEPT ![o] = Request("selecting", f, NoFile, 0)]
    /\ UNCHANGED <<states, started, connected, conn, fileGrants, drive, imported>>

SelectionMetadata(o) ==
    /\ ops[o].step = "selecting"
    /\ Readable(ops[o].file)
    /\ Goto(o, "selected")
    /\ UNCHANGED <<states, started, connected, conn, fileGrants, drive, imported>>

SelectionStores(o) ==
    /\ ops[o].step = "selected"
    /\ fileGrants' = [fileGrants EXCEPT ![ops[o].file] = "live"]
    /\ Done(o)
    /\ UNCHANGED <<states, started, connected, conn, drive, imported>>

------------------------------------------------------------------------------
(* Importing a selected file. *)
requireGrant(f) == fileGrants[f] = "live"

\* A request id that already has an asset is answered from it, without a step:
\* the asset when it is of this file, REQUEST_CONFLICT when it is not.
importFile(o, f, r) ==
    /\ ops[o].step = "idle"
    /\ requireGrant(f)
    /\ imported[r] = NotImported
    /\ conn = "live"
    /\ ops' = [ops EXCEPT ![o] = Request("token", f, r, 0)]
    /\ UNCHANGED <<states, started, connected, conn, fileGrants, drive, imported>>

ImportHasToken(o) ==
    /\ ops[o].step = "token"
    /\ requireGrant(ops[o].file)
    /\ Goto(o, "metadata")
    /\ UNCHANGED <<states, started, connected, conn, fileGrants, drive, imported>>

ImportReadsMetadata(o) ==
    /\ ops[o].step = "metadata"
    /\ Readable(ops[o].file)
    /\ ops' = [ops EXCEPT ![o] = Request("download", @.file, @.request, Version(ops[o].file))]
    /\ UNCHANGED <<states, started, connected, conn, fileGrants, drive, imported>>

\* download or export: the bytes are those of the version current by then.
ImportDownloads(o) ==
    LET f == ops[o].file
        asked == Request("confirm", f, ops[o].request, ops[o].version) IN
    /\ ops[o].step = "download"
    /\ Readable(f)
    /\ ops' = [ops EXCEPT ![o] = [asked EXCEPT !.content = drive[f].versions[Version(f)]]]
    /\ UNCHANGED <<states, started, connected, conn, fileGrants, drive, imported>>

BadSameSource(o) == drive[ops[o].file].access # "trashed"
SameSource(o) ==
    /\ Version(ops[o].file) = ops[o].version
    /\ drive[ops[o].file].access # "trashed"

ImportConfirms(o) ==
    /\ ops[o].step = "confirm"
    /\ SameSource(o)
    /\ Goto(o, "store")
    /\ UNCHANGED <<states, started, connected, conn, fileGrants, drive, imported>>

\* assets.upload: a request id that got an asset meanwhile keeps it, whether the
\* bytes are the same (a replay) or not (a conflict).
ImportStores(o) ==
    /\ ops[o].step = "store"
    /\ LET r == ops[o].request IN
       imported' = IF imported[r] # NotImported THEN imported
                   ELSE [imported EXCEPT ![r] = [file |-> ops[o].file, version |-> ops[o].version,
                                                 content |-> ops[o].content]]
    /\ Done(o)
    /\ UNCHANGED <<states, started, connected, conn, fileGrants, drive>>

------------------------------------------------------------------------------
(* Before a draft is approved its Drive assets are checked again. *)
recheckAsset(o, r) ==
    /\ ops[o].step = "idle"
    /\ imported[r] # NotImported
    /\ conn = "live"
    /\ ops' = [ops EXCEPT ![o] = Request("recheck", imported[r].file, r, imported[r].version)]
    /\ UNCHANGED <<states, started, connected, conn, fileGrants, drive, imported>>

RecheckHasToken(o) ==
    /\ ops[o].step = "recheck"
    /\ requireGrant(ops[o].file)
    /\ Goto(o, "compare")
    /\ UNCHANGED <<states, started, connected, conn, fileGrants, drive, imported>>

RecheckPasses(o) ==
    /\ ops[o].step = "compare"
    /\ Readable(ops[o].file)
    /\ Version(ops[o].file) = ops[o].version
    /\ Done(o)
    /\ UNCHANGED <<states, started, connected, conn, fileGrants, drive, imported>>

\* Any await may fail, and every check that does not hold ends the request.
OpFails(o) ==
    /\ ops[o].step # "idle"
    /\ Done(o)
    /\ UNCHANGED <<states, started, connected, conn, fileGrants, drive, imported>>

------------------------------------------------------------------------------
DriveOp(o) ==
    \/ \E b \in Browsers : finishCallback(o, b)
    \/ CallbackStores(o)
    \/ \E f \in DriveFiles : recordSelection(o, f)
    \/ SelectionMetadata(o)
    \/ SelectionStores(o)
    \/ \E f \in DriveFiles, r \in DriveRequests : importFile(o, f, r)
    \/ ImportHasToken(o)
    \/ ImportReadsMetadata(o)
    \/ ImportDownloads(o)
    \/ ImportConfirms(o)
    \/ ImportStores(o)
    \/ \E r \in DriveRequests : recheckAsset(o, r)
    \/ RecheckHasToken(o)
    \/ RecheckPasses(o)
    \/ OpFails(o)

DriveNext ==
    \/ \E f \in DriveFiles : DriveEdits(f) \/ DriveAccessChanges(f)
    \/ \E b \in Browsers : startConnect(b) \/ StateExpires(b)
    \/ disconnect
    \/ \E o \in DriveOps : DriveOp(o)

DriveSpec == DriveInit /\ [][DriveNext]_driveVars

------------------------------------------------------------------------------
\* One OAuth flow makes at most one connection, whichever of the session's windows
\* answers first.
OneConnectionPerFlow == connected <= started

\* The bytes of an imported asset are the bytes of the version it records: a file
\* edited between the metadata, the download and the second metadata is never
\* stored under the wrong version (mail-drive-api.js, the import).
AssetIsItsVersion ==
    \A r \in DriveRequests : imported[r] # NotImported =>
        drive[imported[r].file].versions[imported[r].version] = imported[r].content

=============================================================================
