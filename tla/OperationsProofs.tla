-------------------------- MODULE OperationsProofs --------------------------
(***************************************************************************)
(* Proofs about the parts of the server beside the mail itself, for any    *)
(* number of files, requests, readers, restores and edits: what an import  *)
(* from Drive holds and that a flow connects once (DriveInv), what an      *)
(* external provider serves under and what the cache keeps of it           *)
(* (ConfigInv, AnalysisInv), how recent "ready" is (IntegrityInv), what a  *)
(* restore leaves (RestoreInv), what runs once an activation has ended     *)
(* (ReleaseInv) and whose sessions a restarted server accepts              *)
(* (SessionInv).                                                           *)
(*                                                                         *)
(* Each invariant says of every request or step that is under way what it  *)
(* carries on from the step before: the property itself speaks only of     *)
(* what is there when all is done.  At the end the parts are put beside    *)
(* each other as the run has them.                                         *)
(***************************************************************************)
EXTENDS MCOperations, MailReadingProofs

-----------------------------------------------------------------------------
(* Drive.                                                                   *)
VersionIs(f, v, content) == v \in 1..Version(f) /\ drive[f].versions[v] = content

(* A request that is past a step still has what that step was about; the    *)
(* bytes it downloaded are those of a version no older than the metadata,   *)
(* and once confirmed of that very version.                                 *)
InFlight(op) ==
  /\ op.step \notin {"idle", "callback"} => op.file \in DriveFiles
  /\ op.step \in {"token", "metadata", "download", "confirm", "store"} => op.request \in DriveRequests
  /\ op.step \in {"download", "confirm", "store"} => op.version \in 1..Version(op.file)
  /\ op.step = "confirm" => \E v \in 1..MaxVersion : v >= op.version /\ VersionIs(op.file, v, op.content)
  /\ op.step \in {"confirm", "store"} => op.content \in FileContents
  /\ op.step = "store" => VersionIs(op.file, op.version, op.content)

OpsInFlight == \A o \in DriveOps : InFlight(ops[o])

ImportedOf == \A r \in DriveRequests : imported[r] # NotImported =>
  VersionIs(imported[r].file, imported[r].version, imported[r].content)

DriveInv == DriveTypeOK /\ (\A b \in Browsers : states[b] <= started) /\ OpsInFlight /\ ImportedOf

(* What every step leaves: the versions a file has had.                     *)
VersionsKept == \A f \in DriveFiles :
  /\ Version(f) <= Version(f)'
  /\ \A v \in 1..Version(f) : drive'[f].versions[v] = drive[f].versions[v]

(* A version once there keeps its content.                                 *)
LEMMA KeptVersionIs ==
    ASSUME DriveTypeOK, DriveTypeOK', VersionsKept, NEW f \in DriveFiles, NEW v, NEW content,
           VersionIs(f, v, content)
    PROVE  VersionIs(f, v, content)'
  <1>1. Version(f) \in Nat /\ Version(f)' \in Nat
    BY DEF DriveTypeOK, StoredFiles, Version
  <1>2. Version(f) <= Version(f)' /\ drive'[f].versions[v] = drive[f].versions[v]
    BY DEF VersionsKept, VersionIs
  <1> QED
    BY <1>1, <1>2 DEF VersionIs

(* An edit adds one.                                                       *)
LEMMA EditKeepsVersions ==
    ASSUME DriveTypeOK, NEW f \in DriveFiles, DriveEdits(f)
    PROVE  VersionsKept /\ DriveTypeOK'
  <1> PICK c \in FileContents : drive' = [drive EXCEPT ![f].versions = Append(@, c)]
    BY DEF DriveEdits
  <1> DEFINE s == drive[f].versions
  <1>0. s \in Seq(FileContents) /\ Len(s) \in 1..MaxVersion /\ Len(s) < MaxVersion /\ drive[f] \in StoredFiles
    BY DEF DriveTypeOK, StoredFiles, DriveEdits, Version
  <1>1. /\ Append(s, c) \in Seq(FileContents) /\ Len(Append(s, c)) = Len(s) + 1
        /\ \A v \in 1..Len(s) : Append(s, c)[v] = s[v]
    BY <1>0
  <1>2. drive' = [drive EXCEPT ![f] = [drive[f] EXCEPT !.versions = Append(s, c)]]
    OBVIOUS
  <1>3. [drive[f] EXCEPT !.versions = Append(s, c)] \in StoredFiles
    BY <1>0, <1>1 DEF StoredFiles
  <1>4. drive' \in [DriveFiles -> StoredFiles] /\ drive'[f].versions = Append(s, c)
        /\ \A g \in DriveFiles \ {f} : drive'[g] = drive[g]
    BY <1>0, <1>1, <1>2, <1>3 DEF DriveTypeOK, StoredFiles
  <1> HIDE DEF s
  <1>5. \A g \in DriveFiles : Len(drive'[g].versions) \in 1..MaxVersion
    <2> TAKE g \in DriveFiles
    <2>1. CASE g = f
      BY <2>1, <1>0, <1>1, <1>4, DriveAssumption
    <2>2. CASE g # f
      BY <2>2, <1>4 DEF DriveTypeOK
    <2> QED BY <2>1, <2>2
  <1>6. DriveTypeOK'
    BY <1>4, <1>5 DEF DriveTypeOK, DriveEdits, DriveRequestOps, StoredFiles
  <1>7. VersionsKept
    <2> SUFFICES ASSUME NEW g \in DriveFiles
                 PROVE  /\ Version(g) <= Version(g)'
                        /\ \A v \in 1..Version(g) : drive'[g].versions[v] = drive[g].versions[v]
      BY DEF VersionsKept
    <2>1. CASE g = f
      BY <2>1, <1>0, <1>1, <1>4 DEF Version, s
    <2>2. CASE g # f
      BY <2>2, <1>4 DEF DriveTypeOK, Version
    <2> QED BY <2>1, <2>2
  <1> QED BY <1>6, <1>7

(* What a step of Google's leaves of the requests and of the assets.        *)
LEMMA EditsKeepTheRest ==
    ASSUME DriveInv, DriveTypeOK', VersionsKept, UNCHANGED <<states, started, imported, ops>>
    PROVE  DriveInv'
  <1>0. \A f \in DriveFiles : Version(f) \in Nat /\ Version(f)' \in Nat /\ Version(f) <= Version(f)'
    BY DEF DriveInv, DriveTypeOK, StoredFiles, Version, VersionsKept
  <1>1. \A f \in DriveFiles : \A v, content : VersionIs(f, v, content) => VersionIs(f, v, content)'
    BY KeptVersionIs DEF DriveInv
  <1>2. ASSUME NEW o \in DriveOps PROVE InFlight(ops[o])'
    <2> PICK op \in DriveRequestOps : op = ops[o]
      BY DEF DriveInv, DriveTypeOK
    <2>1. InFlight(op) /\ ops'[o] = op /\ op.version \in 0..MaxVersion
      BY DEF DriveInv, OpsInFlight, DriveRequestOps
    <2>2. CASE op.step \notin {"download", "confirm", "store"}
      BY <2>1, <2>2 DEF InFlight
    <2>3. CASE op.step \in {"download", "confirm", "store"}
      <3> PICK f \in DriveFiles : f = op.file
        BY <2>1, <2>3 DEF InFlight
      <3>1. op.version \in 1..Version(f)'
        BY <1>0, <2>1, <2>3 DEF InFlight
      <3>2. op.step = "confirm" => \E v \in 1..MaxVersion : v >= op.version /\ VersionIs(f, v, op.content)'
        BY <1>1, <2>1 DEF InFlight
      <3>3. op.step = "store" => VersionIs(f, op.version, op.content)'
        BY <1>1, <2>1 DEF InFlight
      <3> QED
        BY <2>1, <3>1, <3>2, <3>3 DEF InFlight
    <2> QED BY <2>2, <2>3
  <1>3. ImportedOf'
    <2> SUFFICES ASSUME NEW r \in DriveRequests, imported[r] # NotImported
                 PROVE  VersionIs(imported[r].file, imported[r].version, imported[r].content)'
      BY DEF ImportedOf
    <2>1. imported[r] \in Imports
      BY DEF DriveInv, DriveTypeOK
    <2> QED
      BY <1>1, <2>1 DEF DriveInv, ImportedOf, Imports
  <1> QED
    BY <1>2, <1>3 DEF DriveInv, OpsInFlight

(* What a request has when it comes to a step.                              *)
LEMMA RequestAt ==
    ASSUME NEW step \in OpSteps, NEW f \in DriveFiles, NEW r \in DriveRequests \cup {NoFile},
           NEW v \in 0..MaxVersion, NEW content \in FileContents \cup {NoFile}, step # "store",
           step \in {"token", "metadata", "download", "confirm"} => r \in DriveRequests,
           step \in {"download", "confirm"} => v \in 1..Version(f),
           step = "confirm" => /\ content \in FileContents
                               /\ \E w \in 1..MaxVersion : w >= v /\ VersionIs(f, w, content)
    PROVE  LET op == [step |-> step, file |-> f, request |-> r, version |-> v, content |-> content]
           IN  op \in DriveRequestOps /\ InFlight(op)
  BY DEF DriveRequestOps, InFlight

(* A step of one request, with the files and the assets as they are.        *)
LEMMA OpBecomes ==
    ASSUME DriveInv, NEW o \in DriveOps, NEW op \in DriveRequestOps, InFlight(op),
           ops' = [ops EXCEPT ![o] = op], UNCHANGED <<drive, imported>>
    PROVE  /\ ops' \in [DriveOps -> DriveRequestOps]
           /\ OpsInFlight' /\ ImportedOf'
  <1>1. ops \in [DriveOps -> DriveRequestOps] /\ \A p \in DriveOps : InFlight(ops[p])
    BY DEF DriveInv, DriveTypeOK, OpsInFlight
  <1>2. \A p \in DriveOps : InFlight(ops'[p])
    BY <1>1
  <1>3. \A p \in DriveOps : InFlight(ops[p])'
    BY <1>2 DEF InFlight, VersionIs, Version
  <1>4. ImportedOf'
    BY DEF DriveInv, ImportedOf, VersionIs, Version
  <1> QED
    BY <1>1, <1>3, <1>4 DEF OpsInFlight

(* No operation is one in flight.                                          *)
LEMMA NoOpInFlight == NoOp \in DriveRequestOps /\ InFlight(NoOp)
  BY DriveAssumption DEF NoOp, Request, DriveRequestOps, InFlight, OpSteps, NoFile

(* An operation that ends leaves the others and what was imported.         *)
LEMMA DoneKeeps ==
    ASSUME DriveInv, NEW o \in DriveOps, Done(o), UNCHANGED <<drive, imported>>
    PROVE  /\ ops' \in [DriveOps -> DriveRequestOps]
           /\ OpsInFlight' /\ ImportedOf'
  BY NoOpInFlight, OpBecomes DEF Done

(* A request that only goes on to its next step.                            *)
LEMMA GotoKeeps ==
    ASSUME DriveInv, NEW o \in DriveOps, NEW step \in OpSteps, Goto(o, step), UNCHANGED <<drive, imported>>,
           InFlight([ops[o] EXCEPT !.step = step])
    PROVE  /\ ops' \in [DriveOps -> DriveRequestOps]
           /\ OpsInFlight' /\ ImportedOf'
  <1>1. [ops[o] EXCEPT !.step = step] \in DriveRequestOps
    BY DEF DriveInv, DriveTypeOK, DriveRequestOps
  <1>2. ops' = [ops EXCEPT ![o] = [ops[o] EXCEPT !.step = step]]
    BY DEF Goto
  <1> QED BY <1>1, <1>2, OpBecomes

-----------------------------------------------------------------------------
(* Every state of the Drive connection satisfies DriveInv.                  *)
THEOREM DriveInvariant == DriveSpec => []DriveInv
<1>1. DriveInit => DriveInv
  <2> SUFFICES ASSUME DriveInit PROVE DriveInv
    OBVIOUS
  <2>1. \A c \in FileContents : <<c>> \in Seq(FileContents) /\ Len(<<c>>) = 1
    OBVIOUS
  <2>2. \A f \in DriveFiles : \E c \in FileContents : drive[f] = [access |-> "open", versions |-> <<c>>]
    BY DEF DriveInit
  <2>3. DriveTypeOK
    <3>1. drive \in [DriveFiles -> StoredFiles]
      <4>1. \A f \in DriveFiles : drive[f] \in StoredFiles
        <5> SUFFICES ASSUME NEW f \in DriveFiles PROVE drive[f] \in StoredFiles
          OBVIOUS
        <5>1. PICK c \in FileContents : drive[f] = [access |-> "open", versions |-> <<c>>]
          BY <2>2
        <5>2. <<c>> \in Seq(FileContents)
          OBVIOUS
        <5> QED BY <5>1, <5>2 DEF StoredFiles
      <4>2. drive = [f \in DriveFiles |-> drive[f]]
        BY DEF DriveInit
      <4> QED BY <4>1, <4>2
    <3>2. \A f \in DriveFiles : Len(drive[f].versions) = 1
      <4> SUFFICES ASSUME NEW f \in DriveFiles PROVE Len(drive[f].versions) = 1
        OBVIOUS
      <4>1. PICK c \in FileContents : drive[f] = [access |-> "open", versions |-> <<c>>]
        BY <2>2
      <4>2. drive[f].versions = <<c>>
        BY <4>1
      <4> QED BY <4>2
    <3>3. /\ states \in [Browsers -> 0..MaxStarts] /\ started \in 0..MaxStarts /\ connected \in Nat
          /\ fileGrants \in [DriveFiles -> {"none", "live", "revoked"}]
      BY DriveAssumption DEF DriveInit
    <3>4. \A f \in DriveFiles : Len(drive[f].versions) \in 1..MaxVersion
      <4>1. 1 \in 1..MaxVersion
        BY DriveAssumption
      <4> QED BY <3>2, <4>1
    <3> QED
      BY <3>1, <3>3, <3>4, NoOpInFlight DEF DriveInit, DriveTypeOK
  <2> QED
    BY <2>3, NoOpInFlight, DriveAssumption DEF DriveInit, DriveInv, OpsInFlight, ImportedOf
<1>2. DriveInv /\ [DriveNext]_driveVars => DriveInv'
  <2> SUFFICES ASSUME DriveInv, [DriveNext]_driveVars PROVE DriveInv'
    OBVIOUS
  <2> DEFINE Sessions == \A b \in Browsers : states[b] <= started
  <2> DEFINE Rest == /\ states \in [Browsers -> 0..MaxStarts] /\ started \in 0..MaxStarts /\ connected \in Nat
                     /\ conn \in {"none", "live", "revoked"}
                     /\ fileGrants \in [DriveFiles -> {"none", "live", "revoked"}]
                     /\ imported \in [DriveRequests -> {NotImported} \cup Imports]
  <2> DEFINE Files == drive \in [DriveFiles -> StoredFiles]
                      /\ \A f \in DriveFiles : Len(drive[f].versions) \in 1..MaxVersion
  <2> DEFINE OpsOK == ops \in [DriveOps -> DriveRequestOps] /\ OpsInFlight /\ ImportedOf
  <2>0. Rest /\ Sessions /\ Files /\ OpsOK
    BY DEF DriveInv, DriveTypeOK
  <2>S. Rest' /\ Sessions' /\ Files' /\ OpsOK' => DriveInv'
    BY DEF DriveInv, DriveTypeOK
  <2>U. UNCHANGED <<states, started, connected, conn, fileGrants, imported>> => Rest' /\ Sessions'
    BY <2>0
  <2>D. UNCHANGED drive => Files'
    BY <2>0
  <2>O. UNCHANGED <<drive, ops, imported>> => OpsOK'
    BY <2>0 DEF OpsInFlight, InFlight, VersionIs, Version, ImportedOf
  <2>1. ASSUME NEW f \in DriveFiles, DriveEdits(f) PROVE DriveInv'
    BY <2>1, EditKeepsVersions, EditsKeepTheRest DEF DriveInv, DriveEdits
  <2>2. ASSUME NEW f \in DriveFiles, DriveAccessChanges(f) PROVE DriveInv'
    <3>1. PICK a \in {"open", "locked", "trashed"} : drive' = [drive EXCEPT ![f].access = a]
      BY <2>2 DEF DriveAccessChanges
    <3>2. drive' \in [DriveFiles -> StoredFiles] /\ \A g \in DriveFiles : drive'[g].versions = drive[g].versions
      BY <2>0, <3>1 DEF StoredFiles
    <3>3. DriveTypeOK'
      BY <2>0, <2>2, <3>2 DEF DriveAccessChanges, DriveTypeOK
    <3>4. VersionsKept
      BY <2>0, <3>2 DEF VersionsKept, Version
    <3> QED
      BY <2>2, <3>3, <3>4, EditsKeepTheRest DEF DriveAccessChanges
  <2>3. ASSUME NEW b \in Browsers, startConnect(b) \/ StateExpires(b) PROVE DriveInv'
    <3>1. Rest' /\ Sessions'
      BY <2>0, <2>3, DriveAssumption DEF startConnect, StateExpires
    <3> QED
      BY <2>3, <2>S, <2>D, <2>O, <3>1 DEF startConnect, StateExpires
  <2>4. CASE disconnect
    <3>1. Rest' /\ Sessions'
      BY <2>0, <2>4 DEF disconnect
    <3> QED
      BY <2>4, <2>S, <2>D, <2>O, <3>1 DEF disconnect
  <2>5. ASSUME NEW o \in DriveOps, DriveOp(o) PROVE DriveInv'
    <3> DEFINE op == ops[o]
    <3>0. op \in DriveRequestOps /\ InFlight(op)
      BY <2>0 DEF OpsInFlight
    <3>1. ASSUME NEW b \in Browsers, finishCallback(o, b) PROVE DriveInv'
      <4>1. Rest' /\ Sessions'
        BY <2>0, <3>1, DriveAssumption DEF finishCallback
      <4>2. InFlight([op EXCEPT !.step = "callback"])
        BY <3>0 DEF DriveRequestOps, InFlight
      <4> QED
        BY <3>1, <4>1, <4>2, <2>S, <2>D, GotoKeeps DEF finishCallback, OpSteps
    <3>2. CASE CallbackStores(o)
      <4>1. Rest' /\ Sessions'
        BY <2>0, <3>2 DEF CallbackStores
      <4> QED
        BY <3>2, <4>1, <2>S, <2>D, DoneKeeps DEF CallbackStores
    <3>3. ASSUME NEW f \in DriveFiles, recordSelection(o, f) PROVE DriveInv'
      <4> DEFINE new == Request("selecting", f, NoFile, 0)
      <4>1. new \in DriveRequestOps /\ InFlight(new)
        BY RequestAt, DriveAssumption DEF OpSteps, Request
      <4> HIDE DEF new
      <4> QED
        BY <3>3, <4>1, <2>S, <2>D, <2>U, OpBecomes DEF recordSelection, new
    <3>4. CASE SelectionMetadata(o)
      <4>1. InFlight([op EXCEPT !.step = "selected"])
        BY <3>0, <3>4 DEF DriveRequestOps, InFlight, SelectionMetadata
      <4> QED
        BY <3>4, <4>1, <2>S, <2>D, <2>U, GotoKeeps DEF SelectionMetadata, OpSteps
    <3>5. CASE SelectionStores(o)
      <4>1. Rest' /\ Sessions'
        BY <2>0, <3>5 DEF SelectionStores
      <4> QED
        BY <3>5, <4>1, <2>S, <2>D, DoneKeeps DEF SelectionStores
    <3>6. ASSUME NEW f \in DriveFiles, NEW r \in DriveRequests, importFile(o, f, r) PROVE DriveInv'
      <4> DEFINE new == Request("token", f, r, 0)
      <4>1. new \in DriveRequestOps /\ InFlight(new)
        BY RequestAt, DriveAssumption DEF OpSteps, Request
      <4> HIDE DEF new
      <4> QED
        BY <3>6, <4>1, <2>S, <2>D, <2>U, OpBecomes DEF importFile, new
    <3>7. CASE ImportHasToken(o)
      <4>1. InFlight([op EXCEPT !.step = "metadata"])
        BY <3>0, <3>7 DEF DriveRequestOps, InFlight, ImportHasToken
      <4> QED
        BY <3>7, <4>1, <2>S, <2>D, <2>U, GotoKeeps DEF ImportHasToken, OpSteps
    <3>8. CASE ImportReadsMetadata(o)
      <4> DEFINE new == Request("download", op.file, op.request, Version(op.file))
      <4>1. op.file \in DriveFiles /\ op.request \in DriveRequests
        BY <3>0, <3>8 DEF InFlight, ImportReadsMetadata
      <4>2. Version(op.file) \in 1..MaxVersion
        BY <2>0, <4>1 DEF Version
      <4>3. new \in DriveRequestOps /\ InFlight(new)
        <5>1. Version(op.file) \in 0..MaxVersion /\ Version(op.file) \in 1..Version(op.file)
          BY <4>2, DriveAssumption
        <5> QED BY <5>1, <4>1, RequestAt DEF OpSteps, Request
      <4>4. ops' = [ops EXCEPT ![o] = new]
        BY <3>8 DEF ImportReadsMetadata
      <4> HIDE DEF new
      <4> QED
        BY <3>8, <4>3, <4>4, <2>S, <2>D, <2>U, OpBecomes DEF ImportReadsMetadata
    <3>9. CASE ImportDownloads(o)
      <4> DEFINE content == drive[op.file].versions[Version(op.file)]
                 new == [Request("confirm", op.file, op.request, op.version) EXCEPT !.content = content]
      <4>1. op.file \in DriveFiles /\ op.request \in DriveRequests /\ op.version \in 1..Version(op.file)
        BY <3>0, <3>9 DEF InFlight, ImportDownloads
      <4>2. Version(op.file) \in 1..MaxVersion /\ content \in FileContents
            /\ VersionIs(op.file, Version(op.file), content)
        BY <2>0, <4>1, DriveAssumption DEF Version, VersionIs, StoredFiles
      <4>3. ops' = [ops EXCEPT ![o] = new]
        BY <3>9 DEF ImportDownloads
      <4> HIDE DEF content
      <4>4. new \in DriveRequestOps /\ InFlight(new)
        <5>1. new = [step |-> "confirm", file |-> op.file, request |-> op.request,
                     version |-> op.version, content |-> content]
          BY DEF Request
        <5>2. op.version \in 0..MaxVersion /\ Version(op.file) >= op.version
          BY <3>0, <4>1, <4>2, DriveAssumption DEF DriveRequestOps
        <5> QED BY <5>1, <5>2, <4>1, <4>2, RequestAt DEF OpSteps
      <4> HIDE DEF new
      <4> QED
        BY <3>9, <4>3, <4>4, <2>S, <2>D, <2>U, OpBecomes DEF ImportDownloads
    <3>10. CASE ImportConfirms(o)
      <4>1. op.step = "confirm" /\ Version(op.file) = op.version
        BY <3>10 DEF ImportConfirms, SameSource
      <4>2. PICK v \in 1..MaxVersion : v >= op.version /\ VersionIs(op.file, v, op.content)
        BY <3>0, <4>1 DEF InFlight
      <4>3. VersionIs(op.file, op.version, op.content)
        <5>1. v \in 1..op.version
          BY <4>1, <4>2 DEF VersionIs
        <5>2. v = op.version
          BY <5>1, <4>2, <3>0, DriveAssumption DEF DriveRequestOps
        <5> QED BY <4>2, <5>2
      <4>4. InFlight([op EXCEPT !.step = "store"])
        BY <3>0, <4>1, <4>3 DEF DriveRequestOps, InFlight
      <4> QED
        BY <3>10, <4>4, <2>S, <2>D, <2>U, GotoKeeps DEF ImportConfirms, OpSteps
    <3>11. CASE ImportStores(o)
      <4> DEFINE asset == [file |-> op.file, version |-> op.version, content |-> op.content]
      <4>1. op.file \in DriveFiles /\ op.request \in DriveRequests
            /\ op.version \in 0..MaxVersion /\ op.content \in FileContents
            /\ VersionIs(op.file, op.version, op.content)
        BY <3>0, <3>11 DEF InFlight, ImportStores, DriveRequestOps
      <4>2. asset \in Imports
        BY <4>1, DriveAssumption DEF Imports, VersionIs
      <4>3. imported' = IF imported[op.request] # NotImported THEN imported
                        ELSE [imported EXCEPT ![op.request] = asset]
        BY <3>11 DEF ImportStores
      <4>4. VersionIs(asset.file, asset.version, asset.content)
        BY <4>1
      <4> HIDE DEF asset
      <4>5. /\ imported' \in [DriveRequests -> {NotImported} \cup Imports]
            /\ \A r \in DriveRequests : imported'[r] = imported[r] \/ imported'[r] = asset
        BY <2>0, <4>1, <4>2, <4>3
      <4>6. Rest' /\ Sessions'
        BY <2>0, <3>11, <4>5 DEF ImportStores
      <4>7. UNCHANGED drive
        BY <3>11 DEF ImportStores
      <4>8. ImportedOf'
        BY <2>0, <4>4, <4>5, <4>7 DEF ImportedOf, VersionIs, Version
      <4>9. ops' \in [DriveOps -> DriveRequestOps] /\ OpsInFlight'
        <5>1. ops' = [ops EXCEPT ![o] = NoOp]
          BY <3>11 DEF ImportStores, Done
        <5>2. ops' \in [DriveOps -> DriveRequestOps] /\ \A p \in DriveOps : InFlight(ops'[p])
          BY <2>0, <5>1, NoOpInFlight DEF OpsInFlight
        <5> QED
          BY <5>2, <4>7 DEF OpsInFlight, InFlight, VersionIs, Version
      <4> QED
        BY <4>6, <4>7, <4>8, <4>9, <2>S, <2>D
    <3>12. ASSUME NEW r \in DriveRequests, recheckAsset(o, r) PROVE DriveInv'
      <4> DEFINE new == Request("recheck", imported[r].file, r, imported[r].version)
      <4>1. imported[r] \in Imports
        BY <2>0, <3>12 DEF recheckAsset
      <4>2. new \in DriveRequestOps /\ InFlight(new)
        <5>1. imported[r].file \in DriveFiles /\ imported[r].version \in 0..MaxVersion
          BY <4>1, DriveAssumption DEF Imports
        <5> QED BY <5>1, RequestAt DEF OpSteps, Request
      <4> HIDE DEF new
      <4> QED
        BY <3>12, <4>2, <2>S, <2>D, <2>U, OpBecomes DEF recheckAsset, new
    <3>13. CASE RecheckHasToken(o)
      <4>1. InFlight([op EXCEPT !.step = "compare"])
        BY <3>0, <3>13 DEF DriveRequestOps, InFlight, RecheckHasToken
      <4> QED
        BY <3>13, <4>1, <2>S, <2>D, <2>U, GotoKeeps DEF RecheckHasToken, OpSteps
    <3>14. CASE RecheckPasses(o) \/ OpFails(o)
      BY <3>14, <2>S, <2>D, <2>U, DoneKeeps DEF RecheckPasses, OpFails
    <3> QED
      BY <2>5, <3>1, <3>2, <3>3, <3>4, <3>5, <3>6, <3>7, <3>8, <3>9, <3>10, <3>11, <3>12, <3>13, <3>14 DEF DriveOp
  <2>6. CASE UNCHANGED driveVars
    BY <2>6, <2>S, <2>U, <2>D, <2>O DEF driveVars
  <2> QED
    BY <2>1, <2>2, <2>3, <2>4, <2>5, <2>6 DEF DriveNext
<1> QED
  BY <1>1, <1>2, PTL DEF DriveSpec

(* The rows, the files and the requests have their types.                   *)
THEOREM DriveTypeCorrect == DriveSpec => []DriveTypeOK
<1>1. DriveInv => DriveTypeOK
  BY DEF DriveInv
<1> QED
  BY <1>1, DriveInvariant, PTL

(* Whatever a file becomes while it is imported, the asset has the bytes of *)
(* the version it records, for any number of files and requests.            *)
THEOREM ImportedAsRecorded == DriveSpec => []AssetIsItsVersion
<1>1. DriveInv => AssetIsItsVersion
  BY DEF DriveInv, ImportedOf, VersionIs, AssetIsItsVersion
<1> QED
  BY <1>1, DriveInvariant, PTL

(* A flow waits for its callback, is in its callback, has connected or is   *)
(* gone: the states, the callbacks and the connections together are no more *)
(* than the flows started.                                                  *)
InCallback == {o \in DriveOps : ops[o].step = "callback"}
FlowsCounted == connected + Cardinality(InCallback) + Total(states, Browsers) <= started
FlowsInv == DriveTypeOK /\ FlowsCounted

(* The flows are counted in numbers,                                       *)
LEMMA FlowTypes ==
    ASSUME DriveTypeOK
    PROVE  /\ IsFiniteSet(InCallback) /\ Cardinality(InCallback) \in Nat
           /\ Total(states, Browsers) \in Nat /\ connected \in Nat /\ started \in Nat
           /\ \A b \in Browsers : states[b] \in Nat
  <1>1. IsFiniteSet(InCallback)
    BY DriveAssumption, FS_Subset DEF InCallback
  <1>2. \A b \in Browsers : states[b] \in Nat
    BY DriveAssumption DEF DriveTypeOK
  <1>3. Total(states, Browsers) \in Nat
    BY <1>2, DriveAssumption, TotalType
  <1> QED
    BY <1>1, <1>2, <1>3, FS_CardinalityType, DriveAssumption DEF DriveTypeOK

(* A step that opens no callback, no flow and no connection keeps the count. *)
LEMMA NothingOpens ==
    ASSUME FlowsInv, DriveTypeOK', InCallback' \subseteq InCallback,
           UNCHANGED <<states, started, connected>>
    PROVE  FlowsCounted'
  <1>1. Cardinality(InCallback') <= Cardinality(InCallback) /\ Cardinality(InCallback') \in Nat
    BY FlowTypes, FS_Subset, FS_CardinalityType DEF FlowsInv
  <1>2. connected' + Cardinality(InCallback') + Total(states', Browsers) <= started'
    BY <1>1, FlowTypes DEF FlowsInv, FlowsCounted
  <1> QED
    BY <1>2 DEF FlowsCounted

(* What a request that goes to another step makes of the callbacks.         *)
LEMMA CallbackOf ==
    ASSUME DriveTypeOK, NEW o \in DriveOps, NEW op, ops' = [ops EXCEPT ![o] = op]
    PROVE  InCallback' = IF op.step = "callback" THEN InCallback \cup {o} ELSE InCallback \ {o}
  BY DEF InCallback, DriveTypeOK

(* and the sum of the states of all browsers changes with one of them.     *)
LEMMA StatesChange ==
    ASSUME DriveTypeOK, DriveTypeOK', NEW b \in Browsers, NEW n, states' = [states EXCEPT ![b] = n]
    PROVE  Total(states', Browsers) + states[b] = Total(states, Browsers) + n
           /\ Total(states', Browsers) \in Nat /\ n \in Nat
  <1>1. \A c \in Browsers : states'[c] \in Nat /\ states[c] \in Nat
    <2>1. states \in [Browsers -> Nat] /\ states' \in [Browsers -> Nat]
      BY DriveAssumption DEF DriveTypeOK
    <2> QED
      BY <2>1
  <1>2. states'[b] = n /\ \A c \in Browsers \ {b} : states'[c] = states[c]
    BY DEF DriveTypeOK
  <1>3. Total(states', Browsers) + states[b] = Total(states, Browsers) + states'[b]
    <2>1. IsFiniteSet(Browsers)
      BY DriveAssumption
    <2>2. \A c \in Browsers : states'[c] \in Nat /\ states[c] \in Nat
      BY <1>1
    <2>3. \A c \in Browsers \ {b} : states'[c] = states[c]
      BY <1>2
    <2> QED
      BY ONLY <2>1, <2>2, <2>3, TotalChanges
  <1> QED
    BY <1>1, <1>2, <1>3, DriveAssumption, TotalType

(* No step makes a connection that no flow was started for.                *)
LEMMA FlowsStep ==
    ASSUME FlowsInv, DriveTypeOK', [DriveNext]_driveVars
    PROVE  FlowsCounted'
<1>0. DriveTypeOK /\ connected + Cardinality(InCallback) + Total(states, Browsers) <= started
  BY DEF FlowsInv, FlowsCounted
<1>1. CASE UNCHANGED <<states, started, connected, ops>>
  BY <1>1, NothingOpens DEF InCallback
<1>2. ASSUME NEW b \in Browsers, startConnect(b) PROVE FlowsCounted'
  <2>1. Total(states', Browsers) + states[b] = Total(states, Browsers) + (states[b] + 1)
        /\ Total(states', Browsers) \in Nat
    BY <1>0, <1>2, StatesChange DEF startConnect
  <2>2. InCallback' = InCallback /\ started' = started + 1 /\ connected' = connected
    BY <1>2 DEF startConnect, InCallback
  <2> QED
    BY <1>0, <2>1, <2>2, FlowTypes DEF FlowsCounted
<1>3. ASSUME NEW b \in Browsers, StateExpires(b) PROVE FlowsCounted'
  <2>1. Total(states', Browsers) + states[b] = Total(states, Browsers) + (states[b] - 1)
        /\ Total(states', Browsers) \in Nat
    BY <1>0, <1>3, StatesChange DEF StateExpires
  <2>2. InCallback' = InCallback /\ started' = started /\ connected' = connected
    BY <1>3 DEF StateExpires, InCallback
  <2> QED
    BY <1>0, <2>1, <2>2, FlowTypes DEF FlowsCounted
<1>4. ASSUME NEW o \in DriveOps, DriveOp(o) PROVE FlowsCounted'
  <2>1. ASSUME NEW b \in Browsers, finishCallback(o, b) PROVE FlowsCounted'
    <3>1. Total(states', Browsers) + states[b] = Total(states, Browsers) + (states[b] - 1)
          /\ Total(states', Browsers) \in Nat
      BY <1>0, <2>1, StatesChange DEF finishCallback
    <3>2. InCallback' = InCallback \cup {o} /\ o \notin InCallback
      <4>1. ops' = [ops EXCEPT ![o] = [ops[o] EXCEPT !.step = "callback"]]
        BY <2>1 DEF finishCallback, Goto
      <4>2. [ops[o] EXCEPT !.step = "callback"].step = "callback"
        BY <1>0 DEF DriveTypeOK, DriveRequestOps
      <4> QED
        BY <1>0, <2>1, <4>1, <4>2, CallbackOf DEF finishCallback, InCallback
    <3>3. Cardinality(InCallback') = Cardinality(InCallback) + 1
      BY <1>0, <3>2, FlowTypes, FS_AddElement
    <3>4. started' = started /\ connected' = connected
      BY <2>1 DEF finishCallback
    <3> QED
      BY <1>0, <3>1, <3>3, <3>4, FlowTypes DEF FlowsCounted
  <2>2. CASE CallbackStores(o)
    <3>1. InCallback' = InCallback \ {o} /\ o \in InCallback
      <4>1. ops' = [ops EXCEPT ![o] = NoOp] /\ NoOp.step # "callback"
        BY <2>2 DEF CallbackStores, Done, NoOp, Request
      <4> QED
        BY <1>0, <2>2, <4>1, CallbackOf DEF CallbackStores, InCallback
    <3>2. Cardinality(InCallback') = Cardinality(InCallback) - 1
      BY <1>0, <3>1, FlowTypes, FS_RemoveElement
    <3>3. started' = started /\ connected' = connected + 1 /\ states' = states
      BY <2>2 DEF CallbackStores
    <3> QED
      BY <1>0, <3>2, <3>3, FlowTypes DEF FlowsCounted
  <2>3. CASE UNCHANGED <<states, started, connected>>
             /\ \E op : op.step # "callback" /\ ops' = [ops EXCEPT ![o] = op]
    <3>1. PICK op : op.step # "callback" /\ ops' = [ops EXCEPT ![o] = op]
      BY <2>3
    <3>2. InCallback' \subseteq InCallback
      BY <1>0, <3>1, CallbackOf
    <3> QED
      BY <2>3, <3>2, NothingOpens
  <2>4. ASSUME NEW step \in OpSteps, step # "callback", Goto(o, step)
        PROVE  \E op : op.step # "callback" /\ ops' = [ops EXCEPT ![o] = op]
    <3> DEFINE op == [ops[o] EXCEPT !.step = step]
    <3>1. op.step # "callback" /\ ops' = [ops EXCEPT ![o] = op]
      BY <1>0, <2>4 DEF Goto, DriveTypeOK, DriveRequestOps
    <3> QED
      BY <3>1
  <2>5. ASSUME Done(o)
        PROVE  \E op : op.step # "callback" /\ ops' = [ops EXCEPT ![o] = op]
    BY <2>5 DEF Done, NoOp, Request
  <2>6. ASSUME NEW step, NEW f, NEW r, NEW version, step # "callback",
               ops' = [ops EXCEPT ![o] = Request(step, f, r, version)]
        PROVE  \E op : op.step # "callback" /\ ops' = [ops EXCEPT ![o] = op]
    BY <2>6 DEF Request
  <2>7. CASE SelectionMetadata(o) \/ ImportHasToken(o) \/ ImportConfirms(o) \/ RecheckHasToken(o)
    BY <2>7, <2>3, <2>4 DEF SelectionMetadata, ImportHasToken, ImportConfirms, RecheckHasToken, OpSteps
  <2>8. CASE SelectionStores(o) \/ ImportStores(o) \/ RecheckPasses(o) \/ OpFails(o)
    BY <2>8, <2>3, <2>5 DEF SelectionStores, ImportStores, RecheckPasses, OpFails
  <2>9. CASE \/ \E f \in DriveFiles : recordSelection(o, f)
             \/ \E f \in DriveFiles, r \in DriveRequests : importFile(o, f, r)
             \/ ImportReadsMetadata(o)
             \/ \E r \in DriveRequests : recheckAsset(o, r)
    BY <2>9, <2>3, <2>6 DEF recordSelection, importFile, ImportReadsMetadata, recheckAsset
  <2>10. CASE ImportDownloads(o)
    <3> DEFINE op == [Request("confirm", ops[o].file, ops[o].request, ops[o].version)
                        EXCEPT !.content = drive[ops[o].file].versions[Version(ops[o].file)]]
    <3>1. op.step # "callback" /\ ops' = [ops EXCEPT ![o] = op]
      BY <2>10 DEF ImportDownloads, Request
    <3> QED
      BY <2>10, <3>1, <2>3 DEF ImportDownloads
  <2> QED
    BY <1>4, <2>1, <2>2, <2>7, <2>8, <2>9, <2>10 DEF DriveOp
<1>5. ASSUME NEW f \in DriveFiles, DriveEdits(f) \/ DriveAccessChanges(f) PROVE FlowsCounted'
  BY <1>1, <1>5 DEF DriveEdits, DriveAccessChanges
<1>6. CASE disconnect
  BY <1>1, <1>6 DEF disconnect
<1>7. CASE UNCHANGED driveVars
  BY <1>1, <1>7 DEF driveVars
<1> QED
  BY <1>2, <1>3, <1>4, <1>5, <1>6, <1>7 DEF DriveNext

(* There are never more connections than flows were started, whichever of   *)
(* a session's windows answers first and however often.                     *)
THEOREM FlowsConnectOnce == DriveSpec => []OneConnectionPerFlow
<1>1. DriveInit => FlowsCounted
  <2> SUFFICES ASSUME DriveInit PROVE FlowsCounted
    OBVIOUS
  <2>1. InCallback = {}
    BY DEF DriveInit, InCallback, NoOp, Request
  <2>2. Cardinality(InCallback) = 0
    BY <2>1, FS_EmptySet
  <2>3. Total(states, Browsers) = 0
    BY DriveAssumption, TotalOfNothing DEF DriveInit
  <2> QED
    BY <2>2, <2>3 DEF FlowsCounted, DriveInit
<1>2. FlowsCounted /\ DriveTypeOK /\ DriveTypeOK' /\ [DriveNext]_driveVars => FlowsCounted'
  BY FlowsStep DEF FlowsInv
<1>3. DriveTypeOK /\ FlowsCounted => OneConnectionPerFlow
  BY FlowTypes DEF FlowsCounted, OneConnectionPerFlow
<1> QED
  BY <1>1, <1>2, <1>3, DriveTypeCorrect, PTL DEF DriveSpec

-----------------------------------------------------------------------------
(* The settings.  No copy of them is about, in use or in a request, whose   *)
(* provider was not accepted for the release that runs; between releases    *)
(* there is no copy but the defaults.                                       *)
OnlyAccepted ==
  /\ ~Unapproved(config.public)
  /\ \A r \in SettingRequests : ~Unapproved(setting[r].next.public)

DownIsEmpty == phase = "down" => config = Defaults /\ \A r \in SettingRequests : setting[r] = NoSetting

ConfigInv == ConfigTypeOK /\ OnlyAccepted /\ DownIsEmpty

(* What the server falls back to needs no acceptance.                      *)
LEMMA DefaultsAreAccepted ==
  /\ RulesOnly \in Public /\ Defaults \in Configs /\ NoSetting \in SettingStates
  /\ ~Unapproved(RulesOnly) /\ ~Unapproved(Defaults.public) /\ ~Unapproved(NoSetting.next.public)
  <1>1. RulesOnly \in Public /\ ~Unapproved(RulesOnly)
    BY DEF RulesOnly, Public, Unapproved
  <1>2. NoSecret \in Secrets
    BY ConfigAssumption DEF NoSecret, Secrets
  <1>3. Defaults \in Configs /\ Defaults.public = RulesOnly
    BY <1>1, <1>2 DEF Defaults, Configs
  <1>4. NoSetting \in SettingStates /\ NoSetting.next = Defaults
    BY <1>3 DEF NoSetting, SettingStates
  <1> QED BY <1>1, <1>3, <1>4

(* One request takes a step, with an accepted copy of the settings.         *)
LEMMA SettingBecomes ==
    ASSUME ConfigInv, phase = "serving", NEW r \in SettingRequests, NEW s \in SettingStates,
           ~Unapproved(s.next.public), setting' = [setting EXCEPT ![r] = s], UNCHANGED policy
    PROVE  /\ setting' \in [SettingRequests -> SettingStates]
           /\ \A q \in SettingRequests : ~Unapproved(setting[q].next.public)'
  <1>1. setting \in [SettingRequests -> SettingStates] /\ \A q \in SettingRequests : ~Unapproved(setting[q].next.public)
    BY DEF ConfigInv, ConfigTypeOK, OnlyAccepted
  <1>2. \A q \in SettingRequests : ~Unapproved(setting'[q].next.public)
    BY <1>1
  <1> QED BY <1>1, <1>2 DEF Unapproved

(* The invariant of the settings is inductive,                             *)
LEMMA ConfigStep == ConfigInv /\ [ConfigNext]_configVars => ConfigInv'
  <1> SUFFICES ASSUME ConfigInv, [ConfigNext]_configVars PROVE ConfigInv'
    OBVIOUS
  <1> DEFINE SettingsOK == /\ setting \in [SettingRequests -> SettingStates]
                           /\ \A q \in SettingRequests : ~Unapproved(setting[q].next.public)
             InUseOK == config \in Configs /\ ~Unapproved(config.public)
             FilesOK == configFile \in Public /\ secretFile \in Secrets \cup {Damaged}
             TokensOK == tokens \in 0..MaxTokens
  <1>0. SettingsOK /\ InUseOK /\ FilesOK /\ TokensOK /\ policy \in Policies
    BY DEF ConfigInv, ConfigTypeOK, OnlyAccepted
  <1>S. SettingsOK' /\ InUseOK' /\ FilesOK' /\ TokensOK' /\ policy' \in Policies
          /\ phase' \in {"down", "migrating", "serving"} /\ DownIsEmpty' => ConfigInv'
    BY DEF ConfigInv, ConfigTypeOK, OnlyAccepted
  <1>U. UNCHANGED <<config, policy>> => InUseOK'
    BY <1>0 DEF Unapproved
  <1>P. UNCHANGED phase /\ phase # "down" => phase' \in {"down", "migrating", "serving"} /\ DownIsEmpty'
    BY DEF ConfigInv, ConfigTypeOK, DownIsEmpty
  <1>1. ASSUME NEW r \in SettingRequests, NEW public \in Public, NEW token \in Secrets, NEW persist \in BOOLEAN,
               SettingsPosted(r, public, token, persist)
        PROVE  ConfigInv'
    <2> DEFINE s == [step |-> IF persist THEN "public" ELSE "apply",
                     next |-> [public |-> public, token |-> token], live |-> FALSE]
    <2>1. ~Unapproved(public)
      <3>1. \A p : ~Unapproved(validatedPublicConfig(p))
        BY DEF Unapproved, validatedPublicConfig
      <3> QED BY <1>0, <1>1, <3>1 DEF SettingsPosted
    <2>2. s \in SettingStates /\ s.next.public = public
      BY DEF SettingStates, Configs
    <2>3. setting' = [setting EXCEPT ![r] = s]
      BY <1>1 DEF SettingsPosted, SetStep
    <2>4. TokensOK'
      BY <1>0, <1>1, ConfigAssumption DEF SettingsPosted, Secrets
    <2> HIDE DEF s
    <2>5. SettingsOK'
      BY <1>1, <2>1, <2>2, <2>3, SettingBecomes DEF SettingsPosted
    <2> QED
      BY <1>0, <1>1, <2>4, <2>5, <1>S, <1>U, <1>P DEF SettingsPosted
  <1>2. ASSUME NEW r \in SettingRequests, SettingsDeleted(r) \/ TokenRefresh(r) PROVE ConfigInv'
    <2>1. PICK step \in {"public", "refresh"}, live \in BOOLEAN :
            setting' = [setting EXCEPT ![r] = [step |-> step, next |-> Defaults, live |-> live]]
      BY <1>2 DEF SettingsDeleted, TokenRefresh, SetStep
    <2> DEFINE s == [step |-> step, next |-> Defaults, live |-> live]
    <2>2. s \in SettingStates /\ s.next = Defaults
      BY DefaultsAreAccepted DEF SettingStates
    <2> HIDE DEF s
    <2>3. SettingsOK'
      BY <1>2, <2>1, <2>2, SettingBecomes, DefaultsAreAccepted DEF SettingsDeleted, TokenRefresh, s
    <2> QED
      BY <1>0, <1>2, <2>3, <1>S, <1>U, <1>P DEF SettingsDeleted, TokenRefresh
  <1>3. ASSUME NEW r \in SettingRequests, TokenArrives(r) PROVE ConfigInv'
    <2> DEFINE s == [step |-> "public", next |-> config', live |-> TRUE]
    <2>1. tokens' = tokens + 1 /\ TokensOK' /\ tokens + 1 \in Secrets
      BY <1>0, <1>3, ConfigAssumption DEF TokenArrives, Secrets
    <2>2. config' \in Configs /\ config'.public = config.public
      BY <1>0, <1>3, <2>1 DEF TokenArrives, Configs
    <2>3. s \in SettingStates /\ s.next = config'
      BY <2>2 DEF SettingStates
    <2>4. setting' = [setting EXCEPT ![r] = s]
      BY <1>3 DEF TokenArrives, SetStep
    <2> HIDE DEF s
    <2>5. SettingsOK'
      BY <1>0, <1>3, <2>2, <2>3, <2>4, SettingBecomes DEF TokenArrives
    <2>6. InUseOK'
      BY <1>0, <1>3, <2>2 DEF TokenArrives, Unapproved
    <2> QED
      BY <1>0, <1>3, <2>1, <2>5, <2>6, <1>S, <1>P DEF TokenArrives
  <1>4. ASSUME NEW r \in SettingRequests, PublicWritten(r) PROVE ConfigInv'
    <2>1. setting[r] \in SettingStates /\ setting[r].next \in Configs /\ setting[r].next.public \in Public
          /\ config.token \in Secrets
      BY <1>0 DEF SettingStates, Configs
    <2> DEFINE token == IF setting[r].live THEN config.token ELSE setting[r].next.token
               next == [setting[r].next EXCEPT !.token = token]
               asked == [setting[r] EXCEPT !.step = "secret"]
               s == [asked EXCEPT !.next = next]
    <2>2. next \in Configs /\ next.public = setting[r].next.public
      BY <2>1 DEF Configs
    <2>3. setting' = [setting EXCEPT ![r] = s]
      BY <1>4 DEF PublicWritten
    <2>4. asked \in SettingStates
      BY <2>1 DEF SettingStates
    <2> HIDE DEF next, asked
    <2>5. s \in SettingStates /\ s.next = next
      BY <2>2, <2>4 DEF SettingStates
    <2> HIDE DEF s
    <2>6. SettingsOK'
      BY <1>0, <1>4, <2>2, <2>3, <2>5, SettingBecomes DEF PublicWritten
    <2>7. FilesOK'
      BY <1>0, <1>4, <2>1 DEF PublicWritten
    <2> QED
      BY <1>0, <1>4, <2>6, <2>7, <1>S, <1>U, <1>P DEF PublicWritten
  <1>5. ASSUME NEW r \in SettingRequests, SecretsWritten(r) \/ SettingsApplied(r) \/ SettingFails(r) PROVE ConfigInv'
    <2>1. setting[r] \in SettingStates /\ setting[r].next \in Configs /\ setting[r].next.token \in Secrets
          /\ ~Unapproved(setting[r].next.public)
      BY <1>0 DEF SettingStates, Configs
    <2>2. [setting[r] EXCEPT !.step = "apply"] \in SettingStates
          /\ [setting[r] EXCEPT !.step = "apply"].next = setting[r].next
      BY <2>1 DEF SettingStates
    <2>3. PICK s \in {NoSetting, [setting[r] EXCEPT !.step = "apply"]} : setting' = [setting EXCEPT ![r] = s]
      BY <1>5 DEF SecretsWritten, SettingsApplied, SettingFails
    <2>4. s \in SettingStates /\ ~Unapproved(s.next.public)
      BY <2>1, <2>2, DefaultsAreAccepted
    <2>5. SettingsOK'
      BY <1>5, <2>3, <2>4, SettingBecomes DEF SecretsWritten, SettingsApplied, SettingFails
    <2>6. FilesOK'
      BY <1>0, <1>5, <2>1, ConfigAssumption DEF SecretsWritten, SettingsApplied, SettingFails, Kept, NoSecret, Secrets
    <2>7. InUseOK'
      BY <1>0, <1>5, <2>1 DEF SecretsWritten, SettingsApplied, SettingFails, Unapproved
    <2> QED
      BY <1>0, <1>5, <2>5, <2>6, <2>7, <1>S, <1>P DEF SecretsWritten, SettingsApplied, SettingFails
  <1>6. CASE ServerStops
    <2>1. SettingsOK' /\ InUseOK'
      <3>1. \A q \in SettingRequests : setting'[q] = NoSetting
        BY <1>6 DEF ServerStops
      <3>2. ~Unapproved(Defaults.public)' /\ ~Unapproved(NoSetting.next.public)'
        BY DefaultsAreAccepted DEF Unapproved, NoSetting, Defaults, RulesOnly
      <3>3. \A q \in SettingRequests : ~Unapproved(setting[q].next.public)'
        BY <3>1, <3>2 DEF Unapproved
      <3> QED
        BY <1>6, <3>1, <3>2, <3>3, DefaultsAreAccepted DEF ServerStops, Unapproved
    <2>2. DownIsEmpty'
      BY <1>6 DEF ServerStops, DownIsEmpty
    <2> QED
      BY <1>0, <1>6, <2>1, <2>2, <1>S DEF ServerStops
  <1>7. ASSUME NEW p \in Policies, ReleaseInstalled(p) PROVE ConfigInv'
    <2>1. config = Defaults /\ \A r \in SettingRequests : setting[r] = NoSetting
      BY <1>7 DEF ConfigInv, DownIsEmpty, ReleaseInstalled
    <2>2. ~Unapproved(Defaults.public)' /\ ~Unapproved(NoSetting.next.public)'
      BY DEF Unapproved, NoSetting, Defaults, RulesOnly
    <2>3. SettingsOK' /\ InUseOK'
      BY <1>0, <1>7, <2>1, <2>2 DEF ReleaseInstalled, Unapproved
    <2> QED
      BY <1>0, <1>7, <2>1, <2>3, <1>S DEF ReleaseInstalled, DownIsEmpty
  <1>8. CASE SecretsDamaged
    <2>1. SettingsOK' /\ InUseOK' /\ DownIsEmpty'
      BY <1>0, <1>8 DEF SecretsDamaged, Unapproved, ConfigInv, DownIsEmpty
    <2> QED
      BY <1>0, <1>8, <2>1, <1>S DEF SecretsDamaged
  <1>9. CASE ServerStarts
    <2>1. config' = [public |-> configFile, token |-> secretFile] /\ secretFile \in Secrets
      BY <1>0, <1>9 DEF ServerStarts
    <2>2. SettingsOK' /\ InUseOK'
      BY <1>0, <1>9, <2>1 DEF ServerStarts, Unapproved, Configs
    <2> QED
      BY <1>0, <1>9, <2>2, <1>S DEF ServerStarts, DownIsEmpty
  <1>10. CASE StartMigrates
    <2>1. SettingsOK' /\ InUseOK'
      BY <1>0, <1>10, DefaultsAreAccepted DEF StartMigrates, Unapproved, Defaults
    <2> QED
      BY <1>0, <1>10, <2>1, <1>S, DefaultsAreAccepted DEF StartMigrates, DownIsEmpty
  <1>11. CASE MigrationSaved
    <2>1. secretFile' \in Secrets
      BY <1>0, <1>11, ConfigAssumption DEF MigrationSaved, Kept, NoSecret, Secrets, Configs
    <2>2. InUseOK'
      BY <1>0, <1>11, <2>1 DEF MigrationSaved, Unapproved, Configs
    <2>3. SettingsOK'
      BY <1>0, <1>11 DEF MigrationSaved, Unapproved
    <2> QED
      BY <1>0, <1>11, <2>1, <2>2, <2>3, <1>S DEF MigrationSaved, DownIsEmpty
  <1>12. CASE UNCHANGED configVars
    <2>1. SettingsOK' /\ InUseOK' /\ DownIsEmpty'
      BY <1>0, <1>12 DEF configVars, Unapproved, ConfigInv, DownIsEmpty
    <2> QED
      BY <1>0, <1>12, <2>1, <1>S DEF configVars, ConfigInv, ConfigTypeOK
  <1> QED
    BY <1>1, <1>2, <1>3, <1>4, <1>5, <1>6, <1>7, <1>8, <1>9, <1>10, <1>11, <1>12 DEF ConfigNext

(* and holds at first.                                                     *)
LEMMA ConfigStarts == ConfigInit => ConfigInv
  <1> SUFFICES ASSUME ConfigInit PROVE ConfigInv
    OBVIOUS
  <1>1. ConfigTypeOK
    BY DefaultsAreAccepted, ConfigAssumption DEF ConfigInit, ConfigTypeOK, Secrets, NoSecret
  <1>2. OnlyAccepted /\ DownIsEmpty
    BY DefaultsAreAccepted DEF ConfigInit, OnlyAccepted, DownIsEmpty
  <1> QED BY <1>1, <1>2 DEF ConfigInv

(* Every state of the settings satisfies ConfigInv.                         *)
THEOREM ConfigInvariant == ConfigSpec => []ConfigInv
  BY ConfigStarts, ConfigStep, PTL DEF ConfigSpec

(* The settings, their files and the requests that change them have their   *)
(* types.                                                                   *)
THEOREM ConfigTypeCorrect == ConfigSpec => []ConfigTypeOK
<1>1. ConfigInv => ConfigTypeOK
  BY DEF ConfigInv
<1> QED
  BY <1>1, ConfigInvariant, PTL

-----------------------------------------------------------------------------
(* Analyses beside the settings.                                            *)
AskedProviders == \A a \in Analyses : analysis[a].step # "idle" => Provider(a) \in Providers

KeyedAsAsked == \A c \in cached : c.key = buildAnalysisCacheKey(c.of)

AnalysisInv == ConfigInv /\ AnalysisTypeOK /\ AskedProviders /\ KeyedAsAsked

(* No analysis, and the closed circuit.                                    *)
LEMMA IdleAndClosed ==
  NoAnalysis \in AnalysisStates /\ NoAnalysis.step = "idle" /\ Closed \in Circuits
  BY AnalysisAssumption DEF NoAnalysis, AnalysisStates, Of, SomeModel, Closed, Circuits

(* Every state of the analyses, whatever the settings do, satisfies         *)
(* AnalysisInv.                                                             *)
THEOREM AnalysisInvariant == AnalysisSpec => []AnalysisInv
<1>1. AnalysisInit => AnalysisInv
  <2> SUFFICES ASSUME AnalysisInit PROVE AnalysisInv
    OBVIOUS
  <2>1. ConfigInv /\ ConfigTypeOK
    BY ConfigStarts DEF AnalysisInit, ConfigInv
  <2> QED
    BY <2>1, IdleAndClosed, AnalysisAssumption
    DEF AnalysisInit, AnalysisInv, AnalysisTypeOK, AskedProviders, KeyedAsAsked, SomeModel
<1>2. AnalysisInv /\ [AnalysisNext]_analysisVars => AnalysisInv'
  <2> SUFFICES ASSUME AnalysisInv, [AnalysisNext]_analysisVars PROVE AnalysisInv'
    OBVIOUS
  <2> DEFINE AnalysesOK == analysis \in [Analyses -> AnalysisStates] /\ AskedProviders
             CacheOK == cached \subseteq [key : CacheKeys, of : Of] /\ KeyedAsAsked
             CircuitsOK == circuit \in [Providers -> Circuits]
             EventsOK == lastEvent \in [Providers -> {"never", "passed", "failed"}]
             MailOK == revision \in 1..MaxRevision /\ model \in Models
  <2>0. AnalysesOK /\ CacheOK /\ CircuitsOK /\ EventsOK /\ MailOK /\ ConfigInv
    BY DEF AnalysisInv, AnalysisTypeOK
  <2>S. ConfigInv' /\ AnalysesOK' /\ CacheOK' /\ CircuitsOK' /\ EventsOK' /\ MailOK' => AnalysisInv'
    BY DEF AnalysisInv, AnalysisTypeOK, ConfigInv
  <2>C. UNCHANGED configVars => ConfigInv'
    BY <2>0, ConfigStep
  <2>K. UNCHANGED cached => CacheOK'
    BY <2>0 DEF KeyedAsAsked
  <2>A. ASSUME NEW a \in Analyses, NEW x \in AnalysisStates, x.step # "idle" => x.of.provider \in Providers,
               analysis' = [analysis EXCEPT ![a] = x]
        PROVE  AnalysesOK'
    BY <2>0, <2>A DEF AskedProviders, Provider
  <2>E. ASSUME NEW a \in Analyses, AnalysisEnds(a) PROVE AnalysesOK'
    BY <2>A, <2>E, IdleAndClosed DEF AnalysisEnds
  <2>R. ASSUME NEW a \in Analyses, NEW event \in {"passed", "failed"}, Records(a, event) PROVE EventsOK'
    BY <2>0, <2>R DEF Records
  <2>1. CASE SettingsChange
    <3>1. ConfigInv'
      BY <2>0, <2>1, ConfigStep DEF SettingsChange
    <3>2. AnalysesOK' /\ CircuitsOK'
      <4>1. CASE UNCHANGED <<analysis, circuit>>
        BY <2>0, <4>1 DEF AskedProviders, Provider
      <4>2. CASE ~UNCHANGED <<analysis, circuit>>
        <5>1. analysis' = [a \in Analyses |-> NoAnalysis] /\ circuit' = [p \in Providers |-> Closed]
          BY <2>1, <4>2 DEF SettingsChange
        <5> QED
          BY <5>1, IdleAndClosed DEF AskedProviders
      <4> QED BY <4>1, <4>2
    <3> QED
      BY <2>0, <2>1, <2>S, <2>K, <3>1, <3>2 DEF SettingsChange
  <2>2. CASE MailRevised \/ ModelChanges
    <3>1. MailOK' /\ AnalysesOK'
      BY <2>0, <2>2, AnalysisAssumption DEF MailRevised, ModelChanges, AskedProviders, Provider
    <3> QED
      BY <2>0, <2>2, <2>S, <2>C, <2>K, <3>1 DEF MailRevised, ModelChanges
  <2>3. ASSUME NEW a \in Analyses, enrichWithAI(a) PROVE AnalysisInv'
    <3> DEFINE x == [step |-> "status", of |-> Present]
    <3>1. config.public.provider \in Providers
      BY <2>0, <2>3 DEF enrichWithAI, Present, ConfigInv, ConfigTypeOK, Configs, Public
    <3>2. x \in AnalysisStates /\ x.of.provider \in Providers
      BY <2>0, <3>1 DEF AnalysisStates, Of, Present
    <3>3. analysis' = [analysis EXCEPT ![a] = x]
      BY <2>3 DEF enrichWithAI
    <3> HIDE DEF x
    <3> QED
      BY <2>0, <2>3, <2>S, <2>C, <2>K, <2>A, <3>2, <3>3 DEF enrichWithAI
  <2>4. ASSUME NEW a \in Analyses, CallStarts(a) PROVE AnalysisInv'
    <3> DEFINE x == [analysis[a] EXCEPT !.step = "call"]
    <3>1. analysis[a] \in AnalysisStates /\ Provider(a) \in Providers
      BY <2>0, <2>4 DEF CallStarts, At, AskedProviders
    <3>2. x \in AnalysisStates /\ x.of.provider \in Providers
      BY <3>1 DEF AnalysisStates, Provider
    <3>3. analysis' = [analysis EXCEPT ![a] = x]
      BY <2>4 DEF CallStarts
    <3>4. CircuitsOK'
      BY <2>0, <2>4, <3>1, AnalysisAssumption DEF CallStarts, Circuits
    <3> HIDE DEF x
    <3> QED
      BY <2>0, <2>4, <2>S, <2>C, <2>K, <2>A, <3>2, <3>3, <3>4 DEF CallStarts
  <2>5. ASSUME NEW a \in Analyses, CallRefused(a) PROVE AnalysisInv'
    BY <2>0, <2>5, <2>S, <2>C, <2>K, <2>E, <2>R DEF CallRefused
  <2>6. ASSUME NEW a \in Analyses, AnswerKept(a) \/ AnswerRejected(a) PROVE AnalysisInv'
    <3>1. AnalysesOK' /\ CircuitsOK'
      <4>1. AnalysisEnds(a) /\ circuit' = [circuit EXCEPT ![Provider(a)] = Closed]
        BY <2>6 DEF AnswerKept, AnswerRejected, CallAnswers
      <4> QED BY <2>0, <2>E, <4>1, IdleAndClosed
    <3>2. EventsOK'
      BY <2>6, <2>R DEF AnswerKept, AnswerRejected
    <3>3. CacheOK'
      <4>1. CASE AnswerRejected(a)
        BY <4>1, <2>K DEF AnswerRejected
      <4>2. CASE AnswerKept(a)
        <5> DEFINE of == analysis[a].of
        <5>1. of \in Of
          BY <2>0 DEF AnalysisStates
        <5> DEFINE key == buildAnalysisCacheKey(of)
        <5>2. key \in CacheKeys
          BY <5>1, AnalysisAssumption DEF buildAnalysisCacheKey, CacheKeys, Of, ReceivedAt
        <5>3. cached' = {c \in cached : c.key # key} \cup {[key |-> key, of |-> of]}
          BY <4>2 DEF AnswerKept
        <5>4. KeyedAsAsked'
          BY <2>0, <5>3 DEF KeyedAsAsked, buildAnalysisCacheKey
        <5> HIDE DEF of, key
        <5> QED
          BY <2>0, <5>1, <5>2, <5>3, <5>4
      <4> QED BY <2>6, <4>1, <4>2
    <3> QED
      BY <2>0, <2>6, <2>S, <2>C, <3>1, <3>2, <3>3 DEF AnswerKept, AnswerRejected
  <2>7. ASSUME NEW a \in Analyses, NEW counts \in BOOLEAN, CallFails(a, counts) PROVE AnalysisInv'
    <3>1. Provider(a) \in Providers
      BY <2>0, <2>7 DEF CallFails, At, AskedProviders
    <3> DEFINE n == circuit[Provider(a)].failures + 1
               x == [failures |-> IF n > FailureThreshold THEN FailureThreshold ELSE n,
                     open |-> n >= FailureThreshold]
    <3>2. n \in Nat
      BY <2>0, <3>1, AnalysisAssumption DEF Circuits
    <3>3. (IF n > FailureThreshold THEN FailureThreshold ELSE n) \in 0..FailureThreshold
      BY <3>2, AnalysisAssumption
    <3>4. (n >= FailureThreshold) \in BOOLEAN
      OBVIOUS
    <3>5. x \in Circuits
      BY <3>3, <3>4, Zenon DEF Circuits
    <3>6. circuit' = IF counts THEN [circuit EXCEPT ![Provider(a)] = x] ELSE circuit
      BY <2>7 DEF CallFails
    <3> HIDE DEF x
    <3>7. CircuitsOK'
      BY <2>0, <3>5, <3>6
    <3> QED
      BY <2>0, <2>7, <2>S, <2>C, <2>K, <2>E, <2>R, <3>7 DEF CallFails
  <2>8. ASSUME NEW p \in Providers, CircuitCools(p) PROVE AnalysisInv'
    <3>1. CircuitsOK' /\ AnalysesOK'
      BY <2>0, <2>8 DEF CircuitCools, Circuits, AskedProviders, Provider
    <3> QED
      BY <2>0, <2>8, <2>S, <2>C, <2>K, <3>1 DEF CircuitCools
  <2>9. CASE UNCHANGED analysisVars
    BY <2>0, <2>9, <2>S, <2>C, <2>K DEF analysisVars, aiVars, AskedProviders, Provider
  <2> QED
    BY <2>1, <2>2, <2>3, <2>4, <2>5, <2>6, <2>7, <2>8, <2>9 DEF AnalysisNext
<1> QED
  BY <1>1, <1>2, PTL DEF AnalysisSpec

(* The analyses, the cache and the circuits have their types.               *)
THEOREM AnalysisTypeCorrect == AnalysisSpec => []AnalysisTypeOK
<1>1. AnalysisInv => AnalysisTypeOK
  BY DEF AnalysisInv
<1> QED
  BY <1>1, AnalysisInvariant, PTL

(* However settings requests, token refreshes, crashes and releases         *)
(* interleave, an external provider serves only as accepted for the release *)
(* that runs.                                                               *)
THEOREM ProviderIsAccepted == AnalysisSpec => []AcceptedForThisRelease
<1>1. AnalysisInv => AcceptedForThisRelease
  BY DEF AnalysisInv, ConfigInv, OnlyAccepted, Unapproved, AcceptedForThisRelease
<1> QED
  BY <1>1, AnalysisInvariant, PTL

(* What the cache gives for the present mail under the present settings was *)
(* asked about it and of them, whatever changed while the tools ran; without *)
(* a change key the key tells no revisions apart.                           *)
THEOREM CachedIsOfThePresent == AnalysisSpec => []AnalysisIsOfItsMail
<1>1. ASSUME AnalysisInv, NEW c \in cached, c.key = buildAnalysisCacheKey(Present)
      PROVE  /\ c.of.provider = Present.provider /\ c.of.model = Present.model
             /\ IF revision \in WithChangeKey THEN c.of.revision = revision ELSE c.of.revision \notin WithChangeKey
  <2>1. buildAnalysisCacheKey(c.of) = buildAnalysisCacheKey(Present)
    BY <1>1 DEF AnalysisInv, KeyedAsAsked
  <2>2. c.of.revision \in 1..MaxRevision /\ revision \in 1..MaxRevision /\ MaxRevision \in Nat
    BY <1>1, AnalysisAssumption DEF AnalysisInv, AnalysisTypeOK, Of
  <2>3. c.of.provider = Present.provider /\ c.of.model = Present.model
    BY <2>1 DEF buildAnalysisCacheKey
  <2>4. (IF c.of.revision \in WithChangeKey THEN c.of.revision ELSE 0) = (IF revision \in WithChangeKey THEN revision ELSE 0)
    BY <2>1 DEF buildAnalysisCacheKey, Present, ReceivedAt
  <2>5. IF revision \in WithChangeKey THEN c.of.revision = revision ELSE c.of.revision \notin WithChangeKey
    BY <2>2, <2>4
  <2> QED
    BY <2>3, <2>5
<1>2. AnalysisInv => AnalysisIsOfItsMail
  BY <1>1 DEF AnalysisIsOfItsMail
<1> QED
  BY <1>2, AnalysisInvariant, PTL

-----------------------------------------------------------------------------
(* Restore.  While the command works the server is down, and what the       *)
(* command has done so far is what the files show.                          *)
OneAtATime ==
  /\ serverUp => restore.at = "none"
  /\ backupJob # Nothing => serverUp
  /\ restore.at \in Steps => restores # 0

FilesOfStep ==
  /\ restore.at \in {"cleared", "moved", "installed", "restored"} => walFile = Nothing
  /\ restore.at \in {"copied", "cleared"} => mainFile = restore.main
  /\ restore.at = "moved" => mainFile = Nothing
  /\ restore.at \in {"installed", "restored"} => mainFile = restore.source
  /\ restore.at # "none" /\ restore.main # Nothing => mainFile = restore.main \/ restore.main \in Aside

RestoreInv == RestoreTypeOK /\ OneAtATime /\ FilesOfStep

(* A step of the server: no restore has begun, so nothing is promised of    *)
(* the files.                                                               *)
LEMMA ServerSteps ==
    ASSUME RestoreTypeOK', OneAtATime', restore'.at = "none"
    PROVE  RestoreInv'
  BY DEF RestoreInv, FilesOfStep

(* The next commit and the next restore have their types.                  *)
LEMMA NextCommit ==
    ASSUME RestoreTypeOK
    PROVE  /\ commits < MaxCommits => commits + 1 \in Contents /\ commits + 1 # Nothing
           /\ Opened(mainFile, walFile) \in Contents /\ Nothing \in Contents
           /\ restores < MaxRestores => restores + 1 \in 0..MaxRestores /\ restores + 1 # 0
  BY RestoreAssumption DEF RestoreTypeOK, Contents, Nothing, Opened

(* A step of the restore command goes on from what it began with.           *)
LEMMA CommandSteps ==
    ASSUME RestoreTypeOK, NEW at \in Ended \cup Steps, restore' = [restore EXCEPT !.at = at]
    PROVE  /\ restore' \in RestoreRuns /\ restore'.at = at
           /\ restore'.source = restore.source /\ restore'.main = restore.main
  BY DEF RestoreTypeOK, RestoreRuns

(* Every state of the files and the restore command satisfies RestoreInv.   *)
THEOREM RestoreInvariant == RestoreSpec => []RestoreInv
<1>1. RestoreInit => RestoreInv
  <2> SUFFICES ASSUME RestoreInit PROVE RestoreInv
    OBVIOUS
  <2>1. Nothing \in Contents /\ 1 \in Contents
    BY RestoreAssumption DEF Contents, Nothing
  <2>2. restore \in RestoreRuns /\ restore.at = "none"
    BY <2>1 DEF RestoreInit, RestoreRuns, Ended
  <2>3. RestoreTypeOK
    <3>1. 0 \in 0..MaxRestores
      BY RestoreAssumption
    <3>2. {} \subseteq [of : 1..MaxRestores, holds : Contents] /\ {} \subseteq [file : Contents, counted : Contents]
      OBVIOUS
    <3> QED
      BY <2>1, <2>2, <3>1, <3>2 DEF RestoreInit, RestoreTypeOK
  <2> QED
    BY <2>2, <2>3 DEF RestoreInit, RestoreInv, OneAtATime, FilesOfStep, Steps
<1>2. RestoreInv /\ [RestoreNext]_restoreVars => RestoreInv'
  <2> SUFFICES ASSUME RestoreInv, [RestoreNext]_restoreVars PROVE RestoreInv'
    OBVIOUS
  <2> DEFINE FilesOK == mainFile \in Contents /\ walFile \in Contents
                        /\ rollbacks \subseteq [of : 1..MaxRestores, holds : Contents]
             BackupsOK == backups \subseteq Contents /\ backupJob \in Contents
                          /\ manifests \subseteq [file : Contents, counted : Contents]
             RunsOK == restore \in RestoreRuns /\ restores \in 0..MaxRestores
             ServerOK == serverUp \in BOOLEAN /\ commits \in Contents
  <2>0. RestoreTypeOK /\ OneAtATime /\ FilesOfStep /\ FilesOK /\ BackupsOK /\ RunsOK /\ ServerOK
    BY DEF RestoreInv, RestoreTypeOK
  <2>S. FilesOK' /\ BackupsOK' /\ RunsOK' /\ ServerOK' => RestoreTypeOK'
    BY DEF RestoreTypeOK
  <2>1. CASE StartServer
    <3>1. restore' \in RestoreRuns /\ restore'.at = "none"
      BY <2>0, <2>1, CommandSteps DEF StartServer, Ended
    <3>2. mainFile' \in Contents /\ walFile' \in Contents /\ commits' \in Contents
      BY <2>0, <2>1, NextCommit DEF StartServer
    <3>3. RestoreTypeOK'
      BY <2>0, <2>1, <2>S, <3>1, <3>2 DEF StartServer, UnchangedBackups
    <3> QED
      BY <2>0, <2>1, <3>1, <3>3, ServerSteps DEF StartServer, UnchangedBackups, OneAtATime, Steps
  <2>2. CASE CommitRow \/ Checkpoint
    <3>1. serverUp /\ UNCHANGED <<serverUp, restore, restores, backups, backupJob, manifests, rollbacks>>
      BY <2>2 DEF CommitRow, Checkpoint, UnchangedBackups, UnchangedRestore
    <3>2. mainFile' \in Contents /\ walFile' \in Contents /\ commits' \in Contents
      BY <2>0, <2>2, NextCommit DEF CommitRow, Checkpoint
    <3> QED
      BY <2>0, <2>S, <3>1, <3>2, ServerSteps DEF OneAtATime
  <2>3. CASE StopServer \/ KillServer
    <3>1. /\ serverUp /\ serverUp' = FALSE /\ backupJob' = Nothing
          /\ UNCHANGED <<restore, restores, commits, backups, manifests, rollbacks>>
      BY <2>3 DEF StopServer, KillServer, UnchangedFiles, UnchangedRestore
    <3>2. mainFile' \in Contents /\ walFile' \in Contents
      BY <2>0, <2>3, NextCommit DEF StopServer, KillServer, UnchangedFiles
    <3> QED
      BY <2>0, <2>S, <3>1, <3>2, NextCommit, ServerSteps DEF OneAtATime, Steps
  <2>4. CASE WriteBackup \/ RecordBackup \/ FailBackup
    <3>1. serverUp /\ UNCHANGED <<serverUp, restore, restores, rollbacks>>
      BY <2>0, <2>4 DEF WriteBackup, RecordBackup, FailBackup, UnchangedRestore, OneAtATime
    <3>2. mainFile' \in Contents /\ walFile' \in Contents /\ commits' \in Contents
          /\ backups' \subseteq Contents /\ backupJob' \in Contents
      BY <2>0, <2>4, NextCommit DEF WriteBackup, RecordBackup, FailBackup
    <3>3. manifests' \subseteq [file : Contents, counted : Contents]
      BY <2>0, <2>4, NextCommit DEF WriteBackup, RecordBackup, FailBackup
    <3> QED
      BY <2>0, <2>S, <3>1, <3>2, <3>3, ServerSteps DEF OneAtATime
  <2>5. ASSUME NEW source \in backups, BeginRestore(source) PROVE RestoreInv'
    <3> DEFINE run == [at |-> "copied", source |-> source, main |-> mainFile,
                       committed |-> Opened(mainFile, walFile)]
    <3>1. restore' = run /\ run \in RestoreRuns
      BY <2>0, <2>5, NextCommit DEF BeginRestore, RestoreRuns, Steps
    <3>2. RestoreTypeOK'
      BY <2>0, <2>5, <2>S, <3>1, NextCommit DEF BeginRestore, UnchangedFiles, UnchangedBackups
    <3>3. restores' # 0
      BY <2>0, <2>5, NextCommit DEF BeginRestore
    <3> QED
      BY <2>0, <2>5, <3>1, <3>2, <3>3
      DEF BeginRestore, UnchangedFiles, UnchangedBackups, RestoreInv, OneAtATime, FilesOfStep
  <2>6. CASE ClearSidecars \/ MoveLive \/ InstallCopy \/ FinishRestore \/ FailRestore \/ KillRestore
    <3>1. UNCHANGED <<serverUp, commits, backups, backupJob, manifests, restores>>
      BY <2>6 DEF ClearSidecars, MoveLive, InstallCopy, FinishRestore, FailRestore, KillRestore, UnchangedOthers
    <3>2. restore.at \in Steps /\ ~serverUp
      BY <2>0, <2>6 DEF ClearSidecars, MoveLive, InstallCopy, FinishRestore, FailRestore, KillRestore, Steps,
         OneAtATime
    <3>3. OneAtATime'
      BY <2>0, <3>1, <3>2 DEF OneAtATime
    <3>4. CASE ClearSidecars
      <4>1. restore' \in RestoreRuns /\ restore'.at = "cleared" /\ restore'.main = restore.main
        BY <2>0, <3>4, CommandSteps DEF ClearSidecars, Steps
      <4>2. RestoreTypeOK'
        BY <2>0, <2>S, <3>1, <3>4, <4>1, NextCommit DEF ClearSidecars
      <4> QED
        BY <2>0, <3>3, <3>4, <4>1, <4>2 DEF ClearSidecars, RestoreInv, FilesOfStep, Aside
    <3>5. CASE MoveLive
      <4>1. restore' \in RestoreRuns /\ restore'.at = "moved" /\ restore'.main = restore.main
        BY <2>0, <3>5, CommandSteps DEF MoveLive, Steps
      <4>2. restores \in 1..MaxRestores
        BY <2>0, <3>2, RestoreAssumption DEF OneAtATime
      <4>3. RestoreTypeOK'
        BY <2>0, <2>S, <3>1, <3>5, <4>1, <4>2, NextCommit DEF MoveLive
      <4>4. restore.main # Nothing => restore.main \in Aside'
        <5> SUFFICES ASSUME restore.main # Nothing PROVE restore.main \in Aside'
          OBVIOUS
        <5> DEFINE moved == [of |-> restores, holds |-> mainFile]
        <5>1. mainFile = restore.main
          BY <2>0, <3>5 DEF MoveLive, FilesOfStep
        <5>2. moved \in rollbacks' /\ moved.holds = restore.main
          BY <3>5, <5>1 DEF MoveLive
        <5> QED BY <5>2 DEF Aside
      <4> QED
        BY <2>0, <3>3, <3>5, <4>1, <4>3, <4>4 DEF MoveLive, RestoreInv, FilesOfStep
    <3>6. CASE InstallCopy
      <4>1. restore' \in RestoreRuns /\ restore'.at = "installed" /\ restore'.main = restore.main
            /\ restore'.source = restore.source /\ restore.source \in Contents
        BY <2>0, <3>6, CommandSteps DEF InstallCopy, Steps, RestoreRuns
      <4>2. RestoreTypeOK'
        BY <2>0, <2>S, <3>1, <3>6, <4>1 DEF InstallCopy
      <4> QED
        BY <2>0, <3>3, <3>6, <4>1, <4>2 DEF InstallCopy, RestoreInv, FilesOfStep, Aside
    <3>7. CASE FinishRestore
      <4>1. restore' \in RestoreRuns /\ restore'.at = "restored" /\ restore'.main = restore.main
            /\ restore'.source = restore.source
        BY <2>0, <3>7, CommandSteps DEF FinishRestore, Ended
      <4>2. RestoreTypeOK'
        BY <2>0, <2>S, <3>1, <3>7, <4>1 DEF FinishRestore, UnchangedFiles
      <4> QED
        BY <2>0, <3>3, <3>7, <4>1, <4>2 DEF FinishRestore, UnchangedFiles, RestoreInv, FilesOfStep, Aside
    <3>8. CASE FailRestore
      <4>1. restore' \in RestoreRuns /\ restore'.at = "failed" /\ restore'.main = restore.main
            /\ restore.main \in Contents
        BY <2>0, <3>8, CommandSteps DEF FailRestore, Ended, RestoreRuns
      <4>2. RestoreTypeOK'
        BY <2>0, <2>S, <3>1, <3>8, <4>1 DEF FailRestore
      <4>3. restore.main # Nothing => mainFile' = restore.main \/ restore.main \in Aside'
        BY <2>0, <3>2, <3>8 DEF FailRestore, FilesOfStep, Aside, Steps
      <4> QED
        BY <3>3, <4>1, <4>2, <4>3 DEF RestoreInv, FilesOfStep
    <3>9. CASE KillRestore
      <4>1. restore' \in RestoreRuns /\ restore'.at = "killed" /\ restore'.main = restore.main
        BY <2>0, <3>9, CommandSteps DEF KillRestore, Ended
      <4>2. RestoreTypeOK'
        BY <2>0, <2>S, <3>1, <3>9, <4>1 DEF KillRestore, UnchangedFiles
      <4>3. restore.main # Nothing => mainFile' = restore.main \/ restore.main \in Aside'
        BY <2>0, <3>2, <3>9 DEF KillRestore, UnchangedFiles, FilesOfStep, Aside, Steps
      <4> QED
        BY <3>3, <4>1, <4>2, <4>3 DEF RestoreInv, FilesOfStep
    <3> QED
      BY <2>6, <3>4, <3>5, <3>6, <3>7, <3>8, <3>9
  <2>7. CASE UNCHANGED restoreVars
    BY <2>0, <2>S, <2>7 DEF restoreVars, RestoreInv, OneAtATime, FilesOfStep, Aside
  <2> QED
    BY <2>1, <2>2, <2>3, <2>4, <2>5, <2>6, <2>7 DEF RestoreNext
<1> QED
  BY <1>1, <1>2, PTL DEF RestoreSpec

(* The files, the backups and the restore command have their types.         *)
THEOREM RestoreTypeCorrect == RestoreSpec => []RestoreTypeOK
<1>1. RestoreInv => RestoreTypeOK
  BY DEF RestoreInv
<1> QED
  BY <1>1, RestoreInvariant, PTL

(* A restore that reports success leaves the backup, and no restore loses   *)
(* the main file it began with, wherever it fails or is killed.             *)
THEOREM RestoreKeepsBoth == RestoreSpec => []RestoredIsTheBackup
<1>1. RestoreInv => RestoredIsTheBackup
  BY DEF RestoreInv, FilesOfStep, RestoredIsTheBackup, Opened
<1> QED
  BY <1>1, RestoreInvariant, PTL

-----------------------------------------------------------------------------
(* The shared integrity check.  Nothing lies ahead of the clock.            *)
NothingAhead ==
  /\ damagedAt # Never => damagedAt <= now
  /\ completed.at <= now
  /\ pending.startedAt <= now

(* Generations are given once: the recheck that waits for the worker's      *)
(* check is the one that asked for it.                                      *)
CheckIsTheTasks ==
  /\ pending.gen <= generation
  /\ \A t \in tasks : t.gen \in 1..generation /\ (t.gen = pending.gen => t.startedAt = pending.startedAt)

(* What a good result says of the damage.                                   *)
SawTheDamage == pending.saw = "ok" => damagedAt = Never \/ damagedAt >= pending.startedAt
GoodWhenTaken == completed.ok => damagedAt = Never \/ completed.at - damagedAt < MaxAge

ChecksOK == /\ completed \in Results /\ inflight \in Generations /\ inflightStartedAt \in 0..MaxNow
            /\ generation \in Generations /\ tasks \subseteq Tasks /\ pending \in Checks
            /\ NothingAhead /\ CheckIsTheTasks /\ SawTheDamage /\ GoodWhenTaken
ClockOK == now \in 0..MaxNow /\ damagedAt \in Moments
ReadersOK == reader \in [Readers -> ReaderStates] /\ ReadyIsRecent

IntegrityInv == ClockOK /\ ChecksOK /\ ReadersOK

(* A read changes no result but for a worse one.                            *)
LEMMA RefusedIsWorse ==
    ASSUME ClockOK, ChecksOK
    PROVE  /\ Refused \in Results /\ Refused.at <= now
           /\ Refused.ok => Refused = completed
  BY DEF ClockOK, ChecksOK, Refused, Results, Moments, NothingAhead

(* Beginning a check keeps what the checks know.                           *)
LEMMA ReadKeepsChecks ==
    ASSUME ClockOK, ChecksOK, Read, UNCHANGED <<now, damagedAt>>
    PROVE  ChecksOK'
  <1> DEFINE gen == IF Overdue THEN generation + 1 ELSE generation
             fly == IF Overdue THEN NoGeneration ELSE inflight
             opens == ~Fresh(Refused) /\ fly = NoGeneration
             task == [gen |-> gen + 1, startedAt |-> now, refused |-> pending # NoCheck]
             check == [gen |-> gen + 1, startedAt |-> now, saw |-> "nothing"]
  <1>0. /\ completed' = Refused
        /\ generation' = IF opens THEN gen + 1 ELSE gen
        /\ generation' <= MaxGenerations
        /\ inflight' = IF opens THEN gen + 1 ELSE fly
        /\ inflightStartedAt' = IF opens THEN now ELSE inflightStartedAt
        /\ tasks' = IF opens THEN tasks \cup {task} ELSE tasks
        /\ pending' = IF opens /\ pending = NoCheck THEN check ELSE pending
    BY DEF Read
  <1>1. generation \in Nat /\ gen \in Nat /\ generation <= gen /\ fly \in Generations
        /\ now \in 0..MaxNow /\ now \in Nat /\ MaxGenerations \in Nat
    BY IntegrityAssumption DEF ChecksOK, ClockOK, Generations, NoGeneration
  <1> HIDE DEF gen, fly, opens
  <1>2. generation' \in Generations /\ gen <= generation'
    BY <1>0, <1>1 DEF Generations
  <1>3. inflight' \in Generations /\ inflightStartedAt' \in 0..MaxNow
    BY <1>0, <1>1, <1>2 DEF Generations, ChecksOK
  <1>4. completed' \in Results /\ completed'.at <= now' /\ GoodWhenTaken'
    BY <1>0, RefusedIsWorse DEF ChecksOK, GoodWhenTaken
  <1>5. CASE opens
    <2>1. generation' = gen + 1 /\ gen + 1 \in Generations
      BY <1>0, <1>2, <1>5
    <2>2. (pending # NoCheck) \in BOOLEAN
      OBVIOUS
    <2>3. task \in Tasks
      BY <2>1, <2>2, <1>1, Zenon DEF Tasks
    <2>4. check \in Checks
      BY <2>1, <1>1 DEF Checks
    <2>5. tasks' \subseteq Tasks /\ pending' \in Checks
      BY <1>0, <1>5, <2>3, <2>4 DEF ChecksOK
    <2>6. task.gen = gen + 1 /\ task.startedAt = now /\ check.gen = gen + 1 /\ check.startedAt = now
          /\ check.saw = "nothing"
      OBVIOUS
    <2> HIDE DEF task, check
    <2>7. NothingAhead'
      BY <1>0, <1>1, <1>4, <2>6 DEF NothingAhead, ChecksOK
    <2>8. CheckIsTheTasks'
      <3>0. pending.gen \in Nat /\ \A t \in tasks : t.gen \in 1..generation
        BY DEF ChecksOK, Checks, Generations, CheckIsTheTasks
      <3>1. pending'.gen <= generation'
        BY <1>0, <1>1, <2>1, <2>6, <3>0 DEF ChecksOK, CheckIsTheTasks
      <3>2. ASSUME NEW t \in tasks'
            PROVE  t.gen \in 1..generation' /\ (t.gen = pending'.gen => t.startedAt = pending'.startedAt)
        <4>1. CASE t = task
          <5>1. pending' = check \/ (pending' = pending /\ pending.gen # gen + 1)
            BY <1>0, <1>1, <1>5, <3>0 DEF ChecksOK, CheckIsTheTasks
          <5> QED
            BY <1>1, <2>1, <2>6, <4>1, <5>1
        <4>2. CASE t # task
          <5>1. t \in tasks /\ t.gen \in 1..generation /\ t.gen # gen + 1
            BY <1>0, <1>1, <1>5, <3>0, <3>2, <4>2
          <5>2. t.gen = pending.gen => t.startedAt = pending.startedAt
            BY <5>1 DEF ChecksOK, CheckIsTheTasks
          <5> QED
            BY <1>0, <1>1, <2>1, <2>6, <5>1, <5>2
        <4> QED BY <4>1, <4>2
      <3> QED
        BY <3>1, <3>2 DEF CheckIsTheTasks
    <2>9. SawTheDamage'
      BY <1>0, <2>6 DEF ChecksOK, SawTheDamage
    <2> QED
      BY <1>2, <1>3, <1>4, <2>5, <2>7, <2>8, <2>9 DEF ChecksOK
  <1>6. CASE ~opens
    <2>1. tasks' = tasks /\ pending' = pending /\ generation' = gen
      BY <1>0, <1>6
    <2>2. NothingAhead' /\ SawTheDamage'
      BY <1>4, <2>1 DEF ChecksOK, NothingAhead, SawTheDamage
    <2>3. CheckIsTheTasks'
      BY <1>1, <2>1 DEF ChecksOK, CheckIsTheTasks, Checks, Generations
    <2> QED
      BY <1>2, <1>3, <1>4, <2>1, <2>2, <2>3 DEF ChecksOK
  <1> QED BY <1>5, <1>6

(* What a reader is told: ready only of a recent whole database.            *)
LEMMA ToldIsAnAnswer ==
    ASSUME ClockOK, NothingAhead, NEW ready \in BOOLEAN, ready => DamageAge < 2 * MaxAge
    PROVE  /\ Told(ready) \in ReaderStates
           /\ Told(ready).ready => Told(ready).damageAge < 2 * MaxAge
  <1>1. DamageAge \in 0..MaxNow
    BY IntegrityAssumption DEF DamageAge, ClockOK, Moments, Never, NothingAhead
  <1>2. Told(ready) \in [st : {"answered"}, ready : BOOLEAN, damageAge : 0..MaxNow]
    BY <1>1 DEF Told
  <1>3. Told(ready).ready = ready /\ Told(ready).damageAge = DamageAge
    BY DEF Told
  <1> QED BY <1>2, <1>3 DEF ReaderStates

(* A reader that waits has no answer.                                      *)
LEMMA WaitsIsAState ==
    ASSUME NEW gen \in Generations
    PROVE  /\ [st |-> "waits", on |-> gen] \in ReaderStates
           /\ [st |-> "waits", on |-> gen].st # "answered"
  BY DEF ReaderStates

(* A reader told something recent keeps the invariant,                     *)
LEMMA ReaderBecomes ==
    ASSUME ReadersOK, NEW q \in Readers, NEW s \in ReaderStates,
           s.st = "answered" /\ s.ready => s.damageAge < 2 * MaxAge, reader' = [reader EXCEPT ![q] = s]
    PROVE  ReadersOK'
  BY DEF ReadersOK, ReadyIsRecent

(* as do all that waited for it.                                           *)
LEMMA ReadersWake ==
    ASSUME ReadersOK, NEW gen, NEW s \in ReaderStates,
           s.st = "answered" /\ s.ready => s.damageAge < 2 * MaxAge, Wakes(gen, s)
    PROVE  ReadersOK'
  <1>1. reader' \in [Readers -> ReaderStates] /\ \A q \in Readers : reader'[q] = reader[q] \/ reader'[q] = s
    BY DEF ReadersOK, Wakes
  <1> QED BY <1>1 DEF ReadersOK, ReadyIsRecent

(* A finished check leaves the results right, whichever generation it is of.*)
LEMMA FinishKeepsResults ==
    ASSUME ClockOK, ChecksOK, NEW task \in tasks, task.gen = pending.gen, pending.saw # "nothing",
           Finish(task, pending.saw = "ok"), UNCHANGED <<now, damagedAt>>
    PROVE  /\ completed' \in Results /\ inflight' \in Generations /\ generation' \in Generations
           /\ generation <= generation' /\ completed'.at <= now' /\ GoodWhenTaken'
  <1>1. generation \in Nat /\ MaxGenerations \in Nat /\ now \in 0..MaxNow /\ now \in Nat
    BY IntegrityAssumption DEF ChecksOK, ClockOK, Generations
  <1>2. CASE task.gen # generation
    <2>1. UNCHANGED <<completed, generation, inflight>>
      BY <1>2 DEF Finish
    <2> QED
      BY <1>1, <2>1 DEF ChecksOK, NothingAhead, GoodWhenTaken
  <1>3. CASE task.gen = generation
    <2> DEFINE late == now - task.startedAt >= MaxAge
               ok == pending.saw = "ok" /\ ~late
    <2>1. /\ completed' = [ok |-> ok, at |-> now]
          /\ generation' = IF late THEN generation + 1 ELSE generation
          /\ generation' <= MaxGenerations
          /\ inflight' = NoGeneration
      BY <1>3 DEF Finish
    <2>2. ok => damagedAt = Never \/ now - damagedAt < MaxAge
      <3>1. task.startedAt = pending.startedAt /\ pending.startedAt \in 0..MaxNow /\ damagedAt \in Int
        BY DEF ChecksOK, CheckIsTheTasks, Checks, ClockOK, Moments, Never
      <3>2. SUFFICES ASSUME ok, damagedAt # Never PROVE now - damagedAt < MaxAge
        OBVIOUS
      <3>3. damagedAt >= pending.startedAt
        BY <3>2 DEF ChecksOK, SawTheDamage
      <3>4. ~(now - pending.startedAt >= MaxAge)
        BY <3>1, <3>2
      <3> QED
        BY <1>1, <3>1, <3>3, <3>4, IntegrityAssumption
    <2>3. ok \in BOOLEAN
      OBVIOUS
    <2>4. generation' \in Generations /\ generation <= generation' /\ inflight' \in Generations
      BY <1>1, <2>1 DEF Generations, NoGeneration
    <2> HIDE DEF ok
    <2>5. completed' \in Results
      <3>1. now \in Moments
        BY <1>1 DEF Moments
      <3> QED
        BY <2>1, <2>3, <3>1, Zenon DEF Results
    <2> QED
      BY <1>1, <2>1, <2>2, <2>4, <2>5 DEF GoodWhenTaken
  <1> QED BY <1>2, <1>3

-----------------------------------------------------------------------------
(* Every state of the readers and their check satisfies IntegrityInv.       *)
THEOREM IntegrityInvariant == IntegritySpec => []IntegrityInv
<1>1. IntegrityInit => IntegrityInv
  <2> SUFFICES ASSUME IntegrityInit PROVE IntegrityInv
    OBVIOUS
  <2>1. 0 \in 0..MaxNow /\ 0 \in Generations
    BY IntegrityAssumption DEF Generations
  <2>2. ClockOK
    BY <2>1 DEF IntegrityInit, ClockOK, Moments
  <2>3. Idle \in ReaderStates /\ Idle.st = "idle"
    BY DEF Idle, ReaderStates
  <2>4. ReadersOK
    BY <2>3 DEF IntegrityInit, ReadersOK, ReadyIsRecent
  <2>5. ChecksOK
    BY <2>1 DEF IntegrityInit, ChecksOK, Results, Moments, Never, Tasks, Checks, NoCheck, NoGeneration,
       NothingAhead, CheckIsTheTasks, SawTheDamage, GoodWhenTaken
  <2> QED BY <2>2, <2>4, <2>5 DEF IntegrityInv
<1>2. IntegrityInv /\ [IntegrityNext]_integrityVars => IntegrityInv'
  <2> SUFFICES ASSUME IntegrityInv, [IntegrityNext]_integrityVars PROVE IntegrityInv'
    OBVIOUS
  <2>0. ClockOK /\ ChecksOK /\ ReadersOK
    BY DEF IntegrityInv
  <2>S. ClockOK' /\ ChecksOK' /\ ReadersOK' => IntegrityInv'
    BY DEF IntegrityInv
  <2>C. UNCHANGED <<now, damagedAt>> => ClockOK'
    BY <2>0 DEF ClockOK
  <2>R. UNCHANGED reader => ReadersOK'
    BY <2>0 DEF ReadersOK, ReadyIsRecent
  <2>F. Told(FALSE) \in ReaderStates /\ ~Told(FALSE).ready
    <3>1. Told(FALSE) \in ReaderStates
      BY <2>0, ToldIsAnAnswer DEF ChecksOK
    <3> QED BY <3>1 DEF Told
  <2>T. NoCheck \in Checks /\ NoCheck.gen = 0 /\ NoCheck.startedAt = 0 /\ NoCheck.saw = "nothing"
    BY IntegrityAssumption DEF NoCheck, Checks, Generations, NoGeneration
  <2>N. generation \in Nat /\ now \in 0..MaxNow /\ MaxNow \in Nat
    BY <2>0, IntegrityAssumption DEF ChecksOK, ClockOK, Generations
  <2>1. CASE WorkerLooks
    <3> DEFINE saw == IF damagedAt = Never THEN "ok" ELSE "bad"
    <3>1. pending' = [pending EXCEPT !.saw = saw] /\ saw \in {"nothing", "ok", "bad"}
      BY <2>1 DEF WorkerLooks
    <3> HIDE DEF saw
    <3>2. pending' \in Checks /\ pending'.gen = pending.gen /\ pending'.startedAt = pending.startedAt
          /\ pending'.saw = saw
      BY <2>0, <3>1 DEF ChecksOK, Checks
    <3>3. UNCHANGED <<now, damagedAt, completed, inflight, inflightStartedAt, generation, tasks, reader>>
      BY <2>1 DEF WorkerLooks
    <3>4. NothingAhead' /\ CheckIsTheTasks' /\ SawTheDamage' /\ GoodWhenTaken'
      BY <2>0, <3>2, <3>3 DEF ChecksOK, NothingAhead, CheckIsTheTasks, SawTheDamage, GoodWhenTaken, saw
    <3>5. ChecksOK'
      BY <2>0, <3>2, <3>3, <3>4 DEF ChecksOK
    <3> QED BY <2>S, <2>C, <2>R, <3>3, <3>5
  <2>2. CASE CheckEnds
    <3>1. PICK task \in tasks :
            /\ task.gen = pending.gen /\ Finish(task, pending.saw = "ok") /\ tasks' = tasks \ {task}
            /\ Wakes(task.gen, [st |-> "waits", on |-> NoGeneration])
      BY <2>2 DEF CheckEnds
    <3>2. pending.saw # "nothing" /\ pending' = NoCheck /\ UNCHANGED <<now, damagedAt, inflightStartedAt>>
      BY <2>2 DEF CheckEnds
    <3>3. /\ completed' \in Results /\ inflight' \in Generations /\ generation' \in Generations
          /\ generation <= generation' /\ completed'.at <= now' /\ GoodWhenTaken'
      BY <2>0, <3>1, <3>2, FinishKeepsResults
    <3>4. ReadersOK'
      <4>1. NoGeneration \in Generations
        BY IntegrityAssumption DEF Generations, NoGeneration
      <4> QED BY <2>0, <3>1, <4>1, ReadersWake, WaitsIsAState
    <3>5. NothingAhead' /\ SawTheDamage'
      BY <2>0, <2>N, <2>T, <3>2, <3>3 DEF ChecksOK, NothingAhead, SawTheDamage
    <3>6. CheckIsTheTasks'
      <4>1. generation' \in Nat
        BY <3>3 DEF Generations
      <4>2. \A t \in tasks' : t.gen \in 1..generation' /\ t.gen # 0
        BY <2>0, <2>N, <3>1, <3>3, <4>1 DEF ChecksOK, CheckIsTheTasks
      <4> QED BY <2>T, <3>2, <4>1, <4>2 DEF CheckIsTheTasks
    <3>7. ChecksOK'
      BY <2>0, <2>T, <3>1, <3>2, <3>3, <3>5, <3>6 DEF ChecksOK
    <3> QED BY <2>S, <2>C, <3>2, <3>4, <3>7
  <2>3. CASE CheckFails
    <3>1. PICK task \in tasks :
            /\ tasks' = tasks \ {task}
            /\ pending' = IF task.refused THEN pending ELSE NoCheck
            /\ inflight' = IF task.gen = generation THEN NoGeneration ELSE inflight
            /\ Wakes(task.gen, Told(FALSE))
            /\ UNCHANGED <<now, damagedAt, completed, inflightStartedAt, generation>>
      BY <2>3 DEF CheckFails
    <3>2. ReadersOK'
      BY <2>0, <2>F, <3>1, ReadersWake
    <3>3. pending' = pending \/ pending' = NoCheck
      BY <3>1
    <3>4. NothingAhead' /\ SawTheDamage' /\ GoodWhenTaken'
      BY <2>0, <2>N, <2>T, <3>1, <3>3 DEF ChecksOK, NothingAhead, SawTheDamage, GoodWhenTaken
    <3>5. CheckIsTheTasks'
      <4>1. \A t \in tasks' : t.gen \in 1..generation /\ t.gen # 0 /\ (t.gen = pending.gen => t.startedAt = pending.startedAt)
        BY <2>0, <2>N, <3>1 DEF ChecksOK, CheckIsTheTasks
      <4> QED BY <2>0, <2>N, <2>T, <3>1, <3>3, <4>1 DEF CheckIsTheTasks, ChecksOK
    <3>6. inflight' \in Generations
      BY <2>0, <3>1, IntegrityAssumption DEF ChecksOK, Generations, NoGeneration
    <3>7. ChecksOK'
      BY <2>0, <2>T, <3>1, <3>3, <3>4, <3>5, <3>6 DEF ChecksOK
    <3> QED BY <2>S, <2>C, <3>1, <3>2, <3>7
  <2>4. CASE Tick
    <3>1. now' = now + 1 /\ now + 1 \in 0..MaxNow
          /\ UNCHANGED <<damagedAt, completed, inflight, inflightStartedAt, generation, tasks, pending, reader>>
      BY <2>4, <2>N DEF Tick
    <3>2. damagedAt \in Int /\ completed.at \in Int /\ pending.startedAt \in Int
      BY <2>0 DEF ClockOK, ChecksOK, Moments, Results, Checks, Never
    <3>3. NothingAhead' /\ CheckIsTheTasks' /\ SawTheDamage' /\ GoodWhenTaken'
      BY <2>0, <2>N, <3>1, <3>2 DEF ChecksOK, NothingAhead, CheckIsTheTasks, SawTheDamage, GoodWhenTaken
    <3>4. ChecksOK' /\ ClockOK'
      BY <2>0, <3>1, <3>3 DEF ChecksOK, ClockOK
    <3> QED BY <2>S, <2>R, <3>1, <3>4
  <2>5. CASE Damage
    <3>1. damagedAt' = now
          /\ UNCHANGED <<now, completed, inflight, inflightStartedAt, generation, tasks, pending, reader>>
      BY <2>5 DEF Damage
    <3>2. completed.at \in Int /\ pending.startedAt \in Int /\ completed.at <= now /\ pending.startedAt <= now
      BY <2>0 DEF ChecksOK, Moments, Results, Checks, Never, NothingAhead
    <3>3. completed.at - now < MaxAge
      BY <2>N, <3>2, IntegrityAssumption
    <3>4. NothingAhead' /\ CheckIsTheTasks' /\ SawTheDamage' /\ GoodWhenTaken'
      BY <2>0, <2>N, <3>1, <3>2, <3>3 DEF ChecksOK, NothingAhead, CheckIsTheTasks, SawTheDamage, GoodWhenTaken
    <3>5. ChecksOK' /\ ClockOK'
      BY <2>0, <2>N, <3>1, <3>4 DEF ChecksOK, ClockOK, Moments
    <3> QED BY <2>S, <2>R, <3>1, <3>5
  <2>6. ASSUME NEW q \in Readers, Ask(q) PROVE IntegrityInv'
    <3>1. ChecksOK'
      BY <2>0, <2>6, ReadKeepsChecks DEF Ask
    <3>2. ReadersOK'
      <4>1. inflight' \in Generations
        BY <3>1 DEF ChecksOK
      <4> QED BY <2>0, <2>6, <4>1, WaitsIsAState, ReaderBecomes DEF Ask
    <3> QED BY <2>6, <2>S, <2>C, <3>1, <3>2 DEF Ask
  <2>7. ASSUME NEW q \in Readers, Answer(q) PROVE IntegrityInv'
    <3> DEFINE ready == Fresh(Refused) /\ Refused.ok
    <3>1. ChecksOK'
      BY <2>0, <2>7, ReadKeepsChecks DEF Answer
    <3>2. ready => DamageAge < 2 * MaxAge
      <4> SUFFICES ASSUME ready PROVE DamageAge < 2 * MaxAge
        OBVIOUS
      <4>1. completed.ok /\ Fresh(completed)
        BY <2>0, RefusedIsWorse
      <4>2. now - completed.at < MaxAge /\ completed.at \in Int /\ damagedAt \in Int
        BY <2>0, <4>1 DEF Fresh, ChecksOK, Results, Moments, Never, ClockOK
      <4>3. damagedAt = Never \/ completed.at - damagedAt < MaxAge
        BY <2>0, <4>1 DEF ChecksOK, GoodWhenTaken
      <4> QED BY <2>N, <4>2, <4>3, IntegrityAssumption DEF DamageAge
    <3>3. ready \in BOOLEAN
      BY <2>0, RefusedIsWorse DEF Results
    <3>4. reader' = [reader EXCEPT ![q] = Told(ready)]
      BY <2>7 DEF Answer
    <3> HIDE DEF ready
    <3>5. ReadersOK'
      <4>1. Told(ready) \in ReaderStates /\ (Told(ready).ready => Told(ready).damageAge < 2 * MaxAge)
        BY <2>0, <3>2, <3>3, ToldIsAnAnswer DEF ChecksOK
      <4> QED BY <2>0, <3>4, <4>1, ReaderBecomes
    <3> QED BY <2>7, <2>S, <2>C, <3>1, <3>5 DEF Answer
  <2>8. ASSUME NEW q \in Readers, WaitTimesOut(q) PROVE IntegrityInv'
    <3>1. ReadersOK'
      BY <2>0, <2>8, <2>F, ReaderBecomes DEF WaitTimesOut
    <3>2. ChecksOK'
      BY <2>0, <2>8 DEF WaitTimesOut, ChecksOK, NothingAhead, CheckIsTheTasks, SawTheDamage, GoodWhenTaken
    <3> QED BY <2>8, <2>S, <2>C, <3>1, <3>2 DEF WaitTimesOut
  <2>9. CASE UNCHANGED integrityVars
    <3>1. ChecksOK'
      BY <2>0, <2>9 DEF integrityVars, ChecksOK, NothingAhead, CheckIsTheTasks, SawTheDamage, GoodWhenTaken
    <3> QED BY <2>9, <2>S, <2>C, <2>R, <3>1 DEF integrityVars
  <2> QED
    BY <2>1, <2>2, <2>3, <2>4, <2>5, <2>6, <2>7, <2>8, <2>9 DEF IntegrityNext
<1> QED
  BY <1>1, <1>2, PTL DEF IntegritySpec

(* The clock, the checks and the readers have their types.                  *)
THEOREM IntegrityTypeCorrect == IntegritySpec => []IntegrityTypeOK
<1>1. IntegrityInv => IntegrityTypeOK
  BY DEF IntegrityInv, ClockOK, ChecksOK, ReadersOK, IntegrityTypeOK
<1> QED
  BY <1>1, IntegrityInvariant, PTL

(* Ready is said of a database that was whole less than twice maxAgeMs ago, *)
(* for any maxAgeMs and any number of readers.                              *)
THEOREM ReadyMeansRecent == IntegritySpec => []ReadyIsRecent
<1>1. IntegrityInv => ReadyIsRecent
  BY DEF IntegrityInv, ReadersOK
<1> QED
  BY <1>1, IntegrityInvariant, PTL

-----------------------------------------------------------------------------
(* The activation of a release.  The drop-in is the old one unless the      *)
(* script changed it and has not put it back; systemd has loaded what was   *)
(* put back once the script has it reloaded.                                *)
UnitsFollow ==
  /\ activation.step \in Trying \cup Undoing \cup {"failed", "manual"} /\ "dropIn" \notin activation.changed
       => dropIn = activation.oldUnit
  /\ activation.step \in {"dropInUndone", "undone", "safe", "failed", "manual"} => dropIn = activation.oldUnit
  /\ activation.step \in {"undone", "safe", "failed", "manual"} /\ "dropIn" \in activation.changed
       => loadedUnit = dropIn
  /\ {"restart", "runtime"} \cap activation.changed # {} => "dropIn" \in activation.changed
  /\ activation.step \in Trying \ {"prepared", "kept"} => "dropIn" \in activation.changed

NamesRelease(env) == HasValue(env, "commit", {Release})
RuntimeFollows ==
  activation.step \in {"runtimeUndone", "dropInUndone", "undone", "safe", "failed", "manual"}
    /\ "runtime" \in activation.changed /\ NamesRelease(envFiles["runtime"])
       => NamesRelease(activation.oldRuntime)

(* The process that was looked at is known by its pid, and pids only grow.  *)
ProcessFollows ==
  /\ activation.step \in {"up", "looked", "active"} => activation.pid \in Nat /\ activation.pid <= service.pid
  /\ activation.step \in {"looked", "active"} /\ service.up /\ service.pid = activation.pid
       => service.root = Release /\ ReleaseEnvironment(service.env)
  /\ activation.step = "failed" /\ "restart" \in activation.changed /\ service.up
       => service.root = activation.oldUnit.root

ActivationFields == {"step", "files", "unit", "oldUnit", "oldRuntime", "changed", "expected", "pid"}
ActivationOK ==
  /\ DOMAIN activation = ActivationFields
  /\ activation.step \in Trying \cup Undoing \cup Over
  /\ activation.changed \subseteq {"dropIn", "runtime", "restart"}
  /\ activation.oldUnit \in Units /\ activation.unit \in Units
  /\ DOMAIN activation.oldRuntime \subseteq Settings
  /\ activation.step = "compared" => DOMAIN activation.files["runtime"] \subseteq Settings
EnvironmentOK ==
  /\ DOMAIN envFiles = EnvironmentFiles
  /\ \A f \in EnvironmentFiles : DOMAIN envFiles[f] \subseteq Settings
  /\ manager \subseteq DonorNames /\ edits \in 0..MaxEdits
UnitsOK == dropIn \in Units /\ loadedUnit \in Units
ServiceOK ==
  /\ service.up \in BOOLEAN /\ service.pid \in 0..MaxServiceStarts
  /\ DOMAIN service.env \subseteq Settings

ReleaseInv ==
  /\ EnvironmentOK /\ UnitsOK /\ ServiceOK /\ ActivationOK
  /\ UnitsFollow /\ RuntimeFollows /\ ProcessFollows

(* A file above another hides its settings,                                *)
LEMMA AboveNames ==
    ASSUME NEW front, NEW back
    PROVE  /\ DOMAIN Above(front, back) = DOMAIN front \cup DOMAIN back
           /\ \A n \in DOMAIN front : Above(front, back)[n] = front[n]
           /\ \A n \in DOMAIN back \ DOMAIN front : Above(front, back)[n] = back[n]
  BY DEF Above

(* and adds no others,                                                     *)
LEMMA AboveWithin ==
    ASSUME NEW S, NEW front, NEW back, DOMAIN front \subseteq S, DOMAIN back \subseteq S
    PROVE  DOMAIN Above(front, back) \subseteq S
  BY DEF Above

(* so the merged environment has known settings.                           *)
LEMMA MergedNames ==
    ASSUME EnvironmentOK, NEW unit PROVE DOMAIN Merged(unit, envFiles) \subseteq Settings
  <1>1. DOMAIN Layered(envFiles) \subseteq Settings
    <2>1. DOMAIN envFiles["hold"] \subseteq Settings /\ DOMAIN envFiles["mail-send"] \subseteq Settings
          /\ DOMAIN envFiles["runtime"] \subseteq Settings
      BY DEF EnvironmentOK, EnvironmentFiles
    <2>2. DOMAIN Above(envFiles["mail-send"], envFiles["runtime"]) \subseteq Settings
      BY <2>1, AboveWithin
    <2>3. DOMAIN Above(envFiles["hold"], Above(envFiles["mail-send"], envFiles["runtime"])) \subseteq Settings
      BY <2>1, <2>2, AboveWithin
    <2> QED BY <2>3 DEF Layered
  <1>2. DOMAIN [n \in manager |-> "inherited"] \subseteq Settings
    BY DEF EnvironmentOK, Settings
  <1>3. DOMAIN Above(Layered(envFiles), [n \in manager |-> "inherited"]) \subseteq Settings
    BY <1>1, <1>2, AboveWithin
  <1> QED BY <1>3 DEF Merged, Without

(* A start of the service: a new pid, the loaded unit, or no process.       *)
LEMMA StartedProcess ==
    ASSUME EnvironmentOK, ServiceOK, Starts \/ service' = NoLongerUp
    PROVE  /\ ServiceOK'
           /\ service'.up => service'.pid = service.pid + 1 /\ service'.root = loadedUnit.root
           /\ service.pid \in Nat /\ service.pid <= service'.pid
  <1>1. service.pid \in Nat /\ service.pid \in 0..MaxServiceStarts /\ MaxServiceStarts \in Nat
    BY ReleaseAssumption DEF ServiceOK
  <1>2. CASE service' = NoLongerUp
    <2>1. service'.up = FALSE /\ service'.pid = service.pid /\ service'.env = <<>>
      BY <1>2 DEF NoLongerUp, NoProcess
    <2>2. DOMAIN <<>> \subseteq Settings
      OBVIOUS
    <2>3. ServiceOK'
      BY <1>1, <2>1, <2>2 DEF ServiceOK
    <2> QED BY <1>1, <2>1, <2>3
  <1>3. CASE service' = NextProcess /\ service.pid < MaxServiceStarts
    <2>1. service'.up = TRUE /\ service'.pid = service.pid + 1 /\ service'.root = loadedUnit.root
          /\ service'.env = Merged(loadedUnit, envFiles)
      BY <1>3 DEF NextProcess
    <2>2. DOMAIN Merged(loadedUnit, envFiles) \subseteq Settings
      BY MergedNames
    <2>3. service.pid + 1 \in 0..MaxServiceStarts
      BY <1>1, <1>3
    <2>4. ServiceOK'
      BY <2>1, <2>2, <2>3 DEF ServiceOK
    <2> QED BY <1>1, <2>1, <2>4
  <1> QED BY <1>2, <1>3 DEF Starts

(* What happens beside the script changes neither the units nor it.         *)
LEMMA BesideTheScript ==
    ASSUME ReleaseInv, UNCHANGED <<dropIn, loadedUnit, activation>>
    PROVE  UnitsOK' /\ ActivationOK' /\ UnitsFollow'
  BY DEF ReleaseInv, UnitsOK, ActivationOK, UnitsFollow

(* An edit that does not make a file name the release leaves the           *)
(* invariant.                                                              *)
LEMMA EditsAreHarmless ==
    ASSUME ReleaseInv, EnvironmentOK', UNCHANGED <<dropIn, loadedUnit, service, activation>>,
           NamesRelease(envFiles["runtime"])' => NamesRelease(envFiles["runtime"])
    PROVE  ReleaseInv'
  <1>1. RuntimeFollows' /\ ProcessFollows' /\ ServiceOK'
    BY DEF ReleaseInv, RuntimeFollows, ProcessFollows, ServiceOK, NamesRelease
  <1> QED BY <1>1, BesideTheScript DEF ReleaseInv

(* It changes one file.                                                    *)
LEMMA EditedFiles ==
    ASSUME EnvironmentOK, Edited, NEW f \in EnvironmentFiles, NEW env, DOMAIN env \subseteq Settings,
           envFiles' = [envFiles EXCEPT ![f] = env], UNCHANGED manager
    PROVE  EnvironmentOK' /\ envFiles'[f] = env /\ \A g \in EnvironmentFiles \ {f} : envFiles'[g] = envFiles[g]
  <1>1. edits' \in 0..MaxEdits
    BY ReleaseAssumption DEF EnvironmentOK, Edited
  <1> QED BY <1>1 DEF EnvironmentOK

(* The script's record after a step.                                        *)
LEMMA AfterGoing ==
    ASSUME ActivationOK, NEW step, GoesTo(step)
    PROVE  /\ DOMAIN activation' = ActivationFields /\ activation'.step = step
           /\ activation'.files = activation.files /\ activation'.unit = activation.unit
           /\ activation'.oldUnit = activation.oldUnit /\ activation'.oldRuntime = activation.oldRuntime
           /\ activation'.changed = activation.changed /\ activation'.pid = activation.pid
  BY DEF ActivationOK, ActivationFields, GoesTo

(* The activation before it changed anything,                              *)
LEMMA AfterNothing ==
    ASSUME NEW step
    PROVE  LET a == [NotActivating EXCEPT !.step = step]
           IN  /\ DOMAIN a = ActivationFields /\ a.step = step /\ a.changed = {}
               /\ a.unit \in Units /\ a.oldUnit \in Units /\ DOMAIN a.oldRuntime \subseteq Settings
  BY DEF NotActivating, ActivationFields, Units

(* and while it undoes what it changed.                                    *)
LEMMA AfterUndoes ==
    ASSUME NEW changed
    PROVE  /\ DOMAIN Undoes(changed) = ActivationFields /\ Undoes(changed).step = "undo"
           /\ Undoes(changed).unit \in Units /\ Undoes(changed).oldUnit = activation.oldUnit
           /\ Undoes(changed).oldRuntime = activation.oldRuntime /\ Undoes(changed).changed = changed
  BY DEF Undoes, NotActivating, ActivationFields, Units

(* A step of the script that leaves files and units alone, up to "written". *)
LEMMA GoingOn ==
    ASSUME ReleaseInv, activation'.step \in Trying \ {"prepared", "compared", "up", "looked"},
           DOMAIN activation' = ActivationFields,
           activation.step \in Trying, activation.step \in {"prepared", "kept"} => activation'.step = "kept",
           activation'.changed = activation.changed, activation'.oldUnit = activation.oldUnit,
           activation'.unit \in Units, DOMAIN activation'.oldRuntime \subseteq Settings, OnlyScript
    PROVE  ReleaseInv'
  <1>1. EnvironmentOK' /\ UnitsOK' /\ ServiceOK'
    BY DEF ReleaseInv, EnvironmentOK, UnitsOK, ServiceOK, OnlyScript
  <1>2. ActivationOK'
    BY DEF ReleaseInv, ActivationOK
  <1>3. UnitsFollow' /\ RuntimeFollows' /\ ProcessFollows'
    BY DEF ReleaseInv, UnitsFollow, RuntimeFollows, ProcessFollows, OnlyScript, Trying
  <1> QED BY <1>1, <1>2, <1>3 DEF ReleaseInv

(* The script gives up before anything is undone.                           *)
LEMMA GivesUp ==
    ASSUME ReleaseInv, activation.step \in Trying,
           NEW changed \in SUBSET {"dropIn", "runtime", "restart"},
           changed \cap {"dropIn", "runtime"} = activation.changed \cap {"dropIn", "runtime"},
           "restart" \in changed => "dropIn" \in changed,
           activation' = Undoes(changed), UNCHANGED <<dropIn, loadedUnit>>
    PROVE  ActivationOK' /\ UnitsOK' /\ UnitsFollow' /\ RuntimeFollows' /\ ProcessFollows'
  <1>1. ActivationOK' /\ UnitsOK'
    <2>1. /\ DOMAIN activation' = ActivationFields /\ activation'.step = "undo" /\ activation'.changed = changed
          /\ activation'.unit \in Units /\ activation'.oldUnit = activation.oldUnit
          /\ activation'.oldRuntime = activation.oldRuntime
      BY AfterUndoes
    <2>2. activation.oldUnit \in Units /\ DOMAIN activation.oldRuntime \subseteq Settings /\ UnitsOK
      BY DEF ReleaseInv, ActivationOK
    <2> QED BY <2>1, <2>2 DEF ActivationOK, UnitsOK, Undoing
  <1>2. UnitsFollow' /\ RuntimeFollows' /\ ProcessFollows'
    BY AfterUndoes DEF ReleaseInv, UnitsFollow, RuntimeFollows, ProcessFollows, Trying
  <1> QED BY <1>1, <1>2

(* The script ends, and says nothing of what it left.                       *)
LEMMA EndsSilently ==
    ASSUME ReleaseInv, NEW step \in {"killed", "stuck"},
           activation' = [NotActivating EXCEPT !.step = step], OnlyScript
    PROVE  ReleaseInv'
  <1>1. EnvironmentOK' /\ UnitsOK' /\ ServiceOK'
    BY DEF ReleaseInv, EnvironmentOK, UnitsOK, ServiceOK, OnlyScript
  <1>2. ActivationOK'
    BY AfterNothing DEF ActivationOK, Over
  <1>3. UnitsFollow' /\ RuntimeFollows' /\ ProcessFollows'
    BY AfterNothing DEF UnitsFollow, RuntimeFollows, ProcessFollows, Trying, Undoing
  <1> QED BY <1>1, <1>2, <1>3 DEF ReleaseInv

-----------------------------------------------------------------------------
(* Every state of an activation satisfies ReleaseInv.                       *)
THEOREM ReleaseInvariant == ReleaseSpec => []ReleaseInv
<1>1. ReleaseInit => ReleaseInv
  <2> SUFFICES ASSUME ReleaseInit PROVE ReleaseInv
    OBVIOUS
  <2>1. EnvironmentOK
    <3>1. PICK r \in FirstRuntimes : envFiles = [f \in EnvironmentFiles |-> IF f = "runtime" THEN r ELSE <<>>]
      BY DEF ReleaseInit
    <3>2. DOMAIN r \subseteq Settings /\ DOMAIN <<>> \subseteq Settings
      BY ReleaseAssumption
    <3>3. \A f \in EnvironmentFiles : DOMAIN envFiles[f] \subseteq Settings
      BY <3>1, <3>2
    <3> QED BY <3>1, <3>3, ReleaseAssumption DEF ReleaseInit, EnvironmentOK
  <2>2. UnitsOK
    BY DEF ReleaseInit, UnitsOK, Units
  <2>3. ServiceOK
    <3>1. DOMAIN Merged(FirstUnit, envFiles) \subseteq Settings
      BY <2>1, MergedNames
    <3>2. 1 \in 0..MaxServiceStarts
      BY ReleaseAssumption
    <3> QED BY <3>1, <3>2 DEF ReleaseInit, ServiceOK
  <2>4. activation.step = "none" /\ activation.changed = {} /\ ActivationOK
    BY DEF ReleaseInit, NotActivating, ActivationOK, ActivationFields, Over, Units
  <2>5. UnitsFollow /\ RuntimeFollows /\ ProcessFollows
    BY <2>4 DEF UnitsFollow, RuntimeFollows, ProcessFollows, Trying, Undoing
  <2> QED BY <2>1, <2>2, <2>3, <2>4, <2>5 DEF ReleaseInv
<1>2. ReleaseInv /\ [ReleaseNext]_releaseVars => ReleaseInv'
  <2> SUFFICES ASSUME ReleaseInv, [ReleaseNext]_releaseVars PROVE ReleaseInv'
    OBVIOUS
  <2>0. EnvironmentOK /\ UnitsOK /\ ServiceOK /\ ActivationOK /\ UnitsFollow /\ RuntimeFollows /\ ProcessFollows
    BY DEF ReleaseInv
  <2>E. UNCHANGED <<envFiles, manager, edits>> => EnvironmentOK'
    BY <2>0 DEF EnvironmentOK
  <2>P. UNCHANGED service => ServiceOK'
    BY <2>0 DEF ServiceOK
  <2>1. ASSUME NEW f \in {"mail-send", "hold"}, FileEdited(f) PROVE ReleaseInv'
    <3>1. PICK fragment \in Fragments : envFiles' = [envFiles EXCEPT ![f] = fragment]
      BY <2>1 DEF FileEdited
    <3>2. DOMAIN fragment \subseteq Settings /\ f \in EnvironmentFiles /\ "runtime" \in EnvironmentFiles /\ f # "runtime"
      BY ReleaseAssumption DEF EnvironmentFiles
    <3>3. EnvironmentOK' /\ envFiles'["runtime"] = envFiles["runtime"]
      BY <2>0, <2>1, <3>1, <3>2, EditedFiles DEF FileEdited
    <3> QED BY <2>1, <3>3, EditsAreHarmless DEF FileEdited, NamesRelease
  <2>2. CASE RuntimeEdited
    <3>1. PICK fragment \in Fragments :
            envFiles' = [envFiles EXCEPT !["runtime"] = Above(fragment, envFiles["runtime"])]
      BY <2>2 DEF RuntimeEdited
    <3> DEFINE before == envFiles["runtime"]
               after == Above(fragment, before)
    <3>2. DOMAIN fragment \subseteq Settings /\ "commit" \notin DOMAIN fragment /\ "runtime" \in EnvironmentFiles
      BY ReleaseAssumption DEF EnvironmentFiles
    <3>3. DOMAIN before \subseteq Settings
      BY <2>0, <3>2 DEF EnvironmentOK
    <3>4. DOMAIN after \subseteq Settings
      BY <3>2, <3>3, AboveWithin
    <3>5. NamesRelease(after) => NamesRelease(before)
      BY <3>2 DEF NamesRelease, HasValue, Above
    <3> HIDE DEF after
    <3>6. EnvironmentOK' /\ envFiles'["runtime"] = after
      BY <2>0, <2>2, <3>1, <3>2, <3>4, EditedFiles DEF RuntimeEdited, after
    <3>7. NamesRelease(envFiles["runtime"])' => NamesRelease(envFiles["runtime"])
      BY <3>5, <3>6 DEF NamesRelease, HasValue
    <3> QED BY <2>2, <3>6, <3>7, EditsAreHarmless DEF RuntimeEdited
  <2>3. CASE ManagerChanges
    <3>1. EnvironmentOK'
      BY <2>0, <2>3, ReleaseAssumption DEF ManagerChanges, Edited, EnvironmentOK
    <3> QED BY <2>3, <3>1, EditsAreHarmless DEF ManagerChanges, NamesRelease
  <2>4. CASE ServiceFails
    <3>1. UNCHANGED <<envFiles, manager, dropIn, loadedUnit, activation, edits>>
      BY <2>4 DEF ServiceFails
    <3>2. /\ ServiceOK'
          /\ service'.up => service'.pid = service.pid + 1 /\ service'.root = loadedUnit.root
          /\ service.pid \in Nat /\ service.pid <= service'.pid
      BY <2>0, <2>4, StartedProcess DEF ServiceFails
    <3>3. service'.pid \in Nat
      BY <3>2, ReleaseAssumption DEF ServiceOK
    <3>4. ProcessFollows'
      <4>1. activation.step \in {"up", "looked", "active"} =>
              activation.pid \in Nat /\ activation.pid <= service'.pid /\ (service'.up => service'.pid # activation.pid)
        BY <2>0, <3>2, <3>3 DEF ProcessFollows
      <4>2. activation.step = "failed" /\ "restart" \in activation.changed /\ service'.up
              => service'.root = activation.oldUnit.root
        BY <2>0, <3>2 DEF UnitsFollow
      <4> QED BY <3>1, <4>1, <4>2 DEF ProcessFollows
    <3>5. RuntimeFollows'
      BY <2>0, <3>1 DEF RuntimeFollows, NamesRelease
    <3> QED BY <2>E, <3>1, <3>2, <3>4, <3>5, BesideTheScript DEF ReleaseInv
  <2>5. CASE Prepare
    <3> DEFINE unit == PreparedUnit(envFiles)
    <3>1. unit \in Units
      BY <2>0 DEF PreparedUnit, Units, EnvironmentOK, DonorNames
    <3> HIDE DEF unit
    <3>2. activation' = [NotActivating EXCEPT !.step = "prepared", !.files = envFiles, !.unit = unit, !.oldUnit = dropIn]
      BY <2>5 DEF Prepare, unit
    <3>3. /\ DOMAIN activation' = ActivationFields /\ activation'.step = "prepared"
          /\ activation'.changed = {} /\ activation'.unit = unit /\ activation'.oldUnit = dropIn
          /\ DOMAIN activation'.oldRuntime \subseteq Settings
      BY <3>2 DEF NotActivating, ActivationFields
    <3>4. UNCHANGED <<envFiles, manager, dropIn, loadedUnit, service, edits>>
      BY <2>5 DEF Prepare, OnlyScript
    <3>5. ActivationOK'
      BY <2>0, <3>1, <3>3 DEF ActivationOK, UnitsOK, Trying
    <3>6. UnitsOK' /\ UnitsFollow' /\ RuntimeFollows' /\ ProcessFollows'
      BY <2>0, <3>3, <3>4 DEF UnitsOK, UnitsFollow, RuntimeFollows, ProcessFollows, Trying
    <3> QED BY <2>E, <2>P, <3>4, <3>5, <3>6 DEF ReleaseInv
  <2>6. CASE KeepOriginal
    <3>1. activation' = [activation EXCEPT !.step = "kept", !.oldRuntime = envFiles["runtime"]]
      BY <2>6 DEF KeepOriginal
    <3>2. /\ DOMAIN activation' = ActivationFields /\ activation'.step = "kept"
          /\ activation'.changed = activation.changed /\ activation'.unit = activation.unit
          /\ activation'.oldUnit = activation.oldUnit /\ activation'.oldRuntime = envFiles["runtime"]
      BY <2>0, <3>1 DEF ActivationOK, ActivationFields
    <3>3. DOMAIN envFiles["runtime"] \subseteq Settings
      BY <2>0 DEF EnvironmentOK, EnvironmentFiles
    <3>4. activation.step = "prepared" /\ activation.unit \in Units /\ OnlyScript
      BY <2>0, <2>6 DEF KeepOriginal, AtStep, ActivationOK
    <3> QED BY <3>2, <3>3, <3>4, GoingOn DEF Trying
  <2>7. CASE ReplaceDropIn
    <3>1. activation' = [activation EXCEPT !.step = "replaced", !.changed = {"dropIn"}]
      BY <2>7 DEF ReplaceDropIn
    <3>2. /\ DOMAIN activation' = ActivationFields /\ activation'.step = "replaced"
          /\ activation'.changed = {"dropIn"} /\ activation'.unit = activation.unit
          /\ activation'.oldUnit = activation.oldUnit /\ activation'.oldRuntime = activation.oldRuntime
      BY <2>0, <3>1 DEF ActivationOK, ActivationFields
    <3>3. dropIn' = activation.unit /\ UNCHANGED <<envFiles, manager, loadedUnit, service, edits>>
      BY <2>7 DEF ReplaceDropIn
    <3>4. ActivationOK' /\ UnitsOK'
      BY <2>0, <3>2, <3>3 DEF ActivationOK, UnitsOK, Trying
    <3>5. UnitsFollow' /\ RuntimeFollows' /\ ProcessFollows'
      BY <3>2 DEF UnitsFollow, RuntimeFollows, ProcessFollows, Trying, Undoing
    <3> QED BY <2>E, <2>P, <3>3, <3>4, <3>5 DEF ReleaseInv
  <2>8. CASE Reload("replaced", "reloaded")
    <3>1. /\ DOMAIN activation' = ActivationFields /\ activation'.step = "reloaded"
          /\ activation'.changed = activation.changed /\ activation'.unit = activation.unit
          /\ activation'.oldUnit = activation.oldUnit /\ activation'.oldRuntime = activation.oldRuntime
          /\ activation.step = "replaced"
      BY <2>0, <2>8, AfterGoing DEF Reload, AtStep
    <3>2. loadedUnit' = dropIn /\ UNCHANGED <<envFiles, manager, dropIn, service, edits>>
      BY <2>8 DEF Reload
    <3>3. ActivationOK' /\ UnitsOK'
      BY <2>0, <3>1, <3>2 DEF ActivationOK, UnitsOK, Trying
    <3>4. UnitsFollow' /\ RuntimeFollows' /\ ProcessFollows'
      BY <2>0, <3>1, <3>2 DEF UnitsFollow, RuntimeFollows, ProcessFollows, Trying, Undoing
    <3> QED BY <2>E, <2>P, <3>2, <3>3, <3>4 DEF ReleaseInv
  <2>9. CASE GrantCommit
    <3>1. /\ DOMAIN activation' = ActivationFields /\ activation'.step = "granted"
          /\ activation'.changed = activation.changed /\ activation'.unit = activation.unit
          /\ activation'.oldUnit = activation.oldUnit /\ activation'.oldRuntime = activation.oldRuntime
      BY <2>0, <2>9, AfterGoing DEF GrantCommit
    <3>2. activation.step = "reloaded" /\ OnlyScript /\ activation.unit \in Units
          /\ DOMAIN activation.oldRuntime \subseteq Settings
      BY <2>0, <2>9 DEF GrantCommit, AtStep, ActivationOK
    <3> QED BY <3>1, <3>2, GoingOn DEF Trying
  <2>10. CASE CompareRuntime
    <3>1. /\ DOMAIN activation' = ActivationFields /\ activation'.step = "compared"
          /\ activation'.files = activation.files
          /\ activation'.changed = activation.changed /\ activation'.unit = activation.unit
          /\ activation'.oldUnit = activation.oldUnit /\ activation'.oldRuntime = activation.oldRuntime
      BY <2>0, <2>10, AfterGoing DEF CompareRuntime
    <3>2. activation.step = "granted" /\ UNCHANGED <<envFiles, manager, dropIn, loadedUnit, service, edits>>
          /\ envFiles["runtime"] = activation.files["runtime"]
      BY <2>10 DEF CompareRuntime, AtStep, OnlyScript
    <3>3. DOMAIN envFiles["runtime"] \subseteq Settings
      BY <2>0 DEF EnvironmentOK, EnvironmentFiles
    <3>4. ActivationOK' /\ UnitsOK'
      BY <2>0, <3>1, <3>2, <3>3 DEF ActivationOK, UnitsOK, Trying
    <3>5. UnitsFollow' /\ RuntimeFollows' /\ ProcessFollows'
      BY <2>0, <3>1, <3>2 DEF UnitsFollow, RuntimeFollows, ProcessFollows, Trying, Undoing
    <3> QED BY <2>E, <2>P, <3>2, <3>4, <3>5 DEF ReleaseInv
  <2>11. CASE WriteRuntime
    <3> DEFINE changed == activation.changed \cup {"runtime"}
               runtime == Rewritten(activation.files["runtime"])
    <3>1. activation' = [activation EXCEPT !.step = "written", !.changed = changed]
      BY <2>11 DEF WriteRuntime
    <3>2. /\ DOMAIN activation' = ActivationFields /\ activation'.step = "written"
          /\ activation'.changed = changed /\ activation'.unit = activation.unit
          /\ activation'.oldUnit = activation.oldUnit /\ activation'.oldRuntime = activation.oldRuntime
      BY <2>0, <3>1 DEF ActivationOK, ActivationFields
    <3>3. activation.step = "compared" /\ envFiles' = [envFiles EXCEPT !["runtime"] = runtime]
          /\ UNCHANGED <<manager, dropIn, loadedUnit, service, edits>>
      BY <2>11 DEF WriteRuntime, AtStep
    <3>4. DOMAIN runtime \subseteq Settings
      <4>1. DOMAIN [n \in {"commit", "actions"} |-> IF n = "commit" THEN Release ELSE "0"] \subseteq Settings
        BY DEF Settings
      <4>2. DOMAIN activation.files["runtime"] \subseteq Settings
        BY <2>0, <3>3 DEF ActivationOK
      <4> QED BY <4>1, <4>2, AboveWithin DEF Rewritten
    <3> HIDE DEF runtime
    <3>5. EnvironmentOK'
      BY <2>0, <3>3, <3>4 DEF EnvironmentOK
    <3>6. ActivationOK' /\ UnitsOK'
      BY <2>0, <3>2, <3>3 DEF ActivationOK, UnitsOK, Trying
    <3>7. UnitsFollow' /\ RuntimeFollows' /\ ProcessFollows'
      BY <2>0, <3>2, <3>3 DEF UnitsFollow, RuntimeFollows, ProcessFollows, Trying, Undoing
    <3> QED BY <2>P, <3>3, <3>5, <3>6, <3>7 DEF ReleaseInv
  <2>12. CASE ProveEffective
    <3>1. activation' = [activation EXCEPT !.step = "proven", !.expected = Merged(loadedUnit, envFiles)]
      BY <2>12 DEF ProveEffective
    <3>2. /\ DOMAIN activation' = ActivationFields /\ activation'.step = "proven"
          /\ activation'.changed = activation.changed /\ activation'.unit = activation.unit
          /\ activation'.oldUnit = activation.oldUnit /\ activation'.oldRuntime = activation.oldRuntime
      BY <2>0, <3>1 DEF ActivationOK, ActivationFields
    <3>3. activation.step = "written" /\ OnlyScript /\ activation.unit \in Units
          /\ DOMAIN activation.oldRuntime \subseteq Settings
      BY <2>0, <2>12 DEF ProveEffective, AtStep, ActivationOK
    <3> QED BY <3>2, <3>3, GoingOn DEF Trying
  <2>13. CASE RestartRelease
    <3> DEFINE changed == activation.changed \cup {"restart"}
    <3>1. activation.step = "proven" /\ UNCHANGED <<envFiles, manager, dropIn, loadedUnit, edits>>
      BY <2>13 DEF RestartRelease, AtStep
    <3>2. ServiceOK'
      BY <2>0, <2>13, StartedProcess DEF RestartRelease
    <3>3. changed \subseteq {"dropIn", "runtime", "restart"} /\ "dropIn" \in changed
      BY <2>0, <3>1 DEF ActivationOK, UnitsFollow, Trying
    <3>4. CASE service'.up
      <4>1. activation' = [activation EXCEPT !.step = "restarted", !.changed = changed]
        BY <2>13, <3>4 DEF RestartRelease
      <4>2. /\ DOMAIN activation' = ActivationFields /\ activation'.step = "restarted"
            /\ activation'.changed = changed /\ activation'.unit = activation.unit
            /\ activation'.oldUnit = activation.oldUnit /\ activation'.oldRuntime = activation.oldRuntime
        BY <2>0, <4>1 DEF ActivationOK, ActivationFields
      <4> HIDE DEF changed
      <4>3. ActivationOK' /\ UnitsOK'
        BY <2>0, <3>1, <3>3, <4>2 DEF ActivationOK, UnitsOK, Trying
      <4>4. UnitsFollow' /\ RuntimeFollows' /\ ProcessFollows'
        BY <3>3, <4>2 DEF UnitsFollow, RuntimeFollows, ProcessFollows, Trying, Undoing
      <4> QED BY <2>E, <3>1, <3>2, <4>3, <4>4 DEF ReleaseInv
    <3>5. CASE ~service'.up
      <4>1. activation' = Undoes(changed)
        BY <2>13, <3>5 DEF RestartRelease
      <4>2. activation.step \in Trying
        BY <3>1 DEF Trying
      <4>3. ActivationOK' /\ UnitsOK' /\ UnitsFollow' /\ RuntimeFollows' /\ ProcessFollows'
        BY <3>1, <3>3, <4>1, <4>2, GivesUp
      <4> QED BY <2>E, <3>1, <3>2, <4>3 DEF ReleaseInv
    <3> QED BY <3>4, <3>5
  <2>14. CASE BecomesHealthy
    <3>1. activation' = [activation EXCEPT !.step = "up", !.pid = service.pid]
      BY <2>14 DEF BecomesHealthy
    <3>2. /\ DOMAIN activation' = ActivationFields /\ activation'.step = "up" /\ activation'.pid = service.pid
          /\ activation'.changed = activation.changed /\ activation'.unit = activation.unit
          /\ activation'.oldUnit = activation.oldUnit /\ activation'.oldRuntime = activation.oldRuntime
      BY <2>0, <3>1 DEF ActivationOK, ActivationFields
    <3>3. activation.step = "restarted" /\ UNCHANGED <<envFiles, manager, dropIn, loadedUnit, service, edits>>
      BY <2>14 DEF BecomesHealthy, AtStep, OnlyScript
    <3>4. service.pid \in Nat /\ service.pid <= service.pid
      BY <2>0, ReleaseAssumption DEF ServiceOK
    <3>5. ActivationOK' /\ UnitsOK'
      BY <2>0, <3>2, <3>3 DEF ActivationOK, UnitsOK, Trying
    <3>6. UnitsFollow' /\ RuntimeFollows' /\ ProcessFollows'
      BY <2>0, <3>2, <3>3, <3>4 DEF UnitsFollow, RuntimeFollows, ProcessFollows, Trying, Undoing
    <3> QED BY <2>E, <2>P, <3>3, <3>5, <3>6 DEF ReleaseInv
  <2>15. CASE LookAtProcess
    <3>1. /\ DOMAIN activation' = ActivationFields /\ activation'.step = "looked" /\ activation'.pid = activation.pid
          /\ activation'.changed = activation.changed /\ activation'.unit = activation.unit
          /\ activation'.oldUnit = activation.oldUnit /\ activation'.oldRuntime = activation.oldRuntime
      BY <2>0, <2>15, AfterGoing DEF LookAtProcess
    <3>2. activation.step = "up" /\ UNCHANGED <<envFiles, manager, dropIn, loadedUnit, service, edits>>
          /\ service.root = Release /\ ReleaseEnvironment(service.env)
      BY <2>15 DEF LookAtProcess, AtStep, OnlyScript, IsRelease
    <3>3. ActivationOK' /\ UnitsOK'
      BY <2>0, <3>1, <3>2 DEF ActivationOK, UnitsOK, Trying
    <3>4. UnitsFollow' /\ RuntimeFollows'
      BY <2>0, <3>1, <3>2 DEF UnitsFollow, RuntimeFollows, Trying, Undoing
    <3>5. service'.root = Release /\ ReleaseEnvironment(service.env)'
      BY <3>2 DEF ReleaseEnvironment, ExternalActionsDisabled, DonorComplete, HasValue
    <3>6. ProcessFollows'
      BY <2>0, <3>1, <3>2, <3>5 DEF ProcessFollows
    <3> QED BY <2>E, <2>P, <3>2, <3>3, <3>4, <3>6 DEF ReleaseInv
  <2>16. CASE FinalProof
    <3>1. activation' = [NotActivating EXCEPT !.step = "active", !.pid = activation.pid]
      BY <2>16 DEF FinalProof
    <3>2. /\ DOMAIN activation' = ActivationFields /\ activation'.step = "active" /\ activation'.pid = activation.pid
          /\ activation'.changed = {} /\ activation'.unit \in Units /\ activation'.oldUnit \in Units
          /\ DOMAIN activation'.oldRuntime \subseteq Settings
      BY <3>1 DEF NotActivating, ActivationFields, Units
    <3>3. activation.step = "looked" /\ UNCHANGED <<envFiles, manager, dropIn, loadedUnit, service, edits>>
      BY <2>16 DEF FinalProof, AtStep, OnlyScript
    <3>4. ActivationOK' /\ UnitsOK'
      BY <2>0, <3>2, <3>3 DEF ActivationOK, UnitsOK, Over
    <3>5. UnitsFollow' /\ RuntimeFollows'
      BY <3>2 DEF UnitsFollow, RuntimeFollows, Trying, Undoing
    <3>6. ProcessFollows'
      BY <2>0, <3>2, <3>3 DEF ProcessFollows, ReleaseEnvironment, ExternalActionsDisabled, DonorComplete, HasValue
    <3> QED BY <2>E, <2>P, <3>3, <3>4, <3>5, <3>6 DEF ReleaseInv
  <2>17. CASE Fails
    <3>1. activation.step \in Trying /\ activation' = Undoes(activation.changed)
          /\ UNCHANGED <<envFiles, manager, dropIn, loadedUnit, service, edits>>
      BY <2>17 DEF Fails, OnlyScript
    <3>2. activation.changed \in SUBSET {"dropIn", "runtime", "restart"}
          /\ ("restart" \in activation.changed => "dropIn" \in activation.changed)
      BY <2>0 DEF ActivationOK, UnitsFollow
    <3>3. ActivationOK' /\ UnitsOK' /\ UnitsFollow' /\ RuntimeFollows' /\ ProcessFollows'
      BY <3>1, <3>2, GivesUp
    <3> QED BY <2>E, <2>P, <3>1, <3>3 DEF ReleaseInv
  <2>18. CASE Killed \/ UndoFails
    BY <2>18, EndsSilently DEF Killed, UndoFails
  <2>19. CASE UndoRuntime
    <3>1. /\ DOMAIN activation' = ActivationFields /\ activation'.step = "runtimeUndone"
          /\ activation'.changed = activation.changed /\ activation'.unit = activation.unit
          /\ activation'.oldUnit = activation.oldUnit /\ activation'.oldRuntime = activation.oldRuntime
      BY <2>0, <2>19, AfterGoing DEF UndoRuntime
    <3>2. activation.step = "undo" /\ UNCHANGED <<manager, dropIn, loadedUnit, service, edits>>
          /\ envFiles' = IF "runtime" \in activation.changed
                         THEN [envFiles EXCEPT !["runtime"] = activation.oldRuntime] ELSE envFiles
      BY <2>19 DEF UndoRuntime, AtStep
    <3>3. EnvironmentOK' /\ ("runtime" \in activation.changed => envFiles'["runtime"] = activation.oldRuntime)
      BY <2>0, <3>2 DEF EnvironmentOK, EnvironmentFiles, ActivationOK
    <3>4. ActivationOK' /\ UnitsOK'
      BY <2>0, <3>1, <3>2 DEF ActivationOK, UnitsOK, Undoing
    <3>5. UnitsFollow' /\ ProcessFollows'
      BY <2>0, <3>1, <3>2 DEF UnitsFollow, ProcessFollows, Trying, Undoing
    <3>6. RuntimeFollows'
      BY <3>1, <3>3 DEF RuntimeFollows, NamesRelease, HasValue
    <3> QED BY <2>P, <3>2, <3>3, <3>4, <3>5, <3>6 DEF ReleaseInv
  <2>20. CASE UndoDropIn
    <3>1. PICK step \in {"dropInUndone", "undone"} :
            /\ GoesTo(step) /\ dropIn' = IF "dropIn" \in activation.changed THEN activation.oldUnit ELSE dropIn
            /\ step = "undone" => "dropIn" \notin activation.changed
      BY <2>20 DEF UndoDropIn
    <3>2. /\ DOMAIN activation' = ActivationFields /\ activation'.step = step
          /\ activation'.changed = activation.changed /\ activation'.unit = activation.unit
          /\ activation'.oldUnit = activation.oldUnit /\ activation'.oldRuntime = activation.oldRuntime
      BY <2>0, <3>1, AfterGoing
    <3>3. activation.step = "runtimeUndone" /\ UNCHANGED <<envFiles, manager, loadedUnit, service, edits>>
      BY <2>20 DEF UndoDropIn, AtStep
    <3>4. ActivationOK' /\ UnitsOK'
      BY <2>0, <3>1, <3>2, <3>3 DEF ActivationOK, UnitsOK, Undoing
    <3>5. dropIn' = activation.oldUnit
      BY <2>0, <3>1, <3>3 DEF UnitsFollow, Undoing
    <3>6. UnitsFollow' /\ ProcessFollows'
      BY <2>0, <3>1, <3>2, <3>3, <3>5 DEF UnitsFollow, ProcessFollows, Trying, Undoing
    <3>7. RuntimeFollows'
      BY <2>0, <3>2, <3>3 DEF RuntimeFollows, NamesRelease
    <3> QED BY <2>E, <2>P, <3>3, <3>4, <3>6, <3>7 DEF ReleaseInv
  <2>21. CASE Reload("dropInUndone", "undone")
    <3>1. /\ DOMAIN activation' = ActivationFields /\ activation'.step = "undone"
          /\ activation'.changed = activation.changed /\ activation'.unit = activation.unit
          /\ activation'.oldUnit = activation.oldUnit /\ activation'.oldRuntime = activation.oldRuntime
          /\ activation.step = "dropInUndone"
      BY <2>0, <2>21, AfterGoing DEF Reload, AtStep
    <3>2. loadedUnit' = dropIn /\ UNCHANGED <<envFiles, manager, dropIn, service, edits>>
      BY <2>21 DEF Reload
    <3>3. ActivationOK' /\ UnitsOK'
      BY <2>0, <3>1, <3>2 DEF ActivationOK, UnitsOK, Undoing
    <3>4. UnitsFollow' /\ RuntimeFollows' /\ ProcessFollows'
      BY <2>0, <3>1, <3>2 DEF UnitsFollow, RuntimeFollows, ProcessFollows, Trying, Undoing, NamesRelease
    <3> QED BY <2>E, <2>P, <3>2, <3>3, <3>4 DEF ReleaseInv
  <2>22. CASE ProveRollback
    <3>1. PICK step \in {"failed", "safe", "manual"} :
            GoesTo(step) /\ (step = "failed" => "restart" \notin activation.changed)
      BY <2>22 DEF ProveRollback
    <3>2. /\ DOMAIN activation' = ActivationFields /\ activation'.step = step
          /\ activation'.changed = activation.changed /\ activation'.unit = activation.unit
          /\ activation'.oldUnit = activation.oldUnit /\ activation'.oldRuntime = activation.oldRuntime
      BY <2>0, <3>1, AfterGoing
    <3>3. activation.step = "undone" /\ UNCHANGED <<envFiles, manager, dropIn, loadedUnit, service, edits>>
      BY <2>22 DEF ProveRollback, AtStep, OnlyScript
    <3>4. ActivationOK' /\ UnitsOK'
      BY <2>0, <3>2, <3>3 DEF ActivationOK, UnitsOK, Undoing, Over
    <3>5. UnitsFollow' /\ RuntimeFollows' /\ ProcessFollows'
      BY <2>0, <3>1, <3>2, <3>3 DEF UnitsFollow, RuntimeFollows, ProcessFollows, Trying, Undoing, NamesRelease
    <3> QED BY <2>E, <2>P, <3>3, <3>4, <3>5 DEF ReleaseInv
  <2>23. CASE RestartRestored
    <3>1. PICK step \in {"failed", "stuck"} : GoesTo(step)
      BY <2>23 DEF RestartRestored
    <3>2. /\ DOMAIN activation' = ActivationFields /\ activation'.step = step
          /\ activation'.changed = activation.changed /\ activation'.unit = activation.unit
          /\ activation'.oldUnit = activation.oldUnit /\ activation'.oldRuntime = activation.oldRuntime
      BY <2>0, <3>1, AfterGoing
    <3>3. activation.step = "safe" /\ UNCHANGED <<envFiles, manager, dropIn, loadedUnit, edits>>
      BY <2>23 DEF RestartRestored, AtStep
    <3>4. ServiceOK' /\ (service'.up => service'.root = loadedUnit.root)
      BY <2>0, <2>23, StartedProcess DEF RestartRestored
    <3>5. ActivationOK' /\ UnitsOK'
      BY <2>0, <3>2, <3>3 DEF ActivationOK, UnitsOK, Over
    <3>6. UnitsFollow' /\ RuntimeFollows'
      BY <2>0, <3>1, <3>2, <3>3 DEF UnitsFollow, RuntimeFollows, Trying, Undoing, NamesRelease
    <3>7. ProcessFollows'
      BY <2>0, <3>1, <3>2, <3>3, <3>4 DEF UnitsFollow, ProcessFollows
    <3> QED BY <2>E, <3>3, <3>4, <3>5, <3>6, <3>7 DEF ReleaseInv
  <2>24. CASE UNCHANGED releaseVars
    <3>1. UNCHANGED <<envFiles, manager, dropIn, loadedUnit, service, activation, edits>>
      BY <2>24 DEF releaseVars
    <3>2. EnvironmentOK'
      BY <2>E, <3>1
    <3> QED BY <3>1, <3>2, EditsAreHarmless DEF NamesRelease
  <2> QED
    BY <2>1, <2>2, <2>3, <2>4, <2>5, <2>6, <2>7, <2>8, <2>9, <2>10, <2>11, <2>12, <2>13, <2>14, <2>15, <2>16,
       <2>17, <2>18, <2>19, <2>20, <2>21, <2>22, <2>23, <2>24 DEF ReleaseNext
<1> QED
  BY <1>1, <1>2, PTL DEF ReleaseSpec

(* The files, the units, the service and the script have their types.       *)
THEOREM ReleaseTypeCorrect == ReleaseSpec => []ReleaseTypeOK
<1>1. ReleaseInv => ReleaseTypeOK
  BY DEF ReleaseInv, EnvironmentOK, UnitsOK, ServiceOK, ActivationOK, ReleaseTypeOK
<1> QED
  BY <1>1, ReleaseInvariant, PTL

(* However an activation ends, what runs is the release that was proven or  *)
(* what was there before, for any files, edits and restarts.                *)
THEOREM ActivationIsProven == ReleaseSpec => []EndsProvenOrRestored
<1>1. ReleaseInv => EndsProvenOrRestored
  BY DEF ReleaseInv, UnitsFollow, RuntimeFollows, NamesRelease, ProcessFollows, EndsProvenOrRestored, AtStep
<1> QED
  BY <1>1, ReleaseInvariant, PTL

-----------------------------------------------------------------------------
(* The sessions.                                                            *)
(* The sessions in memory.                                                  *)
Held == Range(memory)
RowOf(e) == [id |-> e.id, role |-> e.role, key |-> accessKey[e.role]]
OldKeys == legacyFile.held => legacyFile.key < accessKey["operator"]

SessionTypes == SessionsTypeOK /\ memory \in Seq(Entries)

(* Every id was given, and to one session.                                  *)
OneSessionEach ==
    /\ loggedOut \subseteq 0..logins
    /\ \A e \in Held : e.id <= logins /\ (e.id = 0 => e.role = "operator")
    /\ \A w \in rows : w.id <= logins /\ (w.id = 0 => w.role = "operator")
    /\ \A e, f \in Held : e.id = f.id => e = f
    /\ \A v, w \in rows : v.id = w.id => v = w
    /\ \A e \in Held, w \in rows : e.id = w.id => e.role = w.role

(* A running server has read and written only what is of the present keys.  *)
OfPresentKeys ==
    /\ serving # "up" => memory = << >>
    /\ serving = "up" => /\ \A e \in Held : accessKey[e.role] # NoKey
                         /\ \A w \in rows : w.key = accessKey[w.role]
                         /\ OldKeys

(* The session of the old file is accepted no longer than its key.          *)
OldFileIsSpent ==
    /\ legacyFile.key <= accessKey["operator"]
    /\ \A w \in rows : w.role = "operator" => w.key <= accessKey["operator"]
    /\ \A w \in rows : w.id = 0 /\ legacyFile.held => legacyFile.key <= w.key
    /\ 0 \in loggedOut => OldKeys

RowsAreLive == \A w \in rows : w.id \notin loggedOut

SessionInv == SessionTypes /\ OneSessionEach /\ OfPresentKeys /\ OldFileIsSpent /\ RowsAreLive /\ LoggedOutStaysOut

(* The ids of the sessions in memory.                                      *)
LEMMA HeldIs == SessionsIn(memory) = {e.id : e \in Held}
  BY DEF SessionsIn, Held, Range

(* A list of sessions holds sessions.                                      *)
LEMMA HeldType == SessionTypes => Held \subseteq Entries
  BY DEF SessionTypes, SessionsTypeOK, Held, Range

(* Keys are numbered, and a missing key is below all.                      *)
LEMMA KeysAreNumbers ==
    SessionTypes => /\ accessKey["operator"] \in Nat /\ legacyFile.key \in Nat
                    /\ \A w \in rows : w.key \in Nat
<1> SUFFICES ASSUME SessionTypes PROVE accessKey["operator"] \in Nat /\ legacyFile.key \in Nat
                                      /\ \A w \in rows : w.key \in Nat
  OBVIOUS
<1>1. AccessKeys \subseteq Nat /\ NoKey \in Nat
  BY SessionsAssumption DEF AccessKeys, NoKey
<1>2. accessKey["operator"] \in AccessKeys \cup {NoKey}
  BY DEF SessionTypes, SessionsTypeOK, RoleSet
<1>3. legacyFile.key \in AccessKeys \cup {NoKey}
  <2>1. CASE legacyFile = NoLegacyFile
    BY <2>1 DEF NoLegacyFile
  <2>2. CASE legacyFile \in [key : AccessKeys, held : {TRUE}]
    BY <2>2
  <2> QED
    BY <2>1, <2>2 DEF SessionTypes, SessionsTypeOK
<1>4. \A w \in rows : w.key \in AccessKeys
  BY DEF SessionTypes, SessionsTypeOK
<1> QED
  BY <1>1, <1>2, <1>3, <1>4

(* What a change of the running server leaves: memory holds some of what it *)
(* held and x, the rows are old ones or of such sessions, and what was      *)
(* logged out is in neither.                                                *)
LEMMA ServingKeeps ==
    ASSUME SessionInv, serving = "up", NEW X \in SUBSET Entries,
           \/ X = {} /\ logins' = logins
           \/ /\ logins < MaxLogins /\ logins' = logins + 1
              /\ \E r \in RoleSet : accessKey[r] # NoKey /\ X = {[id |-> logins + 1, role |-> r]},
           memory' \in Seq(Entries), Len(memory') <= MaxSessions, Held' \subseteq Held \cup X,
           \A w \in rows' : w \in rows \/ \E e \in Held \cup X : w = RowOf(e),
           aged' \subseteq Ids, UNCHANGED <<serving, accessKey, legacyFile>>,
           \A id \in loggedOut' : id \in loggedOut \/ \E e \in Held : id = e.id,
           \A w \in rows' : w.id \in loggedOut' => w.id \in loggedOut,
           \A e \in Held' : e.id \in loggedOut' => e.id \in loggedOut
    PROVE  SessionInv'
<1> DEFINE Y == Held \cup X
<1> USE DEF SessionInv
<1>1. logins' \in 0..MaxLogins /\ logins <= logins' /\ logins \in Nat
  BY SessionsAssumption DEF SessionTypes, SessionsTypeOK
<1>2. /\ \A e \in Y : e \in Entries /\ e.id <= logins' /\ (e.id = 0 => e.role = "operator") /\ accessKey[e.role] # NoKey
      /\ \A e \in X : e.id > logins
      /\ \A e, f \in Y : e.id = f.id => e = f
  <2>1. \A e \in Held : e \in Entries /\ e.id <= logins /\ e.id \in Nat
    BY HeldType DEF OneSessionEach, Entries, Ids
  <2>2. \A e \in X : e.id > logins /\ e.id <= logins' /\ accessKey[e.role] # NoKey /\ e.id \in Nat
    BY <1>1
  <2>3. \A e, f \in X : e = f
    OBVIOUS
  <2>4. \A e \in Held, f \in X : e.id # f.id
    BY <1>1, <2>1, <2>2
  <2>5. \A e \in Held : e.id <= logins'
    BY <1>1, <2>1
  <2>6. \A e \in X : e.id # 0
    BY <1>1, <2>2
  <2> QED
    BY <2>1, <2>2, <2>3, <2>4, <2>5, <2>6 DEF OneSessionEach, OfPresentKeys
<1>3. \A r \in RoleSet : accessKey[r] # NoKey => accessKey[r] \in AccessKeys
  BY DEF SessionTypes, SessionsTypeOK
<1>4. \A w \in rows : w \in [id : Ids, role : RoleSet, key : AccessKeys] /\ w.id <= logins /\ w.id \in Nat
  BY DEF SessionTypes, SessionsTypeOK, OneSessionEach, Ids
<1>5. \A w \in rows' : /\ w \in [id : Ids, role : RoleSet, key : AccessKeys]
                       /\ w.key = accessKey[w.role] /\ w.id <= logins' /\ (w.id = 0 => w.role = "operator")
                       /\ \A e \in Y : e.id = w.id => e.role = w.role
  <2> SUFFICES ASSUME NEW w \in rows'
               PROVE  /\ w \in [id : Ids, role : RoleSet, key : AccessKeys]
                      /\ w.key = accessKey[w.role] /\ w.id <= logins' /\ (w.id = 0 => w.role = "operator")
                      /\ \A e \in Y : e.id = w.id => e.role = w.role
    OBVIOUS
  <2>1. CASE w \in rows
    <3>1. \A e \in X : e.id # w.id
      BY <1>1, <1>2, <1>4, <2>1
    <3>2. w.id <= logins'
      BY <1>1, <1>4, <2>1
    <3> QED
      BY <1>4, <2>1, <3>1, <3>2 DEF OneSessionEach, OfPresentKeys
  <2>2. CASE \E e \in Y : w = RowOf(e)
    <3> PICK e \in Y : w = RowOf(e)
      BY <2>2
    <3>1. w = [id |-> e.id, role |-> e.role, key |-> accessKey[e.role]]
      BY DEF RowOf
    <3>2. e.id \in Ids /\ e.role \in RoleSet
      BY <1>2 DEF Entries
    <3> HIDE DEF Y
    <3> QED
      BY <1>2, <1>3, <3>1, <3>2
  <2> QED
    BY <2>1, <2>2
<1>6. \A v, w \in rows' : v.id = w.id => v = w
  <2> SUFFICES ASSUME NEW v \in rows', NEW w \in rows', v.id = w.id PROVE v = w
    OBVIOUS
  <2>1. v.role = w.role
    <3>1. CASE \E e \in Y : v = RowOf(e)
      <4> PICK e \in Y : v = RowOf(e)
        BY <3>1
      <4>1. v.id = e.id /\ v.role = e.role
        BY DEF RowOf
      <4> QED
        BY <1>5, <4>1
    <3>2. CASE \E e \in Y : w = RowOf(e)
      <4> PICK e \in Y : w = RowOf(e)
        BY <3>2
      <4>1. w.id = e.id /\ w.role = e.role
        BY DEF RowOf
      <4> QED
        BY <1>5, <4>1
    <3>3. CASE v \in rows /\ w \in rows
      BY <3>3 DEF OneSessionEach
    <3> QED
      BY <3>1, <3>2, <3>3
  <2> QED
    BY <1>5, <2>1
<1>7. SessionTypes'
  <2>1. rows' \subseteq [id : Ids, role : RoleSet, key : AccessKeys]
    BY <1>5
  <2>2. loggedOut' \subseteq Ids
    BY HeldType DEF SessionTypes, SessionsTypeOK, Entries
  <2>3. \A i \in DOMAIN memory' : memory'[i] \in Entries
    BY ElementOfSeq, LenProperties
  <2> QED
    BY <1>1, <2>1, <2>2, <2>3 DEF SessionTypes, SessionsTypeOK
<1>8. OneSessionEach'
  <2>1. loggedOut' \subseteq 0..logins'
    <3> SUFFICES ASSUME NEW id \in loggedOut' PROVE id \in Nat /\ id <= logins'
      BY <1>1
    <3>1. CASE id \in loggedOut
      BY <1>1, <3>1 DEF OneSessionEach
    <3>2. CASE \E e \in Held : id = e.id
      BY <1>2, <3>2 DEF Entries, Ids
    <3> QED
      BY <3>1, <3>2
  <2> QED
    BY <1>2, <1>5, <1>6, <2>1 DEF OneSessionEach
<1>9. OfPresentKeys'
  BY <1>2, <1>5 DEF OfPresentKeys, OldKeys
<1>10. OldFileIsSpent'
  <2>1. accessKey["operator"] \in Nat /\ legacyFile.key \in Nat
    BY KeysAreNumbers
  <2>2. \A w \in rows' : w.role = "operator" => w.key = accessKey["operator"]
    BY <1>5
  <2>3. OldKeys
    BY DEF OfPresentKeys
  <2> QED
    BY <1>5, <2>1, <2>2, <2>3 DEF OldFileIsSpent, OldKeys
<1>11. RowsAreLive'
  <2> SUFFICES ASSUME NEW w \in rows', w.id \in loggedOut' PROVE FALSE
    BY DEF RowsAreLive
  <2>1. w.id \in loggedOut /\ w.id \in 0..logins
    BY DEF OneSessionEach
  <2>2. CASE w \in rows
    BY <2>1, <2>2 DEF RowsAreLive
  <2>3. CASE \E e \in Held \cup X : w = RowOf(e)
    <3> PICK e \in Y : w = RowOf(e)
      BY <2>3
    <3>1. e.id = w.id
      BY DEF RowOf
    <3>2. e \in Held
      BY <1>1, <1>2, <2>1, <3>1
    <3> QED
      BY <2>1, <3>1, <3>2, HeldIs DEF LoggedOutStaysOut
  <2> QED
    BY <2>2, <2>3
<1>12. LoggedOutStaysOut'
  <2> SUFFICES ASSUME NEW e \in Held', e.id \in loggedOut' PROVE FALSE
    BY DEF LoggedOutStaysOut, SessionsIn, Held, Range
  <2>1. e.id \in loggedOut /\ e.id \in 0..logins
    BY DEF OneSessionEach
  <2>2. e \in Held
    BY <1>1, <1>2, <2>1
  <2> QED
    BY <2>1, <2>2, HeldIs DEF LoggedOutStaysOut
<1> QED
  BY <1>7, <1>8, <1>9, <1>10, <1>11, <1>12

-----------------------------------------------------------------------------
(* What is left when sessions are dropped from the list.                   *)
LEMMA DroppingIs ==
    ASSUME NEW s \in Seq(Entries), NEW ids
    PROVE  /\ Dropping(s, ids) \in Seq(Entries) /\ Len(Dropping(s, ids)) <= Len(s)
           /\ Range(Dropping(s, ids)) = {e \in Range(s) : e.id \notin ids}
<1> DEFINE places == {i \in DOMAIN s : s[i].id \notin ids}
           q == Dropping(s, ids)
           N == Cardinality(places)
<1>1. places \in SUBSET DOMAIN s /\ q = AtPlaces(s, places)
  BY DEF Dropping
<1>2. q \in Seq(Entries) /\ Len(q) = N /\ N <= Len(s) /\ N \in Nat
  <2> HIDE DEF places, q
  <2> QED
    BY <1>1, AtPlacesAre
<1>3. PICK p : PlacedBy(p, q, s, places)
  <2> HIDE DEF places, q
  <2> QED
    BY <1>1, AtPlacesAre
<1>4. DOMAIN q = 1..N
  <2> HIDE DEF places, q
  <2> QED
    BY <1>2, LenProperties
<1>5. Range(q) = {s[i] : i \in places}
  <2>1. /\ p \in [1..N -> places]
        /\ \A n \in 1..N : q[n] = s[p[n]]
        /\ \A i \in places : \E n \in 1..N : p[n] = i
    BY <1>3 DEF PlacedBy
  <2> HIDE DEF places, q
  <2> QED
    BY <1>4, <2>1 DEF Range
<1>6. {s[i] : i \in places} = {e \in Range(s) : e.id \notin ids}
  BY DEF Range
<1> QED
  BY <1>2, <1>5, <1>6

(* Memory cut to its limit.                                                *)
LEMMA TrimIs ==
    ASSUME NEW s \in Seq(Entries), NEW maximum \in Nat \ {0}
    PROVE  /\ trimOldestEntry(s, maximum) \in Seq(Entries)
           /\ Len(trimOldestEntry(s, maximum)) < maximum
           /\ Range(trimOldestEntry(s, maximum)) \subseteq Range(s)
<1>1. Len(s) \in Nat /\ DOMAIN s = 1..Len(s) /\ \A i \in 1..Len(s) : s[i] \in Entries
  BY LenProperties, ElementOfSeq
<1>2. CASE Len(s) < maximum
  BY <1>2 DEF trimOldestEntry
<1>3. CASE ~(Len(s) < maximum)
  <2> DEFINE m == Len(s) - maximum + 2
             n == Len(s)
             q == SubSeq(s, m, n)
  <2>1. m \in Int /\ n \in Int /\ m >= 2 /\ \A i \in m..n : i \in 1..Len(s)
    BY <1>1, <1>3
  <2>2. /\ q \in Seq(Entries) /\ Len(q) = IF m <= n THEN n - m + 1 ELSE 0
        /\ \A i \in 1..(n - m + 1) : q[i] = s[m + i - 1]
    <3>1. \A i \in m..n : s[i] \in Entries
      BY <1>1, <2>1
    <3> HIDE DEF m, n
    <3> QED
      BY <2>1, <3>1, SubSeqProperties
  <2>3. Len(q) < maximum /\ Len(q) \in Nat
    BY <1>1, <2>1, <2>2
  <2>4. ASSUME NEW i \in DOMAIN q PROVE q[i] \in Range(s)
    <3>1. i \in 1..Len(q)
      BY <2>2, LenProperties
    <3>2. i \in 1..(n - m + 1)
      BY <1>1, <2>1, <2>2, <3>1
    <3>3. m + i - 1 \in DOMAIN s
      BY <1>1, <2>1, <3>2
    <3> QED
      BY <2>2, <3>2, <3>3 DEF Range
  <2> QED
    BY <1>3, <2>2, <2>3, <2>4 DEF trimOldestEntry, Range
<1> QED
  BY <1>2, <1>3

(* The rows as a save leaves them.                                         *)
LEMMA ReplaceIs ==
    ASSUME SessionInv, serving = "up", NEW s, NEW done \in 0..2
    PROVE  /\ \A w \in replaceAll(s, done) : w \in rows \/ \E e \in Range(s) : w = RowOf(e)
           /\ \A w \in replaceAll(s, 2) : \E e \in Range(s) : w = RowOf(e)
<1>1. \A r : \A w \in RowsOf(s, r) : \E e \in Range(s) : w = RowOf(e)
  BY DEF RowsOf, RowOf
<1>2. \A w \in replaceAll(s, done) : w \in rows \/ \E e \in Range(s) : w = RowOf(e)
  BY <1>1 DEF replaceAll
<1>3. \A w \in rows : w.role \in RoleSet /\ accessKey[w.role] # NoKey
  <2>1. \A w \in rows : w.key = accessKey[w.role] /\ w.key \in AccessKeys /\ w.role \in RoleSet
    BY DEF SessionInv, SessionTypes, SessionsTypeOK, OfPresentKeys
  <2> QED
    BY <2>1, SessionsAssumption DEF AccessKeys, NoKey
<1>4. {Roles[i] : i \in 1..2} = RoleSet
  BY DEF Roles, RoleSet
<1>5. \A w \in replaceAll(s, 2) : \E e \in Range(s) : w = RowOf(e)
  BY <1>1, <1>3, <1>4 DEF replaceAll
<1> QED
  BY <1>2, <1>5

-----------------------------------------------------------------------------
(* Each step keeps the invariant: a login,                                 *)
LEMMA CreateKeeps ==
    ASSUME SessionInv, NEW role \in RoleSet, createLocalSession(role)
    PROVE  SessionInv'
<1> DEFINE new == [id |-> logins + 1, role |-> role]
           kept == trimOldestEntry(pruneLocalSessions(memory), MaxSessions)
           added == Append(kept, new)
<1>0. memory \in Seq(Entries) /\ logins \in 0..MaxLogins /\ logins < MaxLogins
  BY DEF SessionInv, SessionTypes, SessionsTypeOK, createLocalSession
<1>1. new \in Entries
  BY <1>0, SessionsAssumption DEF Entries, Ids
<1>2. kept \in Seq(Entries) /\ Len(kept) < MaxSessions /\ Range(kept) \subseteq Held
  <2>1. /\ pruneLocalSessions(memory) \in Seq(Entries)
        /\ Range(pruneLocalSessions(memory)) \subseteq Held
    BY <1>0, DroppingIs DEF pruneLocalSessions, Held
  <2> QED
    BY <2>1, TrimIs, SessionsAssumption
<1> HIDE DEF new, kept
<1>3. /\ added \in Seq(Entries) /\ Len(added) = Len(kept) + 1
      /\ \A i \in 1..Len(kept) : added[i] = kept[i]
      /\ added[Len(kept) + 1] = new
  BY <1>1, <1>2, AppendProperties
<1>4. Len(kept) \in Nat
  BY <1>2, LenProperties
<1>5. Len(added) <= MaxSessions
  BY <1>2, <1>3, <1>4, SessionsAssumption
<1>6. Range(added) \subseteq Held \cup {new}
  <2> SUFFICES ASSUME NEW i \in DOMAIN added PROVE added[i] \in Held \cup {new}
    BY DEF Range
  <2>1. i \in 1..(Len(kept) + 1)
    BY <1>3, LenProperties
  <2>2. CASE i \in 1..Len(kept)
    BY <1>2, <1>3, <2>2, LenProperties DEF Range
  <2>3. CASE i = Len(kept) + 1
    BY <1>3, <2>3
  <2> QED
    BY <1>4, <2>1, <2>2, <2>3
<1>7. serving = "up" /\ accessKey[role] # NoKey /\ logins' = logins + 1
      /\ UNCHANGED <<serving, accessKey, legacyFile, aged, loggedOut>>
  BY DEF createLocalSession
<1>8. /\ memory' \in {kept, added}
      /\ \E done \in 0..2 : rows' = replaceAll(added, done)
  <2>1. \/ memory' = added /\ rows' = replaceAll(added, 2)
        \/ memory' = kept /\ \E done \in 0..1 : rows' = replaceAll(added, done)
    BY DEF createLocalSession, kept, new
  <2> HIDE DEF added
  <2>2. \A done \in 0..1 : done \in 0..2
    OBVIOUS
  <2>3. 2 \in 0..2
    OBVIOUS
  <2> QED
    BY <2>1, <2>2, <2>3
<1>9. memory' \in Seq(Entries) /\ Len(memory') <= MaxSessions /\ Held' \subseteq Held \cup {new}
  <2> HIDE DEF added
  <2>1. Len(kept) <= MaxSessions
    BY <1>2, <1>4, SessionsAssumption
  <2>2. memory' \in Seq(Entries) /\ Len(memory') <= MaxSessions /\ Range(memory') \subseteq Held \cup {new}
    BY <1>2, <1>3, <1>5, <1>6, <1>8, <2>1
  <2> QED
    BY <2>2 DEF Held
<1>10. \A w \in rows' : w \in rows \/ \E e \in Held \cup {new} : w = RowOf(e)
  <2> HIDE DEF added
  <2> QED
    BY <1>6, <1>7, <1>8, ReplaceIs
<1>11. aged' \subseteq Ids
  BY <1>7 DEF SessionInv, SessionTypes, SessionsTypeOK
<1>12. {new} \in SUBSET Entries /\ \E r \in RoleSet : accessKey[r] # NoKey /\ {new} = {[id |-> logins + 1, role |-> r]}
  BY <1>1, <1>7 DEF new
<1> QED
  BY <1>0, <1>7, <1>9, <1>10, <1>11, <1>12, ServingKeeps

(* a logout,                                                               *)
LEMMA RevokeKeeps ==
    ASSUME SessionInv, NEW id \in Ids, revokeLocalSession(id)
    PROVE  SessionInv'
<1> DEFINE left == Dropping(pruneLocalSessions(memory), {id})
<1>1. memory \in Seq(Entries) /\ Len(memory) <= MaxSessions /\ Len(memory) \in Nat
  BY LenProperties DEF SessionInv, SessionTypes, SessionsTypeOK
<1>2. /\ pruneLocalSessions(memory) \in Seq(Entries)
      /\ Len(pruneLocalSessions(memory)) <= Len(memory)
      /\ Range(pruneLocalSessions(memory)) \subseteq Held
  BY <1>1, DroppingIs DEF pruneLocalSessions, Held
<1>3. /\ left \in Seq(Entries) /\ Len(left) <= Len(pruneLocalSessions(memory))
      /\ Range(left) \subseteq Held /\ \A e \in Range(left) : e.id # id
  BY <1>2, DroppingIs
<1> HIDE DEF left
<1>4. Len(left) <= MaxSessions
  <2>1. Len(left) \in Nat /\ Len(pruneLocalSessions(memory)) \in Nat
    BY <1>2, <1>3, LenProperties
  <2> QED
    BY <1>1, <1>2, <1>3, <2>1, SessionsAssumption
<1>5. /\ serving = "up" /\ memory' = left /\ \E e \in Held : e.id = id
      /\ UNCHANGED <<serving, accessKey, logins, legacyFile, aged>>
  BY HeldIs DEF revokeLocalSession, left
<1>6. \/ rows' = replaceAll(left, 2) /\ loggedOut' = loggedOut \cup {id}
      \/ \E done \in 0..2 : rows' = replaceAll(left, done) /\ UNCHANGED loggedOut
  BY DEF revokeLocalSession, left
<1>7. \A w \in rows' : w \in rows \/ \E e \in Held : w = RowOf(e)
  BY <1>3, <1>5, <1>6, ReplaceIs
<1>8. \A w \in rows' : w.id \in loggedOut' => w.id \in loggedOut
  <2>1. ASSUME rows' = replaceAll(left, 2), NEW w \in rows' PROVE w.id # id
    <3>1. PICK e \in Range(left) : w = RowOf(e)
      BY <1>5, <2>1, ReplaceIs
    <3> QED
      BY <1>3, <3>1 DEF RowOf
  <2> QED
    BY <1>6, <2>1
<1>9. Held' = Range(left)
  BY <1>5 DEF Held
<1>10. aged' \subseteq Ids
  BY <1>5 DEF SessionInv, SessionTypes, SessionsTypeOK
<1>11. \A i \in loggedOut' : i \in loggedOut \/ \E e \in Held : i = e.id
  BY <1>5, <1>6
<1>12. \A e \in Held' : e.id \in loggedOut' => e.id \in loggedOut
  BY <1>3, <1>6, <1>9
<1>13. \A w \in rows' : w \in rows \/ \E e \in Held \cup {} : w = RowOf(e)
  BY <1>7
<1>14. Held' \subseteq Held \cup {} /\ {} \in SUBSET Entries
  BY <1>3, <1>9
<1> QED
  BY <1>3, <1>4, <1>5, <1>8, <1>10, <1>11, <1>12, <1>13, <1>14, ServingKeeps

(* a request, which drops expired sessions,                                *)
LEMMA RequestKeeps == ASSUME SessionInv, sessionForRequest PROVE SessionInv'
<1>1. memory \in Seq(Entries) /\ Len(memory) <= MaxSessions /\ Len(memory) \in Nat
  BY LenProperties DEF SessionInv, SessionTypes, SessionsTypeOK
<1>2. /\ serving = "up" /\ memory' = pruneLocalSessions(memory)
      /\ UNCHANGED <<serving, accessKey, logins, rows, legacyFile, aged, loggedOut>>
  BY DEF sessionForRequest
<1>3. /\ memory' \in Seq(Entries) /\ Len(memory') <= Len(memory)
      /\ Held' \subseteq Held
  BY <1>1, <1>2, DroppingIs DEF pruneLocalSessions, Held
<1>4. Len(memory') <= MaxSessions
  BY <1>1, <1>3, SessionsAssumption, LenProperties
<1>5. Held' \subseteq Held \cup {} /\ {} \in SUBSET Entries
  BY <1>3
<1>6. aged' \subseteq Ids
  BY <1>2 DEF SessionInv, SessionTypes, SessionsTypeOK
<1> QED
  BY <1>2, <1>3, <1>4, <1>5, <1>6, ServingKeeps

-----------------------------------------------------------------------------
Loaded(role) == {w \in loadActive : w.role = role}

(* the rows in the order a start reads them,                               *)
LEMMA InOrderIs ==
    ASSUME SessionInv, NEW role \in RoleSet
    PROVE  /\ InOrder(role) \in Seq(Entries)
           /\ Range(InOrder(role)) \subseteq {[id |-> w.id, role |-> role] : w \in Loaded(role)}
<1> DEFINE mine == {w \in loadActive : w.role = role}
           N == Cardinality(mine)
           R == {r \in mine \X mine : r[1].id < r[2].id}
           q == [i \in 1..N |-> Nth(R, mine, i)]
           o == InOrder(role)
<1>1. \A w \in mine : w \in rows /\ w.id \in Ids /\ w.id \in Nat
  BY DEF loadActive, SessionInv, SessionTypes, SessionsTypeOK, Ids
<1>2. IsFiniteSet(mine)
  <2> DEFINE f == [w \in mine |-> w.id]
  <2>1. \A v, w \in mine : v.id = w.id => v = w
    BY <1>1 DEF SessionInv, OneSessionEach
  <2>2. f \in Injection(mine, 0..MaxLogins)
    BY <1>1, <2>1 DEF Injection, IsInjective, Ids
  <2>3. IsFiniteSet(0..MaxLogins)
    BY FS_Interval, SessionsAssumption
  <2> HIDE DEF mine, f
  <2> QED
    BY <2>2, <2>3, FS_Injection
<1>3. N \in Nat
  BY <1>2, FS_CardinalityType
<1>4. \A v, w \in mine : <<v, w>> \in R <=> v.id < w.id
  OBVIOUS
<1>5. \A v, w \in mine : v.id = w.id => v = w
  BY <1>1 DEF SessionInv, OneSessionEach
<1>6. IsOrder(R, mine)
  <2> HIDE DEF R, mine
  <2> QED
    BY <1>1, <1>4, <1>5 DEF IsOrder
<1>7. \A i \in 1..N : q[i] \in mine
  <2>1. \A i \in 1..N : Nth(R, mine, i) \in mine
    <3> HIDE DEF R, mine
    <3> QED
      BY <1>2, <1>6, NthIs
  <2> QED
    BY <2>1
<1>8. \A i \in 1..N : o[i] = [id |-> q[i].id, role |-> role]
  <2>1. \A w \in mine : Rank(R, mine, w) = Cardinality({v \in mine : v.id < w.id})
    <3>1. \A w \in mine : {v \in mine : <<v, w>> \in R} = {v \in mine : v.id < w.id}
      BY <1>4
    <3> QED
      BY <3>1 DEF Rank
  <2>2. ASSUME NEW i \in 1..N PROVE o[i] = [id |-> q[i].id, role |-> role]
    <3>1. q[i] = CHOOSE w \in mine : Rank(R, mine, w) = i - 1
      BY DEF Nth
    <3>2. q[i] = CHOOSE w \in mine : Cardinality({v \in mine : v.id < w.id}) = i - 1
      BY <2>1, <3>1
    <3>3. o[i] = [id |-> (CHOOSE w \in mine : Cardinality({v \in mine : v.id < w.id}) = i - 1).id, role |-> role]
      BY DEF InOrder
    <3> QED
      BY <3>2, <3>3
  <2> QED
    BY <2>2
<1>9. o = [i \in 1..N |-> o[i]]
  BY DEF InOrder
<1> HIDE DEF q, o, N, mine
<1>10. \A i \in 1..N : o[i] \in Entries
  <2> SUFFICES ASSUME NEW i \in 1..N PROVE o[i] \in Entries
    OBVIOUS
  <2>1. q[i].id \in Ids
    BY <1>7, <1>1
  <2>2. o[i] = [id |-> q[i].id, role |-> role]
    BY <1>8
  <2> QED
    BY <2>1, <2>2 DEF Entries
<1>11. o \in Seq(Entries) /\ DOMAIN o = 1..N
  <2>1. o \in [1..N -> Entries]
    BY <1>9, <1>10
  <2> QED
    BY <1>3, <2>1, IsASeq, LenProperties
<1>12. Range(o) \subseteq {[id |-> w.id, role |-> role] : w \in mine}
  BY <1>7, <1>8, <1>11 DEF Range
<1> QED
  BY <1>11, <1>12 DEF o, mine, Loaded

(* a start that reads the rows,                                            *)
LEMMA LoadKeeps == ASSUME SessionInv, loadPersistedSessions PROVE SessionInv'
<1> USE DEF SessionInv
<1> DEFINE operators == InOrder("operator")
           viewers == InOrder("viewer")
           both == operators \o viewers
<1>1. /\ serving = "imported" /\ serving' = "up" /\ retireLegacyFile
      /\ memory' = trimOldestEntry(both, MaxSessions + 1)
      /\ rows' = {w \in loadActive : w.id \in SessionsIn(memory')}
      /\ loggedOut' = loggedOut \cup {w.id : w \in {w \in rows : w.key # accessKey[w.role]}}
      /\ UNCHANGED <<accessKey, logins, aged>>
  BY DEF loadPersistedSessions
<1>2. /\ operators \in Seq(Entries) /\ viewers \in Seq(Entries)
      /\ Range(operators) \subseteq {[id |-> w.id, role |-> "operator"] : w \in Loaded("operator")}
      /\ Range(viewers) \subseteq {[id |-> w.id, role |-> "viewer"] : w \in Loaded("viewer")}
  BY InOrderIs DEF RoleSet
<1> HIDE DEF operators, viewers
<1>3. both \in Seq(Entries) /\ Range(both) = Range(operators) \cup Range(viewers)
  BY <1>2, ConcatProperties, RangeConcatenation
<1>4. memory' \in Seq(Entries) /\ Len(memory') < MaxSessions + 1 /\ Range(memory') \subseteq Range(both)
  <2>1. MaxSessions + 1 \in Nat \ {0}
    BY SessionsAssumption
  <2> HIDE DEF both
  <2> QED
    BY <1>1, <1>3, <2>1, TrimIs
<1>5. \A e \in Held' : e \in Entries /\ \E w \in loadActive : e = [id |-> w.id, role |-> w.role]
  <2>1. Held' \subseteq Range(operators) \cup Range(viewers)
    BY <1>3, <1>4 DEF Held
  <2>2. \A e \in Range(operators) \cup Range(viewers) : \E w \in loadActive : e = [id |-> w.id, role |-> w.role]
    BY <1>2 DEF Loaded
  <2>3. Held' \subseteq Entries
    BY <1>4, ElementOfSeq, LenProperties DEF Held, Range
  <2> QED
    BY <2>1, <2>2, <2>3
<1>6. \A w \in rows' : w \in loadActive /\ w \in rows /\ w.key = accessKey[w.role]
  BY <1>1 DEF loadActive
<1>7. \A w \in loadActive : w \in rows /\ w.key = accessKey[w.role]
  BY DEF loadActive
<1>8. /\ \A w \in rows : w \in [id : Ids, role : RoleSet, key : AccessKeys]
      /\ \A v, w \in rows : v.id = w.id => v = w
      /\ \A w \in rows : w.id <= logins /\ w.id \in Nat /\ (w.id = 0 => w.role = "operator") /\ w.id \notin loggedOut
  BY DEF SessionTypes, SessionsTypeOK, OneSessionEach, RowsAreLive, Ids
<1>9. /\ legacyFile' \in {NoLegacyFile, legacyFile}
      /\ OldKeys'
  <2>1. accessKey["operator"] \in Nat /\ legacyFile.key \in Nat /\ legacyFile.key <= accessKey["operator"]
    BY KeysAreNumbers DEF OldFileIsSpent
  <2>2. legacyFile' = IF legacyFile.key = accessKey["operator"] THEN NoLegacyFile ELSE legacyFile
    BY <1>1 DEF retireLegacyFile
  <2>3. CASE legacyFile.key = accessKey["operator"]
    BY <2>2, <2>3 DEF OldKeys, NoLegacyFile
  <2>4. CASE legacyFile.key # accessKey["operator"]
    BY <1>1, <2>1, <2>2, <2>4 DEF OldKeys
  <2> QED
    BY <2>2, <2>3, <2>4
<1>10. SessionTypes'
  <2>1. Len(memory') <= MaxSessions /\ \A i \in DOMAIN memory' : memory'[i] \in Entries
    BY <1>4, SessionsAssumption, LenProperties, ElementOfSeq
  <2>2. loggedOut' \subseteq Ids
    BY <1>1, <1>8 DEF SessionTypes, SessionsTypeOK
  <2>3. legacyFile' \in [key : AccessKeys, held : {TRUE}] \cup {NoLegacyFile}
    BY <1>9 DEF SessionTypes, SessionsTypeOK
  <2>4. rows' \subseteq [id : Ids, role : RoleSet, key : AccessKeys]
    BY <1>6, <1>8
  <2> QED
    BY <1>1, <1>4, <2>1, <2>2, <2>3, <2>4 DEF SessionTypes, SessionsTypeOK
<1>11. OneSessionEach'
  <2>1. loggedOut' \subseteq 0..logins'
    <3>1. \A w \in rows : w.id \in 0..logins
      BY <1>8 DEF SessionTypes, SessionsTypeOK
    <3> QED
      BY <1>1, <3>1 DEF OneSessionEach
  <2>2. \A e \in Held' : \E w \in rows : w \in loadActive /\ e.id = w.id /\ e.role = w.role /\ e = [id |-> w.id, role |-> w.role]
    BY <1>5, <1>7
  <2> QED
    BY <1>1, <1>6, <1>8, <2>1, <2>2 DEF OneSessionEach
<1>12. OfPresentKeys'
  <2>1. \A e \in Held' : accessKey[e.role] # NoKey
    <3> SUFFICES ASSUME NEW e \in Held' PROVE accessKey[e.role] # NoKey
      OBVIOUS
    <3>1. PICK w \in loadActive : e = [id |-> w.id, role |-> w.role]
      BY <1>5
    <3>2. accessKey[e.role] \in AccessKeys
      BY <1>7, <1>8, <3>1
    <3> QED
      BY <3>2, SessionsAssumption DEF AccessKeys, NoKey
  <2> QED
    BY <1>1, <1>6, <1>9, <2>1 DEF OfPresentKeys
<1>13. OldFileIsSpent'
  <2>1. legacyFile'.key <= accessKey["operator"] /\ (legacyFile'.held => legacyFile' = legacyFile)
    <3>1. CASE legacyFile' = NoLegacyFile
      BY <3>1, KeysAreNumbers DEF NoLegacyFile, NoKey
    <3>2. CASE legacyFile' = legacyFile
      BY <3>2 DEF OldFileIsSpent
    <3> QED
      BY <1>9, <3>1, <3>2
  <2> QED
    BY <1>1, <1>6, <1>9, <2>1 DEF OldFileIsSpent
<1>14. RowsAreLive'
  BY <1>1, <1>6, <1>8 DEF RowsAreLive
<1>15. LoggedOutStaysOut'
  <2> SUFFICES ASSUME NEW e \in Held', e.id \in loggedOut' PROVE FALSE
    BY DEF LoggedOutStaysOut, SessionsIn, Held, Range
  <2>1. PICK w \in loadActive : e = [id |-> w.id, role |-> w.role]
    BY <1>5
  <2> QED
    BY <1>1, <1>7, <1>8, <2>1
<1> QED
  BY <1>10, <1>11, <1>12, <1>13, <1>14, <1>15

(* a start that imports the old file,                                      *)
LEMMA ImportKeeps == ASSUME SessionInv, ImportLegacyJson PROVE SessionInv'
<1> USE DEF SessionInv
<1> DEFINE row == [id |-> 0, role |-> "operator", key |-> legacyFile.key]
<1>1. /\ serving = "down" /\ serving' = "imported"
      /\ \/ UNCHANGED rows
         \/ /\ legacyFile.held /\ legacyFile.key = accessKey["operator"]
            /\ \A w \in rows : w.id # 0
            /\ rows' = rows \cup {row}
      /\ UNCHANGED <<accessKey, logins, memory, legacyFile, aged, loggedOut>>
  BY DEF ImportLegacyJson
<1>2. memory = << >> /\ Held = {} /\ Held' = {}
  BY <1>1 DEF OfPresentKeys, Held, Range
<1>3. CASE UNCHANGED rows
  <2>1. SessionTypes'
    BY <1>1, <1>3 DEF SessionTypes, SessionsTypeOK
  <2>2. OneSessionEach' /\ OfPresentKeys'
    BY <1>1, <1>2, <1>3 DEF OneSessionEach, OfPresentKeys
  <2>3. OldFileIsSpent'
    BY <1>1, <1>3 DEF OldFileIsSpent, OldKeys
  <2>4. RowsAreLive' /\ LoggedOutStaysOut'
    BY <1>1, <1>3 DEF RowsAreLive, LoggedOutStaysOut, SessionsIn
  <2> QED
    BY <2>1, <2>2, <2>3, <2>4
<1>4. CASE ~UNCHANGED rows
  <2>1. legacyFile.held /\ legacyFile.key = accessKey["operator"] /\ rows' = rows \cup {row} /\ \A w \in rows : w.id # 0
    BY <1>1, <1>4
  <2>2. accessKey["operator"] \in Nat
    BY KeysAreNumbers
  <2>3. 0 \notin loggedOut
    BY <2>1, <2>2 DEF OldFileIsSpent, OldKeys
  <2>4. row \in [id : Ids, role : RoleSet, key : AccessKeys]
    <3>1. legacyFile.key \in AccessKeys
      <4>1. legacyFile # NoLegacyFile
        BY <2>1 DEF NoLegacyFile
      <4> QED
        BY <4>1 DEF SessionTypes, SessionsTypeOK
    <3> QED
      BY <3>1, SessionsAssumption DEF Ids, RoleSet
  <2>5. row.id = 0 /\ row.role = "operator" /\ row.key = legacyFile.key
    OBVIOUS
  <2>6. logins \in Nat
    BY DEF SessionTypes, SessionsTypeOK
  <2> HIDE DEF row
  <2>7. SessionTypes'
    BY <1>1, <2>1, <2>4 DEF SessionTypes, SessionsTypeOK
  <2>8. OneSessionEach'
    BY <1>1, <1>2, <2>1, <2>5, <2>6 DEF OneSessionEach
  <2>9. OfPresentKeys'
    BY <1>1, <1>2 DEF OfPresentKeys
  <2>10. OldFileIsSpent'
    BY <1>1, <2>1, <2>2, <2>3, <2>5 DEF OldFileIsSpent, OldKeys
  <2>11. RowsAreLive' /\ LoggedOutStaysOut'
    BY <1>1, <1>2, <2>1, <2>3, <2>5 DEF RowsAreLive, LoggedOutStaysOut, SessionsIn
  <2> QED
    BY <2>7, <2>8, <2>9, <2>10, <2>11
<1> QED
  BY <1>3, <1>4

(* and a change of the keys.                                               *)
LEMMA RekeyKeeps ==
    ASSUME SessionInv, NEW keys \in [RoleSet -> AccessKeys \cup {NoKey}], StopAndRekey(keys)
    PROVE  SessionInv'
<1> USE DEF SessionInv
<1>1. /\ serving' = "down" /\ memory' = << >> /\ accessKey' = keys /\ keys["operator"] >= accessKey["operator"]
      /\ UNCHANGED <<logins, rows, legacyFile, aged, loggedOut>>
  BY DEF StopAndRekey
<1>2. Held' = {} /\ SessionsIn(memory)' = {} /\ Len(memory') = 0 /\ memory' \in Seq(Entries)
  BY <1>1 DEF Held, Range, SessionsIn
<1>3. keys["operator"] \in Nat /\ keys["operator"] # NoKey /\ accessKey["operator"] \in Nat /\ legacyFile.key \in Nat
      /\ \A w \in rows : w.key \in Nat
  <2>1. AccessKeys \subseteq Nat /\ NoKey = 0
    BY SessionsAssumption DEF AccessKeys, NoKey
  <2>2. keys["operator"] \in Nat
    <3>1. keys["operator"] \in AccessKeys \cup {NoKey}
      BY DEF RoleSet
    <3>2. \A k \in AccessKeys \cup {NoKey} : k \in Nat
      BY SessionsAssumption DEF AccessKeys, NoKey
    <3> QED
      BY <3>1, <3>2
  <2>3. accessKey["operator"] # NoKey
    BY DEF SessionTypes, SessionsTypeOK
  <2> QED
    BY <1>1, <2>1, <2>2, <2>3, KeysAreNumbers
<1>4. SessionTypes'
  <2>1. \A i \in DOMAIN memory' : memory'[i] \in Entries
    BY <1>1
  <2>2. Len(memory') <= MaxSessions
    BY <1>2, SessionsAssumption
  <2>3. accessKey' \in [RoleSet -> AccessKeys \cup {NoKey}] /\ accessKey'["operator"] # NoKey
    BY <1>1, <1>3
  <2> QED
    BY <1>1, <1>2, <2>1, <2>2, <2>3 DEF SessionTypes, SessionsTypeOK
<1>5. OneSessionEach' /\ OfPresentKeys' /\ RowsAreLive' /\ LoggedOutStaysOut'
  BY <1>1, <1>2 DEF OneSessionEach, OfPresentKeys, RowsAreLive, LoggedOutStaysOut
<1>6. OldFileIsSpent'
  BY <1>1, <1>3 DEF OldFileIsSpent, OldKeys
<1> QED
  BY <1>4, <1>5, <1>6

(* Every session has one id and one role, memory and database agree on     *)
(* it, a running server holds only sessions of the present keys, and no    *)
(* session that logged out, or whose key was rotated, is held or stored    *)
(* again (login, logout and requests, and the start that loads the rows    *)
(* or imports the old file).                                               *)
THEOREM SessionInvariant == SessionsSpec => []SessionInv
<1>1. SessionsInit => SessionInv
  <2> SUFFICES ASSUME SessionsInit PROVE SessionInv
    OBVIOUS
  <2>1. Held = {} /\ SessionsIn(memory) = {} /\ memory \in Seq(Entries) /\ Len(memory) = 0
    BY DEF SessionsInit, Held, Range, SessionsIn
  <2>2. 1 \in AccessKeys /\ 1 # NoKey
    BY SessionsAssumption DEF AccessKeys, NoKey
  <2>3. SessionTypes
    <3>1. accessKey = [operator |-> 1, viewer |-> 1]
      BY DEF SessionsInit
    <3>2. accessKey \in [RoleSet -> AccessKeys \cup {NoKey}] /\ accessKey["operator"] # NoKey
      BY <2>2, <3>1 DEF RoleSet
    <3>3. logins \in 0..MaxLogins
      BY SessionsAssumption DEF SessionsInit
    <3>4. legacyFile \in [key : AccessKeys, held : {TRUE}] \cup {NoLegacyFile}
      <4>1. [key |-> 1, held |-> TRUE] \in [key : AccessKeys, held : {TRUE}]
        BY <2>2
      <4>2. legacyFile = NoLegacyFile \/ legacyFile = [key |-> 1, held |-> TRUE]
        BY DEF SessionsInit
      <4> QED
        BY <4>1, <4>2
    <3>5. Len(memory) <= MaxSessions /\ \A i \in DOMAIN memory : memory[i] \in Entries
      BY <2>1, SessionsAssumption DEF SessionsInit
    <3> QED
      BY <2>1, <3>2, <3>3, <3>4, <3>5 DEF SessionsInit, SessionTypes, SessionsTypeOK
  <2>4. OldFileIsSpent
    BY DEF SessionsInit, OldFileIsSpent, OldKeys, NoLegacyFile, NoKey
  <2> QED
    BY <2>1, <2>3, <2>4 DEF SessionsInit, SessionInv, OneSessionEach, OfPresentKeys, RowsAreLive, LoggedOutStaysOut
<1>2. SessionInv /\ [SessionsNext]_sessionVars => SessionInv'
  <2> SUFFICES ASSUME SessionInv, [SessionsNext]_sessionVars PROVE SessionInv'
    OBVIOUS
  <2>1. ASSUME NEW id \in Ids, SessionAges(id) PROVE SessionInv'
    BY <2>1 DEF SessionAges, SessionInv, SessionTypes, SessionsTypeOK, OneSessionEach, OfPresentKeys, OldFileIsSpent,
                OldKeys, RowsAreLive, LoggedOutStaysOut, Held, SessionsIn
  <2>2. CASE UNCHANGED sessionVars
    BY <2>2 DEF sessionVars, SessionInv, SessionTypes, SessionsTypeOK, OneSessionEach, OfPresentKeys, OldFileIsSpent,
                OldKeys, RowsAreLive, LoggedOutStaysOut, Held, SessionsIn
  <2> QED
    BY <2>1, <2>2, CreateKeeps, RevokeKeeps, RequestKeeps, LoadKeeps, ImportKeeps, RekeyKeeps DEF SessionsNext
<1> QED
  BY <1>1, <1>2, PTL DEF SessionsSpec

(* The sessions, the ids in memory and the keys have their types.           *)
THEOREM SessionsTypeCorrect == SessionsSpec => []SessionsTypeOK
<1>1. SessionInv => SessionsTypeOK
  BY DEF SessionInv, SessionTypes
<1> QED
  BY <1>1, SessionInvariant, PTL

(* A session revoked with an answer, and every session of a key that was    *)
(* rotated, is never accepted again, whatever fails or restarts between     *)
(* (revokeLocalSession, loadPersistedSessions and the old file's import).   *)
THEOREM LoggedOutForGood == SessionsSpec => []LoggedOutStaysOut
<1>1. SessionInv => LoggedOutStaysOut
  BY DEF SessionInv
<1> QED
  BY <1>1, SessionInvariant, PTL

-----------------------------------------------------------------------------
(* The analyses leave the settings to the requests that change them.        *)
THEOREM AnalysesKeepToTheSettings == AnalysisSpec => ConfigSpec
<1>1. AnalysisInit => ConfigInit
  BY DEF AnalysisInit
<1>2. [AnalysisNext]_analysisVars => [ConfigNext]_configVars
  BY DEF AnalysisNext, SettingsChange, MailRevised, ModelChanges, enrichWithAI, CallStarts, CallRefused, AnswerKept,
         AnswerRejected, CallFails, CircuitCools, analysisVars
<1> QED
  BY <1>1, <1>2, PTL DEF AnalysisSpec, ConfigSpec

-----------------------------------------------------------------------------
(* The parts beside each other, as the run has them: whichever part runs,   *)
(* each takes only steps of its own, so that all that is proved of the      *)
(* parts holds of the run.                                                  *)
THEOREM OperationsRunTheirParts ==
    Spec => /\ DriveSpec /\ SessionsSpec /\ AnalysisSpec /\ ConfigSpec /\ IntegritySpec
            /\ RestoreSpec /\ RulesSpec /\ SearchSpec /\ ReleaseSpec
<1>1. Init => /\ DriveInit /\ SessionsInit /\ AnalysisInit /\ IntegrityInit
              /\ RestoreInit /\ RulesInit /\ SearchInit /\ ReleaseInit
  BY DEF Init
<1>2. [Next]_operationsVars =>
        /\ [DriveNext]_driveVars /\ [SessionsNext]_sessionVars /\ [AnalysisNext]_analysisVars
        /\ [IntegrityNext]_integrityVars /\ [RestoreNext]_restoreVars
        /\ [RulesNext]_rulesVars /\ [SearchNext]_searchVars /\ [ReleaseNext]_releaseVars
  BY DEF Next, DriveTurn, SessionsTurn, AnalysisTurn, IntegrityTurn, RestoreTurn, RulesTurn, SearchTurn,
         ReleaseTurn, operationsVars
<1>3. Spec => /\ DriveSpec /\ SessionsSpec /\ AnalysisSpec /\ IntegritySpec
              /\ RestoreSpec /\ RulesSpec /\ SearchSpec /\ ReleaseSpec
  BY <1>1, <1>2, PTL DEF Spec, DriveSpec, SessionsSpec, AnalysisSpec, IntegritySpec, RestoreSpec,
                         RulesSpec, SearchSpec, ReleaseSpec
<1> QED
  BY <1>3, AnalysesKeepToTheSettings, PTL

(* Types of the state of the part that runs.                                *)
THEOREM OperationsTypeCorrect == Spec => []OperationsTypeOK
<1> DEFINE Chosen == chosen \in {"drive", "sessions", "analysis", "integrity",
                                "restore", "rules", "search", "release"}
           Typed8 == /\ DriveTypeOK /\ OneConnectionPerFlow /\ SessionsTypeOK /\ ConfigTypeOK /\ AnalysisTypeOK
                     /\ IntegrityTypeOK /\ RestoreTypeOK /\ RulesTypeOK /\ SearchTypeOK /\ ReleaseTypeOK
<1>1. Init => Chosen
  BY DEF Init
<1>2. Chosen /\ [Next]_operationsVars => Chosen'
  BY DEF Next, DriveTurn, SessionsTurn, AnalysisTurn, IntegrityTurn, RestoreTurn, RulesTurn, SearchTurn,
         ReleaseTurn, operationsVars
<1>3. Spec => []Chosen
  BY <1>1, <1>2, PTL DEF Spec
<1>4. Chosen /\ Typed8 => OperationsTypeOK
  BY DEF OperationsTypeOK
<1>5. Spec => []Typed8
  BY OperationsRunTheirParts, DriveTypeCorrect, FlowsConnectOnce, SessionsTypeCorrect, ConfigTypeCorrect,
     AnalysisTypeCorrect, IntegrityTypeCorrect, RestoreTypeCorrect, RulesTypeCorrect, SearchTypeCorrect,
     ReleaseTypeCorrect, PTL
<1> QED
  BY <1>3, <1>4, <1>5, PTL
=============================================================================
