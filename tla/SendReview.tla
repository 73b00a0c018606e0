------------------------------ MODULE SendReview ------------------------------
(***************************************************************************)
(* The page on which the operator composes a draft, attaches files to it   *)
(* and reviews the drafts that are stored (src/src/send-review.js), over a *)
(* connection that loses answers, with the creation of drafts as the       *)
(* server does it.  A draft is its place in the order of creation; what    *)
(* becomes of it is the matter of SendDrafts.                              *)
(*                                                                         *)
(* edition and forgotten are not in the code.  edition counts the           *)
(* compositions, a new one with every change the operator makes, with every *)
(* file that joins the form and with every draft that is saved; forgotten   *)
(* counts the imports that ended well when their row was removed, each of   *)
(* which drops the request id of a composition that is not changed by it.   *)
(***************************************************************************)
EXTENDS Naturals, Sequences, FiniteSets

CONSTANTS
    Wordings,       \* what the fields of the form may say
    LocalFiles,     \* files of the computer
    DriveFilesSeen, \* files of the Drive connection
    ReviewLinks,    \* Drive links
    MaxAttached,    \* rows of the attachment list
    MaxEditions,    \* bound: compositions
    MaxRequestIds   \* bound: request ids drawn

ASSUME ComposerAssumption ==
    /\ {MaxAttached, MaxEditions, MaxRequestIds} \subseteq Nat
    /\ LocalFiles \cap DriveFilesSeen = {}

Absent == 0        \* no request id, no draft
Blank == "blank"    \* the form after a reset
NotSaving == [phase |-> "idle", draft |-> Absent]

VARIABLES
    wording, linked, attached,  \* the form, pendingLinks, pending
    fileState,      \* of every file, also once it is removed from the list
    batches,        \* files chosen together, the first being uploaded
    importing,      \* Drive files that are being imported
    requestId, requestIds,
    edition, forgotten,   \* history
    saving,         \* the submit handler between its awaits
    creations,          \* creations on their way to the server
    created,        \* the drafts of the server
    selectedDraft, shownDraft, listedDrafts,
    acting,         \* the draft of an approve, cancel or restore under way
    lists, details  \* requests for the list and for a draft

composeVars == <<wording, linked, attached, fileState, batches, importing, requestId, requestIds, edition, forgotten>>
serverVars == <<creations, created>>
viewVars == <<selectedDraft, shownDraft, listedDrafts, acting, lists, details>>
composerVars == <<composeVars, saving, serverVars, viewVars>>

AttachableFiles == LocalFiles \cup DriveFilesSeen
Busy == saving.phase # "idle" \/ acting # Absent
Composition == [wording |-> wording, files |-> attached, links |-> linked]

\* Types of the state.
ComposerTypeOK ==
    /\ wording \in Wordings \cup {Blank} /\ linked \subseteq ReviewLinks /\ attached \subseteq AttachableFiles
    /\ fileState \in [AttachableFiles -> {"new", "waiting", "uploading", "ready", "failed"}]
    /\ \A f \in attached : fileState[f] \in {"uploading", "ready", "failed"}
    /\ importing \subseteq DriveFilesSeen
    /\ requestId \in 0..requestIds /\ requestIds <= MaxRequestIds
    /\ saving.phase \in {"idle", "posting", "answered", "refused", "listing"}
    /\ {selectedDraft, shownDraft, listedDrafts, acting} \subseteq 0..Len(created)
    /\ \A post \in creations : post.request \in 1..requestIds /\ post.edition <= edition

ComposerInit ==
    /\ wording = Blank /\ linked = {} /\ attached = {}
    /\ fileState = [f \in AttachableFiles |-> "new"] /\ batches = {} /\ importing = {}
    /\ requestId = Absent /\ requestIds = 0 /\ edition = 0 /\ forgotten = 0
    /\ saving = NotSaving /\ creations = {} /\ created = <<>>
    /\ selectedDraft = Absent /\ shownDraft = Absent /\ listedDrafts = 0 /\ acting = Absent
    /\ lists = {[latest |-> TRUE, by |-> "button"]} /\ details = {}

-------------------------------------------------------------------------------
(* Composing, also while a save is under way.                               *)

Edits == edition < MaxEditions /\ edition' = edition + 1

\* an input event of the form
Type(words) ==
    /\ words # wording /\ Edits
    /\ wording' = words /\ requestId' = Absent
    /\ UNCHANGED <<linked, attached, fileState, batches, importing, requestIds, forgotten, saving, serverVars, viewVars>>

AddLink(link) ==
    /\ link \notin linked /\ Edits
    /\ linked' = linked \cup {link} /\ requestId' = Absent
    /\ UNCHANGED <<wording, attached, fileState, batches, importing, requestIds, forgotten, saving, serverVars, viewVars>>
RemoveLink(link) ==
    /\ link \in linked /\ Edits
    /\ linked' = linked \ {link} /\ requestId' = Absent
    /\ UNCHANGED <<wording, attached, fileState, batches, importing, requestIds, forgotten, saving, serverVars, viewVars>>

(* the change event of the file input: one file is uploaded after the other *)
ChooseFiles(files) ==
    /\ \A i \in DOMAIN files : fileState[files[i]] = "new"
    /\ Cardinality(attached) + Len(files) <= MaxAttached /\ Edits
    /\ attached' = attached \cup {Head(files)}
    /\ fileState' = [f \in AttachableFiles |->
           IF f = Head(files) THEN "uploading"
           ELSE IF \E i \in DOMAIN files : files[i] = f THEN "waiting" ELSE fileState[f]]
    /\ batches' = batches \cup {files}
    /\ UNCHANGED <<wording, linked, importing, requestId, requestIds, forgotten, saving, serverVars, viewVars>>

(* the request id stays, and the next file joins whatever is composed now   *)
UploadEnds(files, outcome) ==
    LET rest == Tail(files)
        next == IF rest = <<>> THEN {} ELSE {Head(rest)}
    IN /\ fileState' = [f \in AttachableFiles |->
              IF f = Head(files) THEN outcome ELSE IF f \in next THEN "uploading" ELSE fileState[f]]
       /\ batches' = (batches \ {files}) \cup (IF rest = <<>> THEN {} ELSE {rest})
       /\ attached' = attached \cup next
       /\ edition' = edition + Cardinality(next)
       /\ UNCHANGED <<wording, linked, importing, requestId, requestIds, forgotten, saving, serverVars, viewVars>>

RemoveFile(f) ==
    /\ f \in attached /\ Edits
    /\ attached' = attached \ {f}
    /\ UNCHANGED <<wording, linked, fileState, batches, importing, requestId, requestIds, forgotten, saving, serverVars, viewVars>>

importDriveFile(f) ==
    /\ fileState[f] = "new" /\ Cardinality(attached) < MaxAttached /\ Edits
    /\ attached' = attached \cup {f} /\ fileState' = [fileState EXCEPT ![f] = "uploading"]
    /\ importing' = importing \cup {f}
    /\ UNCHANGED <<wording, linked, batches, requestId, requestIds, forgotten, saving, serverVars, viewVars>>

(* An import that ends well drops the request id, also when its row has been *)
(* removed meanwhile and the composition is the one that was being saved.   *)
ImportEnds(f, outcome) ==
    /\ importing' = importing \ {f}
    /\ fileState' = [fileState EXCEPT ![f] = outcome]
    /\ IF outcome = "ready" THEN requestId' = Absent ELSE UNCHANGED requestId
    /\ forgotten' = IF outcome = "ready" /\ f \notin attached THEN forgotten + 1 ELSE forgotten
    /\ UNCHANGED <<wording, linked, attached, batches, requestIds, edition, saving, serverVars, viewVars>>

-------------------------------------------------------------------------------
(* Requests for the list and for a draft.                                   *)

Outdated == {[list EXCEPT !.latest = FALSE] : list \in lists}

\* select, on a page that is not busy
Selects(draft) ==
    /\ selectedDraft' = draft /\ shownDraft' = Absent
    /\ details' = details \cup {[draft |-> draft, afterAct |-> FALSE]}
SelectsAgain ==
    IF selectedDraft = Absent THEN UNCHANGED <<selectedDraft, shownDraft, details>> ELSE Selects(selectedDraft)

Select(draft) ==
    /\ ~Busy /\ draft \in 1..listedDrafts
    /\ Selects(draft)
    /\ UNCHANGED <<composeVars, saving, serverVars, listedDrafts, acting, lists>>

(* what is asked for after an approval is shown whatever is selected then   *)
DetailArrives(detail, arrived) ==
    /\ details' = details \ {detail}
    /\ shownDraft' = IF arrived /\ (detail.afterAct \/ detail.draft = selectedDraft) THEN detail.draft ELSE shownDraft
    /\ UNCHANGED <<composeVars, saving, serverVars, selectedDraft, listedDrafts, acting, lists>>

\* the button of the list; bound: not while a list is awaited
refreshDrafts ==
    /\ lists = {}
    /\ lists' = Outdated \cup {[latest |-> TRUE, by |-> "button"]}
    /\ UNCHANGED <<composeVars, saving, serverVars, selectedDraft, shownDraft, listedDrafts, acting, details>>

Listed(list, arrived) ==
    /\ lists' = lists \ {list}
    /\ listedDrafts' = IF arrived /\ list.latest THEN Len(created) ELSE listedDrafts

ListArrives(list, arrived) ==
    /\ list.by = "button" /\ Listed(list, arrived)
    /\ IF arrived /\ list.latest /\ ~Busy THEN SelectsAgain ELSE UNCHANGED <<selectedDraft, shownDraft, details>>
    /\ UNCHANGED <<composeVars, saving, serverVars, acting>>

\* approve, cancel and restore: a button of the draft that is shown
act ==
    /\ ~Busy /\ shownDraft # Absent
    /\ acting' = shownDraft
    /\ UNCHANGED <<composeVars, saving, serverVars, selectedDraft, shownDraft, listedDrafts, lists, details>>

\* finally: the draft is asked for again if it is still the selected one
Acted ==
    /\ acting' = Absent
    /\ details' = details \cup (IF selectedDraft' = acting THEN {[draft |-> acting, afterAct |-> TRUE]} ELSE {})
    /\ UNCHANGED <<composeVars, saving, serverVars, shownDraft>>
ActAnswers ==
    /\ acting # Absent /\ \A list \in lists : list.by # "act"
    /\ selectedDraft' = acting /\ lists' = Outdated \cup {[latest |-> TRUE, by |-> "act"]}
    /\ UNCHANGED <<composeVars, saving, serverVars, shownDraft, listedDrafts, acting, details>>
ActFails ==
    /\ acting # Absent /\ \A list \in lists : list.by # "act"
    /\ UNCHANGED <<selectedDraft, listedDrafts, lists>>
    /\ Acted
ActListed(list, arrived) ==
    /\ list.by = "act" /\ Listed(list, arrived)
    /\ UNCHANGED selectedDraft
    /\ Acted

-------------------------------------------------------------------------------
(* Saving the composition as a draft.                                       *)

BadRequestIdFor == requestIds + 1

\* requestId ||= randomUUID(): a save that failed is tried again under its id
RequestIdFor == IF requestId = Absent THEN requestIds + 1 ELSE requestId

Submit ==
    /\ ~Busy /\ \A f \in attached : fileState[f] = "ready"
    /\ RequestIdFor <= MaxRequestIds
    /\ requestId' = RequestIdFor
    /\ requestIds' = IF RequestIdFor > requestIds THEN RequestIdFor ELSE requestIds
    /\ saving' = [phase |-> "posting", draft |-> Absent]
    /\ creations' = creations \cup
           {[request |-> RequestIdFor, of |-> Composition, edition |-> edition, forgotten |-> forgotten, heard |-> TRUE]}
    /\ UNCHANGED <<wording, linked, attached, fileState, batches, importing, edition, forgotten, created, viewVars>>

CreationAnswered(post, phase, draft) ==
    saving' = IF post.heard THEN [phase |-> phase, draft |-> draft] ELSE saving

(* create: a request id that is known gives its draft again if it asks for  *)
(* the same, and is a conflict if not                                       *)
DraftIsCreated(post) ==
    LET known == {i \in DOMAIN created : created[i].request = post.request}
    IN /\ creations' = creations \ {post}
       /\ \/ /\ known = {}
             /\ created' = Append(created, [request |-> post.request, of |-> post.of,
                                          edition |-> post.edition, forgotten |-> post.forgotten])
             /\ CreationAnswered(post, "answered", Len(created) + 1)
          \/ \E i \in known : created[i].of = post.of /\ CreationAnswered(post, "answered", i) /\ UNCHANGED created
          \/ \E i \in known : created[i].of # post.of /\ CreationAnswered(post, "refused", Absent) /\ UNCHANGED created
       /\ UNCHANGED <<composeVars, viewVars>>

\* a payload that is not valid, an asset that is gone
RejectDraft(post) ==
    /\ creations' = creations \ {post} /\ CreationAnswered(post, "refused", Absent)
    /\ UNCHANGED <<composeVars, created, viewVars>>

SaveAnswers ==
    /\ saving.phase = "answered"
    /\ saving' = [saving EXCEPT !.phase = "listing"]
    /\ selectedDraft' = saving.draft /\ requestId' = Absent /\ edition' = edition + 1
    /\ wording' = Blank /\ attached' = {} /\ linked' = {}
    /\ lists' = Outdated \cup {[latest |-> TRUE, by |-> "save"]}
    /\ UNCHANGED <<fileState, batches, importing, requestIds, forgotten, serverVars, shownDraft, listedDrafts, acting, details>>

\* the list, or no list; then show(draft), and finally the draft is selected
SaveListed(list, arrived) ==
    /\ list.by = "save" /\ Listed(list, arrived)
    /\ saving' = NotSaving /\ Selects(saving.draft)
    /\ UNCHANGED <<composeVars, serverVars, acting>>

(* a conflict, an error, or no answer: the creation may be done, or be      *)
(* under way and done later                                                 *)
SaveFails ==
    /\ saving.phase \in {"posting", "answered", "refused"}
    /\ saving' = NotSaving
    /\ creations' = {[post EXCEPT !.heard = FALSE] : post \in creations}
    /\ SelectsAgain
    /\ UNCHANGED <<composeVars, created, listedDrafts, acting, lists>>

ComposerNext ==
    \/ \E words \in Wordings : Type(words)
    \/ \E link \in ReviewLinks : AddLink(link) \/ RemoveLink(link)
    \/ \E f \in LocalFiles : ChooseFiles(<<f>>) \/ \E g \in LocalFiles \ {f} : ChooseFiles(<<f, g>>)
    \/ \E files \in batches, outcome \in {"ready", "failed"} : UploadEnds(files, outcome)
    \/ \E f \in AttachableFiles : RemoveFile(f)
    \/ \E f \in DriveFilesSeen : importDriveFile(f)
    \/ \E f \in importing, outcome \in {"ready", "failed"} : ImportEnds(f, outcome)
    \/ \E draft \in 1..Len(created) : Select(draft)
    \/ \E detail \in details, arrived \in BOOLEAN : DetailArrives(detail, arrived)
    \/ refreshDrafts \/ act \/ ActAnswers \/ ActFails
    \/ \E list \in lists, arrived \in BOOLEAN : ListArrives(list, arrived) \/ ActListed(list, arrived)
    \/ \E list \in lists, arrived \in BOOLEAN : SaveListed(list, arrived)
    \/ Submit \/ SaveAnswers \/ SaveFails
    \/ \E post \in creations : DraftIsCreated(post) \/ RejectDraft(post)

ComposerSpec == ComposerInit /\ [][ComposerNext]_composerVars

-------------------------------------------------------------------------------
(* A composition becomes one draft at most, however often its save is tried *)
(* again after a lost answer, and whenever the lost attempts are carried    *)
(* out: there are not two mails to approve where the operator wrote one     *)
(* (R07 of the requirements).                                               *)
OneDraftPerComposition ==
    \A i, j \in DOMAIN created : created[i].edition = created[j].edition => i = j

(* What the page does keep: the attempts to save one composition become one *)
(* draft at most unless, between them, an import ended well whose row had   *)
(* been removed (requestId of the composer, request_id of create).          *)
OneDraftUnlessForgotten ==
    \A i, j \in DOMAIN created :
        created[i].edition = created[j].edition /\ created[i].forgotten = created[j].forgotten => i = j
===============================================================================
