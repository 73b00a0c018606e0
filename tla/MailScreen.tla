------------------------------ MODULE MailScreen ------------------------------
(***************************************************************************)
(* The mail list of the browser with its detail panel (src/src/app.js):    *)
(* the selected mail, the panel that was drawn for it, and the requests    *)
(* whose answers are written into that panel whenever they arrive.  Of a   *)
(* mail only its name is kept; which mails the filter and the search box   *)
(* let through is any part of the list.  A request that a newer one of its *)
(* kind has replaced (requestSequence !== ...Sequence) has latest = FALSE. *)
(***************************************************************************)
EXTENDS Naturals

CONSTANTS
  ScreenMails,   \* mails the server may show
  MaxLoads       \* bound: loads, and saves, in flight together

ASSUME ScreenAssumption == MaxLoads \in Nat \ {0}

NoMail == "none"

VARIABLES
  listed,        \* currentMessages
  selected,      \* selectedMessageId
  panel,         \* the mail the detail panel was drawn for
  output,        \* the mail whose answer the assistant's output shows
  files,         \* the mail whose attachments the panel shows
  toolRequests,  \* runAssistantTool awaiting its answer
  fileRequests,  \* loadReceivedAttachments awaiting its answer
  confirmed,     \* mails confirmed, the overview being loaded again
  hashFetches,   \* mails of the address bar that are being fetched
  loading,       \* loadOutlookMessages in flight
  saving         \* feedback, corrections, external replies in flight

screenVars == <<listed, selected, panel, output, files, toolRequests, fileRequests, confirmed, hashFetches,
                loading, saving>>

MailOrNone == ScreenMails \cup {NoMail}
ToolKinds == {"read", "confirm"}
ToolRequests == [mail : ScreenMails, kind : ToolKinds, latest : BOOLEAN]
FileRequests == [mail : ScreenMails, latest : BOOLEAN]

\* Types of the state.
ScreenTypeOK ==
  /\ listed \subseteq ScreenMails
  /\ {selected, panel, output, files} \subseteq MailOrNone
  /\ toolRequests \subseteq ToolRequests
  /\ fileRequests \subseteq FileRequests
  /\ confirmed \subseteq ScreenMails /\ hashFetches \subseteq ScreenMails
  /\ loading \in 0..MaxLoads /\ saving \in 0..MaxLoads

ScreenInit ==
  /\ listed = {} /\ selected = NoMail /\ panel = NoMail /\ output = NoMail /\ files = NoMail
  /\ toolRequests = {} /\ fileRequests = {} /\ confirmed = {} /\ hashFetches = {}
  /\ loading = 1 /\ saving = 0    \* the start of the page loads the mails

UnchangedPanel == UNCHANGED <<selected, panel, output, files, fileRequests>>
UnchangedRequests == UNCHANGED <<toolRequests, confirmed, hashFetches, loading, saving>>

\* The requests once a newer one is made.
Replaced(requests) == {[request EXCEPT !.latest = FALSE] : request \in requests}

-----------------------------------------------------------------------------
\* Drawing.

(* selectMessage(mail) on the mails of the list: the panel is drawn anew,   *)
(* its outputs empty, and the attachments of the mail are asked for.  A     *)
(* mail that is not there becomes the selected one, and nothing is drawn.   *)
DrawnFor(mail, mails) ==
  /\ selected' = mail
  /\ IF mail \in mails
     THEN /\ panel' = mail /\ output' = NoMail /\ files' = NoMail
          /\ fileRequests' = Replaced(fileRequests) \cup {[mail |-> mail, latest |-> TRUE]}
     ELSE UNCHANGED <<panel, output, files, fileRequests>>

(* renderFilteredView: the selected mail where it is visible, else the      *)
(* first visible one; with none visible the panel is emptied.               *)
Redrawn(mails, wanted) ==
  \E visible \in SUBSET mails :
    IF visible = {}
    THEN /\ selected' = NoMail /\ panel' = NoMail /\ output' = NoMail /\ files' = NoMail
         /\ UNCHANGED fileRequests
    ELSE \E first \in visible :
           DrawnFor(IF wanted \in visible THEN wanted ELSE first, mails)

\* renderFilteredView, then selectMessage(mail) whatever was drawn.
RedrawnThen(mail) ==
  \E visible \in SUBSET listed :
    IF mail \in listed
    THEN DrawnFor(mail, listed)
    ELSE /\ selected' = mail /\ output' = NoMail /\ files' = NoMail
         /\ IF visible = {}
            THEN panel' = NoMail /\ UNCHANGED fileRequests
            ELSE \E first \in visible :
                   /\ panel' = first
                   /\ fileRequests' = Replaced(fileRequests) \cup {[mail |-> first, latest |-> TRUE]}

(* render, which drops every filter: the mail of the address bar where the  *)
(* list has it, else the selected one, else the first.                      *)
Rendered(mails) ==
  IF mails = {} THEN Redrawn({}, NoMail) ELSE \E mail \in mails : DrawnFor(mail, mails)

-----------------------------------------------------------------------------
\* What the user does.

\* A card of the list, or a search result that the list has.
Select(mail) ==
  /\ mail \in listed
  /\ DrawnFor(mail, listed)
  /\ UnchangedRequests
  /\ UNCHANGED listed

\* A filter is chosen, or the search box changes and is not empty.
Filter ==
  /\ Redrawn(listed, selected)
  /\ UnchangedRequests
  /\ UNCHANGED listed

\* A button of the panel: a summary, a draft, a second opinion, or confirm.
RunTool(kind) ==
  /\ panel # NoMail
  /\ toolRequests' = Replaced(toolRequests) \cup {[mail |-> panel, kind |-> kind, latest |-> TRUE]}
  /\ output' = NoMail
  /\ UNCHANGED <<listed, selected, panel, files, fileRequests, confirmed, hashFetches, loading, saving>>

\* Feedback, a correction or an external reply is saved from the panel.
Save ==
  /\ panel # NoMail /\ saving < MaxLoads
  /\ saving' = saving + 1
  /\ UnchangedPanel
  /\ UNCHANGED <<listed, toolRequests, confirmed, hashFetches, loading>>

\* loadOutlookMessages, by its button or after a sync, a project, settings.
Load ==
  /\ loading < MaxLoads
  /\ loading' = loading + 1
  /\ UnchangedPanel
  /\ UNCHANGED <<listed, toolRequests, confirmed, hashFetches, saving>>

(* openHashedMessage, when the address changes and after every load: a mail *)
(* that is not in the list is fetched.                                      *)
OpenHash(mail) ==
  /\ IF mail \in listed
     THEN DrawnFor(mail, listed) /\ UNCHANGED hashFetches
     ELSE hashFetches' = hashFetches \cup {mail} /\ UnchangedPanel
  /\ UNCHANGED <<listed, toolRequests, confirmed, loading, saving>>

-----------------------------------------------------------------------------
\* What arrives.

\* Only the sequence is compared: whatever mail is selected by now.
BadStillAsked(request) == request.latest

\* requestSequence and messageId are still those of the screen.
StillAsked(request) == request.latest /\ request.mail = selected

\* The answer of a tool, or its error, which is written the same way.
ToolAnswers(request) ==
  /\ toolRequests' = toolRequests \ {request}
  /\ output' = IF StillAsked(request) THEN request.mail ELSE output
  /\ \/ request.kind = "confirm" /\ StillAsked(request) /\ confirmed' = confirmed \cup {request.mail}
     \/ UNCHANGED confirmed   \* not a confirmation, outdated, or refused
  /\ UNCHANGED <<listed, selected, panel, files, fileRequests, hashFetches, loading, saving>>

\* After a confirmation the overview was loaded: the mail is selected again.
ConfirmEnds(mail) ==
  /\ confirmed' = confirmed \ {mail}
  /\ RedrawnThen(mail)
  /\ UNCHANGED <<listed, toolRequests, hashFetches, loading, saving>>

FilesArrive(request) ==
  /\ fileRequests' = fileRequests \ {request}
  /\ files' = IF StillAsked(request) THEN request.mail ELSE files
  /\ UnchangedRequests
  /\ UNCHANGED <<listed, selected, panel, output>>

\* A save is answered: the list is drawn again, or an error is shown.
SaveAnswers ==
  /\ saving > 0
  /\ saving' = saving - 1
  /\ Redrawn(listed, selected) \/ UnchangedPanel
  /\ UNCHANGED <<listed, toolRequests, confirmed, hashFetches, loading>>

\* Another list is rendered, or an error is shown.
LoadAnswers ==
  /\ loading > 0
  /\ loading' = loading - 1
  /\ \/ \E mails \in SUBSET ScreenMails :
          /\ listed' = mails
          /\ Rendered(mails)
     \/ UnchangedPanel /\ UNCHANGED listed
  /\ UNCHANGED <<toolRequests, confirmed, hashFetches, saving>>

\* The mail of the address bar arrives and leads the list, or does not exist.
HashAnswers(mail) ==
  /\ hashFetches' = hashFetches \ {mail}
  /\ \/ listed' = listed \cup {mail} /\ Rendered(listed')
     \/ UnchangedPanel /\ UNCHANGED listed
  /\ UNCHANGED <<toolRequests, confirmed, loading, saving>>

ScreenNext ==
  \/ Filter \/ Save \/ Load \/ SaveAnswers \/ LoadAnswers
  \/ \E kind \in ToolKinds : RunTool(kind)
  \/ \E mail \in ScreenMails : Select(mail) \/ OpenHash(mail)
  \/ \E request \in toolRequests : ToolAnswers(request)
  \/ \E request \in fileRequests : FilesArrive(request)
  \/ \E mail \in confirmed : ConfirmEnds(mail)
  \/ \E mail \in hashFetches : HashAnswers(mail)

ScreenSpec == ScreenInit /\ [][ScreenNext]_screenVars

-----------------------------------------------------------------------------
(* What the assistant wrote and the attachments that are shown are those of *)
(* the mail that is selected, whatever was selected, loaded, confirmed or   *)
(* asked again while they were under way.                                   *)
AnswersAreOfTheSelection ==
  /\ output # NoMail => output = selected
  /\ files # NoMail => files = selected
=============================================================================
