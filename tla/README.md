# Verification of Mail Intelligence

Mail Intelligence is one Node.js process in front of a SQLite database. It mirrors
Outlook mailboxes through Microsoft Graph, classifies what it finds, drafts replies,
sends a draft after an operator or a signed Jarvis receipt has approved it, keeps
encrypted attachments, and hands evidence on to Second Brain and the CRM.

The TLA+ modules here model the parts whose correctness depends on *order*: what is
read before an `await` and used after it, what two requests or two timer ticks do to
one row, what a crash leaves behind; and the rules a mail is classified and found by, over
the facts that patterns find in it. Nothing here is about wording or layout.

Paths are relative to the repository; `src/` below is its `src/` directory and
`server.mjs`, `migrations/` and `docs/` lie beside it.

Contents

1. The system: inventory
2. The modules and how they correspond to the code
3. The runs, their bounds and what they show
4. Fairness
5. What is proved
6. Findings
7. What is only model-checked, and what is not modelled
8. Plan
9. How to run it

---------------------------------------------------------------------------

## 1. The system: inventory

The process is single-threaded: a stretch of JavaScript without an `await` is atomic,
and so is every `BEGIN IMMEDIATE … COMMIT`. Concurrency comes from HTTP requests that
suspend at their awaits, from `setInterval` ticks that do not wait for the one before,
and from two scripts (attachment retention, backups) that open the same database from
processes of their own. Everything in memory is lost at a restart.

| Component | State | Operations | What makes it correct | Modelled |
|---|---|---|---|---|
| **Outgoing mail store** `mail-send-drafts.js`, `jarvis-receipt-gate.js` | drafts and their events, reconciliation jobs, receipt uses | create, approve, claim, cancel, restore, recordOutcome, enqueueReconciliation | a draft is sent once, by someone entitled, and reported truthfully | `SendDrafts` |
| **Send API, Graph send client** `mail-send-api.js`, `microsoft-graph-send.js` | handlers at their awaits | approve-and-send, poll, cancel, restore | no check is stale when the POST leaves | `MailSend` |
| **Reconciliation worker** `send-reconciliation-worker.js` | leases and backoff | claimDue, finish, runOnce | a draft with an unknown outcome is looked at until it is known | `MailSend` |
| **Attachment assets** `mail-attachment-assets.js` | rows, reservations | upload, replay, discard, getContent | quotas, one meaning per request id | `AttachmentAssets` |
| **Attachment retention** `attachment-retention.js` (own process) | a plan in memory | plan, apply | nothing a draft still needs is cleared | `AttachedDrafts` |
| **Mail synchronisation** `mail-sync.js`, `microsoft-graph-mail.js`, `persistent-mail-memory.js`, `sqlite-store.js`, `resilience.js` | cursors, rows, the sync in flight | discover, page, commit, retry, reset | cursor and rows agree; the store mirrors the mailbox | `MailSync` |
| **Company memory donor** `company-memory-donor*.js` | outbox rows, ticks | enqueue, publish, settle | emitted means received; settled stays settled | `DonorOutbox` |
| **Reply drafts, handled elsewhere** `reply-draft-pipeline.js`, `handled-elsewhere*.js` | markers, pipeline drafts, cancellations by the system | mark, undo, cancel answered, restore, write drafts | an undone mark leaves nothing cancelled; what a person restored stays | `ReplyReview` |
| **Drive connections** `mail-drive-*.js`, `google-drive-client.js` | connection, file grants, OAuth states, imports | connect, select, import, recheck, disconnect | an asset has the bytes of the version it records; one connection per flow | `DriveGrants` |
| **Intake grant and identity** `intake-authorization.js`, `intake-identity.js`, login and token refresh in `server.mjs` | token, pinned binding in memory and file, proof, epoch | register, prove, refresh, log in, change settings, sync | a mail is filed under the account it was fetched from | `IntakeGrant` |
| **Sync work intake** `mail-work-intake.js`, `sync-work-intake.js`, `cwos-*.js` | links, candidates, deliveries | read masters, ingest, post, look up | what is written of a mail is of the mail as it stands | `WorkIntake` |
| **Precision classification and work links** `precision-classifier.js`, `mail-event-extractor.js`, `operational-classification.js`, `precision-llm.js`, `precision-intelligence.js`, `work-links.js` | verdicts, corrections, policies, links | classify, ask a model, correct, refresh links, import projects | corrections outrank; verdicts show the links; no event is lost; conflicts are reviewed | `PrecisionStore`, `PrecisionRules`, `MailEvents`, `DueDates`, `Selections` |
| **Mail search** `intelligent-search.js`, `search-semantic-ranker.js` | none | parse, retrieve, rank, widen | the latest mails are the newest that answer | `MailSearch` |
| **AI providers, circuits** `ai/*`, `ai-contract.js` | analyses in flight, cache, circuits | enrich, call, keep, fail | what the cache gives is of the mail, provider and model at hand | `AiAnalysis` |
| **HTTP server and configuration** `server.mjs` | settings in memory and two files | change, save, migrate, refresh | no provider without consent for this release | `RuntimeConfig` |
| **Sessions and access** `browser-session-store.js`, `server.mjs` | sessions in memory and table, access keys, the old JSON file | log in, use, expire, log out, rotate, import | a revoked session stays revoked | `AccessSessions` |
| **Backup, restore, integrity** `backup-restore.js`, `shared-integrity.js`, `integrity-worker.js` | database files, backups, the check in flight | back up, restore, check | a restored database is the backup; "ready" is recent | `DatabaseRestore`, `SharedIntegrity` |
| **Release activation** `scripts/activate-user-release.mjs` and its two helpers | environment files, unit, process, script | prepare, activate, prove, undo | an activation ends proven or restored | `ReleaseActivation` |
| **Browser UI** `app.js`, `send-review.js` | selection, panel, form, requests | select, ask, load; compose, attach, save, act | answers are shown for the mail they are of; one draft per composition | `MailScreen`, `SendReview` |
| **Attachment scanner and policy** `attachment-pipeline.js`, `attachment-policy.js` | none | check a file | one file in, one verdict out | as a choice |
| **Notion and calendar adapters; assistant tools and styles** | none | read-only calls; transformations of a text | request shapes, wording | no |

How they interact:

    Graph --delta pages--> Mail synchronisation --ids--> Sync work intake --rows--> outbox
      ^                          |  rows                                              |
      |                          v                                          Company memory donor
      +--sendMail, Sent Items-- Send API, worker <-- drafts <-- reply drafts          |
                                  ^        |  'sent' enqueues a row ------------------+
                     files frozen |        v                                          v
        uploads --> Attachment assets <-- retention process                     Second Brain

* A draft freezes the assets it names; the approval awaits their buffers and the Drive
  grants, then one transaction approves and claims, then the POST is made.
* Recording `sent` completes the job and enqueues the donor's row in the same transaction.
* A sync commits pages, then ingests what they stored; intake enqueues donor rows.
* A sync also cancels drafts that have been answered or are marked as handled elsewhere.
* Uploads, discards and retention change the rows that an approval verified before.
* A sync captures the intake grant before it fetches and files what it fetched under it; a
  login, a token refresh or new settings can come between.
* The intake reads masters from CWOS, gives the mail links, and posts a candidate; the mail may
  be stored again while either is awaited.
* Rules, a model, the operator, learned policies, work links and the project import write one
  verdict row.
* The browser writes answers into the panel whenever they arrive, and repeats a save whose answer
  was lost under the same request id.

The hard behaviours, each with its line and the properties aimed at it, are listed under
`hazards` in `PROJECT.json`. In short: checks separated from the POST by awaits; a crash
between claim, POST and record; worker runs and donor ticks that overlap; answers that
come late; quota arithmetic over uploads of unknown size; a retention plan that is old
when applied; a delta interrupted between pages; ids that live in memory only; cursors
that expire; candidates Second Brain cannot replace; answers that arrive for another mail than the
one on the screen; a save repeated because its answer was lost; a token that changes between fetching
and filing; a link refresh or a model's answer beside a correction; a file edited between metadata and
download; a backup put back over a killed server's files; an environment that changes between its proof
and the start that reads it.

---------------------------------------------------------------------------

## 2. The modules and how they correspond to the code

In each family the component's module declares the state, one operator or action
per operation and the properties; an `MC…` module gives the constants their small values; a
`…Proofs` module extends the components' modules, or the suite that runs them, and TLAPS. A definition
whose name starts with `Bad` is its neighbour with one plausible mistake; no specification uses it.

What several modules choose from a sequence (the first rule that applies, the entries at some places)
is in `Selections`, by positions and not by `SelectSeq`, so that it can be proved about. What the proofs
count with (sums over finite sets, the n-th in an order, the entries of a selection) is in
`CountingTheorems`.

| Proofs | About |
|---|---|
| `MailSendProofs` | `SendDrafts`, `MailSend`, `SendOnce`, `ReplyReview`, `MailScreen`, the suite `MCReplies` |
| `AttachedDraftsProofs` | `AttachmentAssets`, `AttachedDrafts` |
| `MailboxProofs` | `MailSync`, `PrecisionStore`, `WorkIntake`, the suite `MCMailbox` |
| `DonorOutboxProofs` | `DonorOutbox` |
| `OperatorProofs` | `SendReview`, `IntakeGrant`, the suite `MCComposer` |
| `MailReadingProofs` | `MailEvents`, `DueDates`, `PrecisionRules`, `MailSearch` |
| `OperationsProofs` | `DriveGrants`, `AccessSessions`, `RuntimeConfig`, `AiAnalysis`, `SharedIntegrity`, `DatabaseRestore`, `ReleaseActivation`, the suite `MCOperations` |

### 2.1 Sending: `SendDrafts`, `MailSend`, `SendOnce`

`SendDrafts` is the database side. Each method of `MailSendDrafts` is one transaction
without an await, hence one operator; a statement that throws rolls back and is a guard.
`status`, `approvedBy` are columns; `reviewed` and `cancelledBy` stand for the event log,
from which `priorReviewStatus` and `system_cancelled` are computed; `job` and `ripe` are
the job's state and whether its due time or lease has passed; `used` is
`jarvis_receipt_uses`, keyed by receipt and *item digest* as its primary key is; `outbox`
holds the drafts with a donor row. Digests are model values, so that two drafts can share
one.

`MailSend` says who calls them. A handler (`hpc`, `hdraft`, `hactor`, `hout`) is cut at its
awaits:

    StartApprove -- awaits: token, buffers, Drive --> ClaimWon | ClaimedBefore | ApproveRefused
    ClaimWon --> Post | PreflightFails --> Answer202 | Answer4xx | AnswerUnknown
    Answer202 --> ReceiptFound | ReceiptNotFound --> RecordAnswer

`MayApprove` is `mail-send-api.js`'s derivation of the actor, with and without the receipt
gate. Polling (`StartPoll` …) is the GET that reconciles a draft still sending; requests for
one draft share an operation. A worker run (`Tick`, `LookFound`, `LookNotFound`, `Finish`,
`FinishThrows`) leases what is due and looks at it one by one; `Run` has two elements
because the timer does not wait for a run. Lease owners are not told apart: every run of a
process has the same worker id, so a lease held is a lease one owns. Graph is the
environment: it takes or refuses a POST whether or not anybody waits, files the copy later,
and a person may delete that copy. `Restart` clears what is in memory at any moment, so also
between claim and POST, POST and answer, answer and record.

`SendOnce` is the abstract promise: withdraw only while open, hand over at most once, report
what happened. `Abstract == INSTANCE SendOnce WITH phase <- PhaseOf, mail <- MailOf` maps
draft rows and the wire to it.

Decisions worth knowing:

* `approve` and `claim` are one step, being one transaction. The receipt item is consumed in
  it, which is why a refused approval costs nothing.
* A draft whose claim committed but whose POST never left stays `sending` with a live job.
  The documentation wants that ("unknown stays sending"), and no property claims otherwise.
* The rethrow of `EXTERNAL_RECIPIENT_CONFIRMATION_REQUIRED` after a claim is not reachable:
  line 148 makes the same check before the claim. It is not modelled.
* The scan of Sent Items is one step, and the batch limit of 20 jobs is dropped: the batch is
  everything due.
* `companyMemory` is configured; without it `outbox` would stay empty.

### 2.2 Attachments: `AttachmentAssets`, `AttachedDrafts`

`AttachmentAssets` has the rows (`asset`, `stored`, `late`), the reservations (`slot`, in
bytes) and the uploads (`upc`, `ureq`, `ucontent`). A row is never deleted and (mailbox,
source, request id) is UNIQUE, so a request id *is* the asset it can produce; an expired row
still holds the key, and a second upload of its id fails when it inserts. An upload is cut at
reading the body and at scanning. The key is in memory, so awaiting it lets no other request
in, and finding the row and reserving are one step (`StartUpload`). `size` is the declared
length or, without one, the limit. The sums of `reserve()` are `MapThenSumSet`.
`answered` is a history of which bytes each request id was confirmed for.

`AttachedDrafts` extends it with `SendDrafts`: `Verify` is `verifySendBuffers`, `ClaimWon` the
approval transaction with `assertFrozenAssets`, `PlanRetention` and `ApplyRetention` the two
halves of the script, which decides outside the transaction that clears. `ended` is the age of
the last terminal event, the only thing retention asks of time. `since` is a history: the drafts that have come
to need their files since the retention run under way decided. A restart keeps reservations.
What the handlers do between claim and outcome is `MailSend`'s business and is here one step
(`Delivered`, `Rejected`). A `needs_clarification` draft cannot become `needs_approval`: no
code edits a draft.

### 2.3 Synchronisation: `MailSync`

A folder's cursor is modelled by what it stands for: the version of every message Graph has
already told (`told`); `next_link` and `delta_link` are one cursor, since the code resumes from
either. `row` is the version in the store, `Gone` being a tombstone, `remote` the mailbox. A
page is any subset of what is pending, at most `PageSize` items; it is the last one exactly
when nothing else is pending at the time of the request, and only then is the run complete.
`Commit` is `applyDeltaPage`: rows and cursor in one transaction. `Refetch` is the fetch of a
partial item, which can be newer than the page. `Interrupted` is what `retryOperation` retries
(three attempts); `Fails` what it does not; `CursorExpires` the 410 and its single fresh run;
`MailboxFails` an exception outside the folders, which writes a dead letter for the mailbox as
a whole. `inflight` is `syncInFlight`: a *set*, so that "at most one" can fail. `ids` are the
`upsertedMessageIds` that travel through results and errors to the intake. A joined request
changes nothing, whatever its options were.

A message moved to another folder gets a new id (the client does not ask for immutable ids):
it is a deletion and an arrival.

`crashed`, `reset`, `calm`, `mirrored` are history: whether the server died in mid sync, which
folders lost a cursor, which did not change since their last run began, and for which such a
run was completed. No guard reads them.

### 2.4 Donor: `DonorOutbox`

`status` is the outbox row, `source` what `resolveMailCompanyMemorySource` would find now: 0
for a mail stored without text, a version, or `Gone`. A sent draft's source never changes. A
tick copies the pending rows and their sources (`Listed`, `StartTick`) and works through them:
`Skip` (no source: the one terminal code), `Reject`, or `Call` and then `Registers` and
`Receives` at Second Brain, `Acknowledged`/`Emit`, or `CallFails` at any point, also after
Second Brain did what was asked. `Tick` has two elements because the interval does not wait.
`Settle` is the `AND status = 'PENDING'` of both updates.

Second Brain is external and is modelled as the donor's documentation and the installed-CLI
check use it: a candidate must match the content registered last for its source; a candidate
is never replaced by one with other content; the same one again is accepted.

### 2.5 Reply drafts and the screen: `ReplyReview`, `MailScreen`

`ReplyReview` has two processes that write: the server, where a handler or the end of a sync runs to
its end before the next one starts, and the script that runs the pipeline by hand. `runner` is what
each is in the middle of, since every draft is changed in a transaction of its own and a process can
die between any two. Marking is `markHandledElsewhere` followed by `cancelPendingDrafts`, undoing is
`undoHandledElsewhere` followed by `restoreSystemCancelledDrafts`; `CancelOrSkip` is one turn of the
sync's loop over answered drafts. `leftBehind` is a history: the drafts an undo had still to restore
when the server died.

`MailScreen` is the list and the detail panel of `app.js`. Of a mail only its name is kept. A request
whose kind has been asked again since has `latest = FALSE`, which is the comparison of its sequence
number. Filter and search box let any part of the list through.

### 2.6 The operator: `SendReview`, `IntakeGrant`

`SendReview` is the page that composes a draft and reviews the stored ones, over a connection that
loses answers, with the creation of a draft as the server does it. `edition` and `forgotten` are not in the
code. `edition` counts the compositions, a new one with every change the operator makes, every file that joins
the form and every draft saved, so that "one draft per composition" can be said (`OneDraftPerComposition`).
An import that ends after its row was removed changes no composition and yet drops the request id;
`forgotten` counts these, for `OneDraftUnlessForgotten`.

`IntakeGrant` cuts the requests that touch the token (login, refresh, settings, registration,
re-verification) and the sync at their awaits. The epoch counter is not kept: `fresh` holds who
captured the present epoch. `ingested` is a history of mail, account fetched from, account filed under.

### 2.7 The verdict and the work: `PrecisionStore`, `WorkIntake`

`PrecisionStore` reduces a verdict to who decided it (`source`, `provider`) and to its project. What the
rules find is any of `RuleProjects`. Handlers run to their end; a model's answer and a link refresh are
awaited, and a correction takes several transactions between which the process can die.
`commitWorkLinkRefresh` takes any matching of mails with masters: how a match is scored is not modelled.

`WorkIntake` is what the intake does with a mail that `MailSync` hands it: two requests to CWOS for the
masters, the links, one candidate posted, its lost or late answer, the lookup that confirms it. A text is
the set of masters it names, `{}` a mail stored without its body. The text in `delivered` is a history.
`observedAt` is not kept, and a master that refers to something else is part of `MastersFail`. The run
has `AccountMasterGet = FALSE`, the default.

### 2.8 The rules: `MailEvents`, `DueDates`, `PrecisionRules`, `MailSearch`

A mail is the set of the facts that the code's patterns find in it; what the code makes of those facts
is translated in full: which events, their ranks, weights and confidences, the event that leads, actor,
purpose, priority, due date, project, lane, and then what a correction, a learned policy, a model and
the project import make of the row. `DueDates` counts days from the day the mail came and takes a month
named without its year for thirty days long. `MailSearch` translates the reading of a question (phrases, intents, words, limits),
the mails the database offers, their score, order and number, and the second, wider search. These
are pure functions, checked over sets of facts, mails and questions that reach each rule and pair of
rules (`MCPrecisionRules`, `MCMailSearch`).

### 2.9 Around the server: `DriveGrants`, `AccessSessions`, `RuntimeConfig`, `AiAnalysis`, `SharedIntegrity`, `DatabaseRestore`, `ReleaseActivation`

* `DriveGrants`: `ops` holds each request's step and what it read before its await; `Request` is a
  request at a step. Google's side is a sequence of contents per file and an access.
* `AccessSessions`: memory, table, and the JSON file of older releases; a write may fail at any role and
  the server may die between two steps of its start.
* `RuntimeConfig`: a settings request copies the settings, awaits two writes, and puts its copy into use;
  a refresh or a login changes them at once and saves afterwards. A release brings a version of the data
  policy. `AiAnalysis` extends it with analyses, the cache and the circuits. The cache's key is the change key
  or, without one, the time the mail was received, which no edit changes, with provider and model: revisions
  without a change key (`WithChangeKey` holds those that have one) share a key. That the model the settings
  name changes is a step of its own, at any time.
* `SharedIntegrity`: the clock is a counter, the worker has one check at a time, a refused check may
  still end.
* `DatabaseRestore`: the content of a database is the number of the last transaction in it; a server that
  is killed leaves a log beside the main file.
* `ReleaseActivation`: environments are functions from names to values, `Above` lays one over another. The script's
  steps are actions of their own; the operator, the manager's environment and systemd move between any
  two. The four kill switches and the calendar are one name, the four donor keys another. systemd may
  restart a failing service between the reload and the rollback; the property excepts what has not been
  restarted by the script. The operator's edits do not name the commit (`ReleaseAssumption`), as
  `docs/runbooks/UBUNTU-DEPLOYMENT.md:43-62` has it.

### 2.10 The suites

Components that share no state are checked in one run: `MCReplies`, `MCComposer`, `MCMailbox` and
`MCOperations` have a variable `chosen`, a behaviour runs the part it has chosen, and the others stay where
they began. So the states of a run are the sum, not the product, of those of its parts. That a behaviour of
a suite is one of each of its parts is proved (section 5). `MCLiveness` joins `MailSend` and `MailSync` in
the same way for what must happen at some time; the part that is left alone has no fair action enabled.

---------------------------------------------------------------------------

## 3. The runs, their bounds and what they show

| Run | Instance | Shows |
|---|---|---|
| `mailsend_receipts` | gate on; drafts d1, d2 of the bot with one digest, both in receipt r1; d3 a session's, unclear; 2 handlers, 1 worker run. Compositions of two files, one of them from Drive, or a link, two request ids, one draft's details at a time (`FewRequests`). Two accounts, two requests at the intake, one mail | Every POST was approved by someone entitled; a receipt item approves one draft only; restoring is no way around a clarification; one draft per composition unless an import forgot its request id; a mail is filed under the account it came from |
| `mailsend_races` | 1 draft, 3 handlers, 2 overlapping worker runs, 2 restarts. Two mails of one conversation, two moments. Two mails on the screen, one load at a time | One POST; truthful rows; a job for every draft being sent; refinement of `SendOnce`; an undone mark leaves nothing cancelled; a restore holds; the panel's answers are of the selection |
| `composer_retry` | one file from Drive, one wording, two request ids | **violated**: one composition becomes two drafts |
| `liveness` | 2 drafts, 1 handler, 1 worker run, 1 restart; 1 folder, 1 message, 3 versions; fair | A mail in Sent Items ends up recorded; syncs end |
| `attachments` | 2 drafts, q1 shared and q2 of one, contents of length 1 and 2, 2 uploads, quotas 2 and 3, any number of restarts; symmetric uploads | Both quotas hold; a request id is answered for one content; a claim finds all its files; a draft that needs its files keeps them, unless it came to need them after a retention run had decided |
| `attach_slots` | the same store | **violated**: a crash leaves a reservation for ever |
| `mailbox` | 1 folder, 2 messages, 2 versions and deletion, one-item pages. Two mails of one sender, one text, a correction of work and project, one master. One mail, one account with an engagement, two revisions, one post, two versions of CWOS | No cursor ahead of the rows; rows never go back; mirror; nothing skips intake; links agree; corrections outrank; what is written is of the mail |
| `mailsync_reset` | as the sync of `mailbox` | **violated**: a cursor reset leaves deleted mail alive |
| `donor_outbox` | 1 mail with 2 versions, 1 sent draft, 2 ticks, fair | Emitted means received; pending rows are settled |
| `donor_replay` | the same | **violated**: an emitted row is published again |
| `operations` | One Drive file with two versions, two requests, two operations, two flows. Two sessions, three logins, two keys. One settings request, one provider, two models, two policies, two analyses, two revisions of which one has a change key, threshold two. Two readers, maximum age two, six moments, four generations. Five commits, two restores. The rules over events in every context and every two events of a kind. Questions and mailboxes of three mails. Two files of edits, three starts of the service | The properties of those components, one by one in `PROJECT.json` |
| `classification` | pairs of incoming events | **violated**: a mail in review is shown in the archive |

Why the bounds are enough. Sending: the hazards are between an approval, a repeated approval
and a poll of *one* draft (three handlers), between runs whose leases overlap (two), and after
a restart during recovery from a restart (two); drafts interact through receipts alone, where
two with a common digest and a third suffice. Attachments: the limit, both quotas, a conflict and
a reservation left by a crash are all reached with two ids; lengths 1 and 2 with `MaxFile` 2
make "unknown size" differ from the real one, and two drafts make a file that one draft still needs
and another has done with. Synchronisation: pages of one item make every
run with two changes stop in between; a message needs two live versions to be edited while a
page is underway, and folders share nothing but `ids` and the order of `todo`, which is
arbitrary; the proofs are for any number. Donor: rows share nothing but a tick's attention. The
others: two of whatever can overtake the other (requests, readers, mails, versions, tokens, policies), and
one step more than the longest chain the code makes of it (three logins for two sessions, a third start after
an activation and its undoing). One settings request never overlaps another in the run `operations`; that
copies of the settings may overlap is covered by the proof of `ProviderIsAccepted` alone. A search keeps nothing, so a behaviour of it asks one question.

Bounds that exist only for TLC: `MaxRestarts` (`MailSend`), `MaxVer`, `PageSize`, `MaxTexts`,
`MaxRevisions`, `MaxRuntime`, `MaxPosts`, `MaxClock`, `MaxLoads`, `MaxEditions`, `MaxRequestIds`,
`MaxVersion`, `MaxStarts`, `MaxSessions`, `MaxLogins`, `MaxKeys`, `MaxTokens`, `MaxRevision`, `MaxNow`,
`MaxGenerations`, `MaxCommits`, `MaxRestores`, `MaxEdits`, `MaxServiceStarts` and the sizes of the sets. Each is a constant, so
the proofs hold for all of its values. `FewRequests` (`MCComposer`) is a constraint: it keeps `mailsend_receipts` to
the states with one request for details and two for the list under way; the theorems have no such bound. Restarts in `MailSync`, `DonorOutbox` and `AttachedDrafts` and
failures everywhere are not bounded.

Deadlock is checked where the system has no reason to stop; `mailbox`, `operations` and their parts that
count to a bound (commits, moments, logins, versions) stop there, and their configurations say so.

Each property of a passing run has a mutant in `PROJECT.json`: a `Bad…` definition that, put
in the place of its neighbour, makes TLC refute that property in that run.

---------------------------------------------------------------------------

## 4. Fairness

Three components state any (`MCLiveness` assumes that of the first two); all safety runs use plain `Spec`.

* `MailSend!Fairness`. Weak fairness of the worker (`setInterval` keeps firing, a run that
  awaits a Graph call with a timeout goes on), of due times passing, and of Graph filing what it
  accepted; strong fairness of `LookFound`: a read of Sent Items that is repeated while the copy
  is there succeeds at some time. Neither handlers nor operators are fair: a mail must be
  recorded although everyone who waited for it has gone.
* `MailSync!Fairness`. Weak fairness of `SyncStep` as a whole: each request has a timeout and
  each retry a last attempt, so a sync does not stand still. Nothing is assumed about which
  step it takes: it may fail every time.
* `DonorOutbox!FairSpec`. Weak fairness of the interval and of each tick (a call is killed after
  ten seconds); strong fairness, per row, of having its turn in spite of restarts and of
  registering, receiving and emitting: Second Brain does not turn the same row down for ever.
  The last is an assumption about the environment and the property is worth what it is worth.

---------------------------------------------------------------------------

## 5. What is proved

Every theorem is checked by TLAPS to its last leaf and holds for all values of the constants
within the named `ASSUME`s of the modules. These say no more than that functions have the right
domains, that marker values are not members of the sets they mark, that bounds are natural numbers
and that there is at least one of what a type starts from (`DraftAssumption`, `ActorAssumption`,
`ProcessAssumption`, `AssetAssumption`, `AttachAssumption`, `SyncAssumption`, `DonorAssumption`,
`ReviewAssumption`, `ScreenAssumption`, `ComposerAssumption`, `PrecisionAssumption`,
`IntakeAssumption`, `DriveAssumption`, `ConfigAssumption`, `AnalysisAssumption`,
`IntegrityAssumption`, `RestoreAssumption`, `SessionsAssumption`); `AssetAssumption`,
`SyncAssumption` and `DriveAssumption` also say that request ids, messages, and browsers and operations are
finitely many, `ComposerAssumption` that a file is local or from Drive, `AnalysisAssumption` that there is a model. Three say
more, each with the code it stands on:

* `ReleaseAssumption`: the operator's edits do not name the commit of a release
  (`docs/runbooks/UBUNTU-DEPLOYMENT.md:43-62`);
* `RulingsAssumption`: what a person sets and what a model answers has the values of its field, as
  `normalizePrecisionCorrection` (`precision-classifier.js:1715-1759`) and `parsePrecisionLlmResponse`
  (`precision-llm.js:140-212`) enforce;
* `SearchAssumption`: a mailbox is finite and `received`, the place of a mail in `ORDER BY date DESC,
  m.id DESC` (`sqlite-store.js:1989-2002`), is its own.

TLC evaluates each of them in a run.

**`CountingTheorems`** replaces induction, which the provers cannot use here. Of every set of natural
numbers there is a least (`Least`), and in a finite set every family of subsets has a smallest member
(`SmallestMember`): a claim that fails of some part of a finite set fails of a smallest one, and taking one
element out of that gives the contradiction. On this rest the sums (`TotalOfOne`: which element is taken out
first makes no difference; `TotalMonotone`), and counting off: in a set that is totally ordered ranks are
different and every rank is somebody's (`RanksGrow`, `EveryRank`), so that the n-th is well defined (`NthIs`)
and a list of the n-th ones holds each once (`CountedOff`); the same for the entries at some places of a
sequence (`AtPlacesAre`).

**`MailSendProofs`**. The properties are not inductive: whether a row may become `sent` depends
on the answer a handler, a poll or a worker run *holds in memory*. `Core` therefore adds to the
table facts (`DraftTruth`: nothing was posted for a draft that is not committed) that one handler
at most serves a draft whose claim it won (`OneServer`), and what each process may hold: a handler
in `claimed` has a draft still `sending` and untouched by any POST, a held receipt implies a copy
that reached Sent Items, a held rejection a mail that Graph refused (`HandlerTruth`, `RunTruth`).
`NeverSentTwice` and `NeverMisreported` follow. `Full` adds the facts about
approvals (`ReviewTruth`, `ApprovalTruth`); since those concern the tables alone, each is shown for
the operations of `SendDrafts` (`TableOperation`), and `TableStep` shows that every step of
`MailSend` is one of them or leaves the tables alone. `Refinement` maps each operation on the
tables and each step of the wire to a step of `SendOnce` or to stuttering.

*Reply drafts.* That an undone mark leaves nothing cancelled is not inductive: between its two
transactions an undo still owes the restore. `OnlyUndoOwes` says that nobody else does, and
`CancelsForMarks` that a sync or a handler under way cancels only for marks that still stand, which holds
because marks change while the server rests. `RestoreHolds` needs `RunsReadWhatIsSent`: what a run read
of the Sent folder was sent. The screen's property is inductive with the types of its requests
(`ScreenInv`): each way to draw a panel drops what the old one showed.

**`AttachedDraftsProofs`**. Types need `PlanHasRows` (a retention plan names only assets that exist).
`UploadInv` joins `SlotGuardsRequest` (the reservation of an upload keeps others off its request id),
`HeldBound` and `SameRequestSameBytes`; since each upload in progress has a reservation of its own,
`UploadsBounded` follows by an injection from uploads to reservations (`OneSlotEach`). `ClaimsAreComplete` is an action property of
the type invariant. `NeededFilesStay` needs an invariant: whatever is on a retention run's plan is named by nobody
who needs it, but by those in `since` (`SinceCovers`). It holds when the plan is made, as retention asks just that (`Purgeable`), and
every later step by which a draft comes to need its files puts it into `since`. `QuotasHold` follows the sums: a
reservation adds its size to `Reserved` only where the quota has room, storing moves at most what was
reserved from one sum to the other (`SlotGuardsRequest` says whose reservation it is), and whatever else
happens only takes rows out of a sum.

**`DonorOutboxProofs`**. `CallsAreListed` (a row being called is on the tick's list, with a text),
`AnswersHold` (an accepted call means that Second Brain has a candidate), `KeptIsReadable` and
`KeptIsSeen` (the source of a sent draft is readable, and whatever tick listed it has read it).
`TerminalForGood` follows from the guards of the two updates and of the insert, whatever a tick holds.

**`OperatorProofs`**. `ProofIsOfThePin` (a proof in hand is of a token of the pinned account) and
`GrantInFlight` (a registration about to be written holds such a token, a sync past its gate the
principal of the binding it froze) give `FiledByAccount`; that the captured epoch is compared again before
each use is what makes them inductive. For the composer, all attempts of one composition between two
forgotten ids carry one request id, the lost ones on their way included (`OneIdPerEdition`), and the server makes one
draft per id (`OneDraftPerId`).

**`MailboxProofs`**. *Sync*: `OneSync` carries the rest: a page in hand stems from the cursor that is still
stored, so no other page can have been applied meanwhile. `Covered` (`told <= row <= remote`, and
nothing told without a cursor) with `PagesFit` (`row <= listed <= items <= remote` for every message
of a page in hand) is inductive and gives `CursorsAreCovered` and `RowsOnlyAdvance`. The mirror needs
three more facts: a folder that lost no cursor knows every row it has (`RowsKnown`), a page of a calm
folder is what the mailbox still has (`PagesCurrent`), and a last page of a calm folder leaves nothing
untold (`LastPagesTellAll`). `IntakeMissesNothing` is inductive with `OneSync`. *Verdicts*: a verdict is a
whole one whoever wrote it (`PrecisionInv`), and then `LinksAgree` and `CorrectionsHold` are shown writer by
writer. *Intake*: one candidate at most is awaited and it is the one the sync has sent (`OneAwaited`), and
`created` is only ever answered once CWOS has it
(`CreatedIsIn`).

**`MailReadingProofs`**. *Events*: each extractor's events are read off its rules once, with rank, type,
confidence and what they state (`…Weighed`, `…Stated`, `…Differ`); `Bases` is the table of what a type
weighs. An event that asks for something weighs more than any that does not (`AskingIsAhead`), and events
that share a rank are of types that weigh differently (`EventsDiffer`), so none are level (`NoneLevel`) and one
leads whatever order they are found in (`NoOrderDecides`). *The row*: `RowInv` says of a stored verdict of the
rules that a conflict of projects is up for review with its reasons and that no asking event was missed,
besides having all its columns; a person, a policy or a model makes the verdict theirs and owes nothing of
that (`RuledOtherwise`), and a project import sets the project together with its review
(`ReclassifyKeeps`). *Search*: mails are ordered by keys of eleven numbers, compared by the first in which
they differ, which is a strict total order (`LessIsTotal`, `LessOneWay`, `LessIsTransitive`); the last number
is `received`, so each mail has a key of its own and the ranked list is the mails counted off (`RankedIs`).
For a question about the latest, the first number that tells two mails apart after advertising is the time,
all that match are read before others are left out, and so the newest come first (`LatestComeFirst`).

**`OperationsProofs`**. *Drive*: each request past a step still has what the step was about
(`InFlight`); between the two metadata the bytes are of the version first read or a later one, and the
comparison decides which; versions are kept (`VersionsKept`). *Settings*: no copy in memory, of the
server or of a request, has a provider the release did not accept (`OnlyAccepted`), and a server that is
down has no copy but the defaults (`DownIsEmpty`), so a new release meets no old copy. *Analyses*: every
cached answer has the key of what it was asked about (`KeyedAsAsked`), over the settings' invariant; two that share a
key agree on provider and model, and on the revision unless neither has a change key (`CachedIsOfThePresent`). *Restore*: what the command has done is what the files show (`FilesOfStep`), as no server runs
beside it (`OneAtATime`). *Integrity*: generations are given once, so the check that ends is that of the
recheck that waits for it (`CheckIsTheTasks`); a good result says that what broke the database came after
the check began (`SawTheDamage`, `GoodWhenTaken`), and the age of a result bounds the rest. *Release*: the
drop-in on disk and the loaded unit follow the script's steps (`UnitsFollow`), `runtime.env` what it
overwrote (`RuntimeFollows`), and the process looked at is known by its pid (`ProcessFollows`).
*Flows*: what is connected, in a callback or waiting as a state in some browser is together no more than was
started (`FlowsCounted`), a sum over browsers of which a step changes one. *Sessions*: that a session logged
out stays out is not inductive, since a start reads it back from what an earlier write left. `SessionInv` adds
that an id belongs to one session with one role wherever it stands (`OneSessionEach`), that memory and table of
a running server are of the present keys (`OfPresentKeys`), that the old file is of an older key once its session was
logged out (`OldFileIsSpent`), and that no row is of a session that was logged out (`RowsAreLive`).

**The suites.** `RepliesRunTheirParts`, `OperatorRunsItsParts`, `MailboxRunsItsParts` and
`OperationsRunTheirParts` show that every behaviour of a suite is one of each of its parts' specifications, so a
theorem about a part is one about the run that checks its property. From them and the parts' types follow
`MailboxTypeCorrect` and `OperationsTypeCorrect`.

The theorems worth knowing are listed in `PROJECT.json`. Some state properties that no run
repeats, as the proof says more: `SlotGuardsRequest`, `UploadsBounded`, `SpentReceiptWasClaimed`,
`SettledForGood`, `TerminalForGood`, `SentIsNeverSkipped`.

---------------------------------------------------------------------------

## 6. Findings

1. **Reservations survive a crash** (`attach_slots`). `upload()` commits a reservation, then
   awaits body and scan. If the server dies there, nothing releases it: no start-up code and
   no script touches `mail_attachment_reservations`. Its bytes and its slot count for ever, and
   after `maxConcurrentUploads` of them no upload is accepted.
2. **A cursor reset forgets deletions** (`mailsync_reset`). A fresh delta lists what exists;
   tombstones are only written for listed removals. Mail deleted between the last page of the
   old cursor and the reset stays live in the store although the sync completes.
3. **Replay of an emitted row is not a no-op** (`donor_replay`). The check looks at the list the
   tick began with, which holds pending rows only; an overlapping tick publishes a row again that
   another has emitted. Second Brain accepts the repetition, so nothing is lost.
4. **A mail under review is shown in the archive** (`classification`). The gate that keeps uncertain mail
   out of the archive looks at the events of the mail; the stored verdict keeps neither them nor the lane,
   and the lane derived when the row is read knows neither.

5. **Two drafts of one composition** (`composer_retry`). The page keeps a request id so that a save whose answer
   was lost can be repeated: the same request and payload give the same draft
   (`docs/planning/attachments-drive-v1/02-REQUIREMENTS.md:15`, R07), and a new id is for a corrected draft
   (`docs/planning/MAIL-SEND-EXECUTION-20260909.md:13`). The end of an import drops the id
   (`send-review.js:459`), also if the file was removed from the form meanwhile. Remove the row of a file while it is
   imported, save, lose the answer, let the import end, save again: the unchanged composition is stored twice.
   `OneDraftUnlessForgotten` shows that there is no other way.

Seen while modelling, without a run of their own:

* Sending page (`send-review.js`): adding or removing a file keeps the request id, so the next save gets a
  409 until the text is edited; edits made while a save is under way are dropped when it succeeds; the list
  that follows an action can show another draft than the one acted on.
* A selection of a Drive file awaits and then makes its grant active although the connection may have been
  revoked meanwhile (`mail-drive-connections.js:264`); nothing is read under it before the account
  is connected again.
* A start that finds the encrypted settings damaged stops and keeps the file
  (`test/storage-integrity.integration.test.js:81`); one that also migrates the settings saves them first
  (`server.mjs:508`), over the damaged file.
* Pages committed before the intake, when the server dies in between, are never taken in
  (`persistent-mail-memory.js:341`); `NothingSkipsIntake` excepts them. A folder no longer discovered keeps
  its rows (`mail-sync.js:121`).
* A failure of a model's batch is recorded over a correction made meanwhile, against
  "A user correction remains authoritative until explicitly changed"
  (`docs/planning/V1.2.0-PRECISION-CLASSIFICATION-PLAN.md:118`, `README.md:195`); `CorrectionOutranks` excepts those mails.
* A verdict kept by a model is not refreshed when a project is created; a review status stays after an
  import; a project import or a model's answer can hide a conflict of projects; a model's answer or a
  correction can ask for work of nobody. "Next week" with a
  weekday that comes before the mail's own is read as the week after next (`precision-classifier.js:517`).
* One candidate that CWOS refuses stops the candidates of the mails after it in the same sync.
* The rollback copy of a restore is the main file without its log: what only the log held is not in it.

* A retention plan is read outside the transaction that applies it (`attachment-retention.js:18-60`). A draft that is
  restored, or created over an expired file, in between loses that file, although
  `docs/planning/attachments-drive-v1/prs/PR-002.md:13` and R16 (`02-REQUIREMENTS.md:24`) exclude the files of approved and
  sending drafts. In the instance of `attachments`: a file is uploaded, its day passes, the run decides, a draft is
  created with the file, approved and claimed, and the run clears the file of a draft that is being sent.
  `NeededFilesAreKept` without its exception for `since` is violated by the same steps; with it, it says that no other draft
  loses a file it needs. `ClaimedWithItsFiles` shows that no draft is claimed without its files; one claimed
  before the plan is applied has its buffers in memory. A draft that asks for a clarification does not keep its
  files from retention at all.
* Two revisions of a mail that has no change key (one imported from an older store) have one key in the cache of
  analyses (`ai-contract.js:196`, `sqlite-store.js:164`): an analysis of the older one is shown for the newer one.
  `AnalysisIsOfItsMail` promises the revision only for mails with a change key.
* A file uploaded again under the request id of a discarded one meets an internal
  error instead of a conflict (`mail-attachment-assets.js:373`, the UNIQUE key of an expired row).
* `docs/core5/COMPANY-MEMORY-DONOR.md:33` says that inbox intake does
  not enqueue company memory rows, `sync-work-intake.js:133` does.

---------------------------------------------------------------------------

## 7. What is only model-checked, and what is not modelled

Only model-checked, on the instances of section 3:

* liveness (`FiledIsRecorded`, `SyncsEnd`, `PendingIsSettled`): fairness and ENABLED are beyond what TLAPS
  proves.

Every invariant and every safety property of the passing runs has a theorem. `UncertainIsNotArchived`,
`ReconcilesDeletions` and the other properties of the runs that expect a violation are false, and section 6
says what of.

Not modelled inside the modelled components:

* SQLite errors while an outcome is recorded or a source is read; a full disk;
* the switch of the configured mailbox in mid operation; mailboxes other than one;
* metadata of received attachments, threads and people derived from a page, folders that are no
  longer discovered, dead letters of single folders, `sync_runs` and `operator_jobs`;
* the work events the intake keeps beside links and candidates; the CRM commands, which have no client bound;
* the score a learned policy needs before it applies (`PrecisionStore` takes equal keys for it);
* a failure of a restore between a rename and the note that it was done (`backup-restore.js:154-156`);
* more than one link of one kind per mail, the parsing of import files, the text of prompts and answers;
* routing, static files and rendering;
* signatures, canonical JSON, authority files and the expiry a donor batch shares;
* `expires_at` of an asset at draft creation: `create()` does not read it, nor does the model.

Components left out, with the reason, are in `PROJECT.json`: the attachment scanner and policy (one file
in, one verdict out, taken as a choice), the Notion and calendar adapters (read-only calls without state)
and the assistant's tools and styles (transformations of a text that are shown and not stored).

---------------------------------------------------------------------------

## 8. Plan

Done, in this order: `SendDrafts`/`MailSend`/`SendOnce`, as sending twice or to the wrong approval is
the worst the program could do; `AttachmentAssets`/`AttachedDrafts`, which share `SendDrafts`; `MailSync`;
`DonorOutbox`; then the modules of 2.5 to 2.9 with their suites; then the proofs of every safety property,
first those that follow from how steps are ordered, then those that count (quotas, flows, sessions, ranks,
searches), with `CountingTheorems` in the place of induction.

Next:

1. An abstract mirror that `MailSync` implements, an abstract once-only channel that `DonorOutbox`
   implements, and both refinements proved.
2. `MailSync` with `DonorOutbox` over one store.
3. A run of its own for the stale retention plan of section 6.

---------------------------------------------------------------------------

## 9. How to run it

In this directory, with the TLA+ tools, the community modules and TLAPS 1.4.5:

    tlc -workers 2 -config MailSendRaces.cfg MCReplies
    tlapm MailSendProofs.tla

Every `.cfg` names its instance in the table above; `PROJECT.json` pairs it with its module,
its properties and the mutants that break them. Most runs take between half a minute and four minutes
on two cores. `OperationsProofs` takes about five minutes to prove, `MailReadingProofs` two, the others one or less.
