\* one Drive file, one settings request, two readers
SPECIFICATION Spec
CONSTANTS
  r1 = r1  r2 = r2
  DriveFiles = {f1}
  DriveRequests = {r1, r2}
  DriveOps = {o1, o2}
  Browsers = {b1}
  FileContents = {c1, c2}
  MaxVersion = 2
  MaxStarts = 2
  MaxSessions = 2
  MaxLogins = 3
  MaxKeys = 2
  SettingRequests = {s1}
  Providers = {p1}
  Policies = {1, 2}
  MaxTokens = 1
  PersistSecrets = TRUE
  Analyses = {r1, r2}
  Models = {"n1", "n2"}
  MaxRevision = 2
  WithChangeKey = {2}
  FailureThreshold = 2
  AllowExternalAi = TRUE
  Readers = {r1, r2}
  MaxAge = 2
  MaxNow = 6
  MaxGenerations = 4
  MaxCommits = 5
  MaxRestores = 2
  RuledMails <- MailsForTlc
  Came <- InMarch
  Corrections <- CorrectionsForTlc
  Answers <- AnswersForTlc
  Mailboxes <- MailboxesForTlc
  Questions <- QuestionsForTlc
  Identifiers <- Numbers
  Periods <- PeriodWords
  DomainWords <- Business
  Scaffold <- Polite
  SinceMonday = 2
  SearchDays <- TwoWeeks
  PageLimit = 2
  MaxCandidates = 3
  MaxWords = 2
  Release = "new"
  FirstRuntimes <- RuntimeFiles
  Fragments <- FileFragments
  FirstUnit <- OldUnit
  MaxEdits = 2
  MaxServiceStarts = 3
INVARIANTS
  OperationsTypeOK
  AssetIsItsVersion
  LoggedOutStaysOut
  AcceptedForThisRelease
  AnalysisIsOfItsMail
  ReadyIsRecent
  RestoredIsTheBackup
  EventsAreKept
  OneEventLeads
  ConflictIsReviewed
  LatestAreTheNewest
  EndsProvenOrRestored
SYMMETRY Alike
CHECK_DEADLOCK FALSE
