\* two mails: one folder in one-item pages, two versions; one text and a correction;
\* one candidate on its way to CWOS
SPECIFICATION MailboxSpec
CONSTANTS
  inbox = inbox  sent = sent
  m1 = m1  m2 = m2
  x1 = x1
  Folder = {inbox}
  Message = {m1, m2}
  FolderOf <- OneFolder
  NoFolder = NoFolder
  MaxVer = 2
  PageSize = 1
  PMails = {m1, m2}
  PolicyKey <- OnePolicy
  Masters = {x1}
  RuleProjects = {"unassigned", "review_required"}
  MaxTexts = 1
  Overrides = {{"work", "project"}}
  CrmMails = {"mail"}
  CrmAccounts = {"account"}
  CrmEngagements = {"engagement"}
  AccountOf <- OneCustomer
  AccountMasterGet = FALSE
  Texts = {{"engagement"}}
  Editions <- TwoEditions
  MaxRevisions = 2
  MaxRuntime = 2
  MaxPosts = 1
INVARIANTS
  MailboxTypeOK
  CursorCoversRows
  MirrorsMailbox
  NothingSkipsIntake
PROPERTIES
  RowsNeverGoBack
  LinksAgreeOnCommit
  CorrectionOutranks
  WrittenOfTheMail
SYMMETRY Alike
CHECK_DEADLOCK FALSE
