\* the receipt gate: two bot drafts with one digest, listed in one receipt, and the
\* operator's own draft that still asks for something; compositions of two files and a Drive file;
\* two accounts at the intake
SPECIFICATION OperatorSpec
CONSTANTS
  d1 = d1
  d2 = d2
  d3 = d3
  s1 = s1
  r1 = r1
  g1 = g1
  g2 = g2
  NoDraft = NoDraft
  NoActor = NoActor
  Draft = {d1, d2, d3}
  Digest = {g1, g2}
  DigestOf <- SharedDigest
  Unclear = {d3}
  Incomplete = {}
  BotDraft = {d1, d2}
  Session = {s1}
  Receipt = {r1}
  Covers <- ListsBoth
  ReceiptGate = TRUE
  Handler = {h1, h2}
  Run = {w1}
  MaxRestarts = 0
  t1 = t1
  t2 = t2
  Wordings = {"a"}
  LocalFiles = {f1, f2}
  DriveFilesSeen = {"d"}
  ReviewLinks = {"l"}
  MaxAttached = 2
  MaxEditions = 2
  MaxRequestIds = 2
  Tokens = {t1, t2}
  Owner <- OneEach
  Intents = {i1}
  GrantRequests = {f1, f2}
  IntakeMails = {m1}
INVARIANTS
  PostedWasApproved
  ReceiptItemSendsOnce
  
  FiledUnderItsAccount
PROPERTY
  RestoreKeepsReview
SYMMETRY FilesAlike
CONSTRAINT FewRequests
