\* one draft, three requests at a time, overlapping worker runs, two restarts;
\* two mails of one conversation; two mails on the screen
SPECIFICATION RepliesSpec
CONSTANTS
  d1 = d1
  d2 = d2
  d3 = d3
  s1 = s1
  r1 = r1
  g1 = g1
  g2 = g2
  NoDraft = NoDraft
  NoActor = NoActor
  Draft = {d1}
  Digest = {g1}
  DigestOf <- D1Digest
  Unclear = {}
  Incomplete = {}
  BotDraft = {}
  Session = {s1}
  Receipt = {r1}
  Covers <- ListsD1
  ReceiptGate = FALSE
  Handler = {h1, h2, h3}
  Run = {w1, w2}
  MaxRestarts = 2
  n1 = n1
  n2 = n2
  InMails = {n1, n2}
  ConversationOf <- OneConversation
  CopyOf <- NoCopies
  ReceivedAt <- OneByOne
  MaxClock = 2
  ScreenMails = {f1, f2}
  MaxLoads = 1
INVARIANTS
  AtMostOnePost
  RecordedTruth
  SendingIsWatched
  UndoRestoresAll
  AnswersAreOfTheSelection
PROPERTIES
  ImplementsSendOnce
  RestoreHolds
SYMMETRY ScreenAlike
