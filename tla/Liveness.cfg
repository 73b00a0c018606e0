\* eventual recording of what Graph filed, with one restart, and the end of a sync
\* of one folder; no symmetry, liveness forbids it
SPECIFICATION LiveSpec
CONSTANTS
  d1 = d1
  d2 = d2
  s1 = s1
  d3 = d3
  r1 = r1
  g1 = g1
  g2 = g2
  NoDraft = NoDraft
  NoActor = NoActor
  Draft = {d1, d2}
  Digest = {g1, g2}
  DigestOf <- TwoDigests
  Unclear = {}
  Incomplete = {}
  BotDraft = {}
  Session = {s1}
  Receipt = {}
  Covers <- NoCovers
  ReceiptGate = FALSE
  Handler = {h1}
  Run = {w1}
  MaxRestarts = 1
  inbox = inbox
  m1 = m1
  Folder = {inbox}
  Message = {m1}
  FolderOf <- OneFolder
  NoFolder = NoFolder
  MaxVer = 3
  PageSize = 1
PROPERTIES FiledIsRecorded SyncsEnd
