\* two drafts that share a file, two uploads at a time, retention, restarts
SPECIFICATION Spec
CONSTANTS
  d1 = d1
  d2 = d2
  q1 = q1
  q2 = q2
  q3 = q3
  c1 = c1
  c2 = c2
  s1 = s1
  g1 = g1
  NoActor = NoActor
  NoRequest = NoRequest
  NoContent = NoContent
  Draft = {d1, d2}
  Digest = {g1}
  DigestOf <- Digests
  Unclear = {}
  Incomplete = {}
  BotDraft = {}
  Session = {s1}
  Receipt = {}
  Covers <- NoCovers
  ReceiptGate = FALSE
  Request = {q1, q2}
  Upload = {u1, u2}
  Content = {c1, c2}
  SizeOf <- Sizes
  MaxFile = 2
  MaxUploads = 2
  UnlinkedQuota = 2
  TotalQuota = 3
  AttachOf <- Attached
INVARIANTS QuotaKept SameRequestSameBytes
PROPERTIES ClaimedWithItsFiles NeededFilesAreKept
SYMMETRY Uploads
