SPECIFICATION Spec
CONSTANTS
  inbox = inbox  sent = sent
  m1 = m1  m2 = m2
  Folder = {inbox}
  Message = {m1, m2}
  FolderOf <- OneFolder
  NoFolder = NoFolder
  MaxVer = 2
  PageSize = 1
INVARIANT ReconcilesDeletions
