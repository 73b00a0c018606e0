\* one Drive file, whose row is removed while it is imported
SPECIFICATION ComposerSpec
CONSTANTS
  Wordings = {"a"}
  LocalFiles = {}
  DriveFilesSeen = {"d"}
  ReviewLinks = {}
  MaxAttached = 1
  MaxEditions = 3
  MaxRequestIds = 2
INVARIANT OneDraftPerComposition
