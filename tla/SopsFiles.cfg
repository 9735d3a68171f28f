\* Saves, encryption, commits through the hook, crashes and overlaps.
SPECIFICATION FairSpec
CONSTANTS
  Files <- MCFiles
  Matching <- OneRule
  Settings = "settings"
  FaultKinds = {"crash", "overlap"}
  MaxActs = 2
INVARIANTS
  TypeOK
  NothingLost
  EncryptLeavesNoPlain
PROPERTIES
  OnlyEncryptedCommitted
  EncryptedOnce
  SavedIsCommitted
