SPECIFICATION Spec
CONSTANTS
  Channels = {telegram, max}
  Labels = {repair}
  SeedLabel = repair
  Address = address
  NoLabel = none
  Prefix = prefix
  Base <- MCBase
  MaxVersion = 3
  MaxEvents = 4
  MaxFaults = 1
SYMMETRY Symmetry
INVARIANTS TypeOK PublishedIsValid VersionsFollowPublication ItemsAddedOnce
PROPERTY RevisionsStay
CHECK_DEADLOCK FALSE
