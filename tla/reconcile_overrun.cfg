SPECIFICATION FairSpec
CONSTANTS
  Devices = {d1}
  Names = {wan, lan, tmp}
  Matching = {wan, lan}
  None = None
  QueueCap = 2
  CallsMayFail = FALSE
  MaxChanges = 4
  MaxCrashes = 0
PROPERTY StaleAttachmentDropped
CHECK_DEADLOCK FALSE
