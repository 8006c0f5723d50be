SPECIFICATION FairSpec
CONSTANTS
  Devices = {d1}
  Names = {wan, lan, tmp}
  Matching = {wan, lan}
  None = None
  QueueCap = 2
  CallsMayFail = TRUE
  MaxChanges = 5
  MaxCrashes = 1
INVARIANTS TypeOK NoForeignHook NoOrphans BooksAgree
PROPERTY Converges
CHECK_DEADLOCK FALSE
