SPECIFICATION Spec
CONSTANTS
  Path <- Files
  Source = "source"
  Index = "index"
  Log = "index"
  ToRebuild <- Page
  ToDelete <- Nothing
  Backlinks <- Nothing
  Writable <- PageAndIndex
  Rejected <- Nothing
  Content = {"old", "new"}
  Foreign = {"foreign"}
  Absent = "absent"
  Initial <- OldFiles
  Hash = {"h1", "h2"}
  Gone = "gone"
  None = None
  Remaining = 2
  ClosedWindows = TRUE
  MaxMutations = 4
  MaxEdits = 0
  MaxCrashes = 1
  MaxFaults = 1
INVARIANTS RestartRestores
CHECK_DEADLOCK FALSE
