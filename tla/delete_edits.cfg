SPECIFICATION Spec
CONSTANTS
  Path <- Files
  Source = "source"
  Index = "index"
  Log = "index"
  ToRebuild <- Page
  ToDelete <- Nothing
  Backlinks <- Nothing
  Writable <- PageAndIndex
  Rejected <- Nothing
  Content = {"old", "new"}
  Foreign = {"foreign"}
  Absent = "absent"
  Initial <- OldFiles
  Hash = {"h1", "h2"}
  Gone = "gone"
  None = None
  Remaining = 2
  ClosedWindows = TRUE
  MaxMutations = 4
  MaxEdits = 1
  MaxCrashes = 1
  MaxFaults = 0
INVARIANTS OriginalsRecoverable
PROPERTIES WriteAhead PublishedIsFinal MetadataEditsKept ImplementsAtomicDelete
CHECK_DEADLOCK FALSE
