SPECIFICATION Spec
CONSTANTS
  Path <- FilesAndOrphan
  Source = "source"
  Index = "index"
  Log = "index"
  ToRebuild <- Page
  ToDelete <- Orphan
  Backlinks <- IndexOnly
  Writable <- Page
  Rejected <- Nothing
  Content = {"old", "new"}
  Foreign = {"foreign"}
  Absent = "absent"
  Initial <- OldFilesAndOrphan
  Hash = {"h1", "h2"}
  Gone = "gone"
  None = None
  Remaining = 1
  ClosedWindows = TRUE
  MaxMutations = 5
  MaxEdits = 0
  MaxCrashes = 1
  MaxFaults = 1
INVARIANTS TypeOK OriginalsRecoverable ForgottenIsDeleted
CHECK_DEADLOCK FALSE
