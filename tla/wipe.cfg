SPECIFICATION Spec
CONSTANTS
  File = {"index", "page"}
  Folder = {"top", "sub"}
  Top = "top"
  Above <- Layout
  Absent = "absent"
  Original = "original"
  Foreign = "foreign"
  NoTree = NoTree
  ProbesFail = FALSE
  MaxFaults = 2
  MaxWrites = 2
INVARIANTS BytesKept CleanFailure ForeignKept DoneMeansGone
CHECK_DEADLOCK FALSE
