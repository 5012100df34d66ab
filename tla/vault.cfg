SPECIFICATION Spec
CONSTANTS
  StoreDomains = 2
  StoreCalls = 3
  TmpBeside = TRUE
  LayoutDomains = 2
  Layouts = {"dotted", "plain"}
  LayoutEdits = 1
  PageCount = 2
  Links = {"a", "b"}
  Histories = {{}, {{"a", "b"}}}
  Various = {1}
  Runs = {"r1", "r2"}
  Events = 3
  HistoryLimit = 1
  NoRun = "none"
  Crashes = 1
  Faults = 1
CHECK_DEADLOCK FALSE
INVARIANTS RegistryKept MigrationLosesNothing 
PROPERTIES KeptForInspection
