SPECIFICATION Spec
CONSTANTS
  Retries = 2
  StartRetries = 1
  IdleTimeout = TRUE
  Errors = {{"connection"}, {"connection", "permanent_tls"}, {"retryable_http", "retry_header"}, {"abort"}, {"connection", "abort"}}
  MaxAnswers = 3
  MaxReads = 2
  Repairs = 2
  CallWindow = 20
  CallPrompt = 3
  CallInput = 10
  CallRepair = 10
  CallOutput = 8
  Compact = 99
  ReplySizes = {2, 6}
  Runs = {"r1", "r2"}
  Keys = {"k1", "k2"}
  ModelWindows = {1024, 16384}
  Default = 8192
  MaxSamples = 0
  Caps = {0, 1, 99999}
  Optional <- OptionalUnits
  Required = 2
  AnswerBudgets = {3, 6, 8}
  Tokens = {"t1", "t2", "t3"}
  Far = {"t3"}
  MaxEmbeds = 1
  MaxPieces = 2
  MaxCuts = 1
  MaxPages = 4
  Fixed = 1
  Reserved = 2
  PdfBudgets = {3, 5, 9}
  PdfWindows = {2, 4}
  Costs = {1, 2, 4}
CHECK_DEADLOCK FALSE
INVARIANTS OneAnswer RowsTrue WithinWindow NothingLeftOpen
PROPERTIES StopsObeyed
