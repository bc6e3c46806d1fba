SPECIFICATION Spec
CONSTANTS
  a = a  b = b  c = c  ka = ka  kb = kb
  coder = coder  sandbox = sandbox  NoAgent = NoAgent
  Tasks = {a, b, c}
  Agents = {coder, sandbox}
  Artifacts = {ka, kb}
  Deps <- JoinDeps
  Requires <- JoinRequires
  Outputs <- JoinOutputs
  Position <- InOrder
  Parallelizable = {a, b}
  Planned <- AllCoder
  MaxConcurrent = 2
  RetryLimit = 0
  MaxTaskAttempts = 3
  ApprovalRequired = FALSE
  MaxCommands = 2
  MaxRestarts = 0
INVARIANTS
  DependenciesFirst
  ResultFromLatestAttempt
  TerminalPlanIsQuiet
  InProgressHasWorker
  FailedPlanHasCause
PROPERTIES
  ImplementsDag
CHECK_DEADLOCK FALSE
