SPECIFICATION FairSpec
CONSTANTS
  a = a  b = b  c = c  ka = ka  kb = kb
  coder = coder  sandbox = sandbox  NoAgent = NoAgent
  Tasks = {a, b, c}
  Agents = {coder, sandbox}
  Artifacts = {ka, kb}
  Deps <- JoinDeps
  Requires <- JoinRequires
  Outputs <- JoinOutputs
  Position <- InOrder
  Parallelizable = {a, b}
  Planned <- AllCoder
  MaxConcurrent = 2
  RetryLimit = 1
  MaxTaskAttempts = 4
  ApprovalRequired = FALSE
  MaxCommands = 1
  MaxRestarts = 0
PROPERTIES
  RunEnds
  CancelDrains
CHECK_DEADLOCK FALSE
