SPECIFICATION Spec
CONSTANTS
  a = a  b = b  c = c  ka = ka  kb = kb
  coder = coder  sandbox = sandbox  NoAgent = NoAgent
  Tasks = {a, b}
  Agents = {coder, sandbox}
  Artifacts = {ka, kb}
  Deps <- PairDeps
  Requires <- PairDeps
  Outputs <- PairOutputs
  Position <- InOrder
  Parallelizable = {a, b}
  Planned <- AllCoder
  MaxConcurrent = 2
  RetryLimit = 0
  MaxTaskAttempts = 3
  ApprovalRequired = FALSE
  MaxCommands = 1
  MaxRestarts = 1
INVARIANTS
  RecoveryRequeuesInterruptedTasks
CHECK_DEADLOCK FALSE
