SPECIFICATION Spec
CONSTANTS
  a = a  b = b  c = c  ka = ka  kb = kb
  coder = coder  sandbox = sandbox  NoAgent = NoAgent
  Tasks = {a, b, c}
  Agents = {coder, sandbox}
  Artifacts = {ka, kb}
  Deps <- JoinDeps
  Requires <- JoinRequires
  Outputs <- JoinOutputs
  Position <- InOrder
  Parallelizable = {a, b}
  Planned <- AllCoder
  MaxConcurrent = 1
  RetryLimit = 1
  MaxTaskAttempts = 3
  ApprovalRequired = TRUE
  MaxCommands = 3
  MaxRestarts = 1
INVARIANTS
  IInv
  InProgressBounded
  NoRunBeforeApproval
CHECK_DEADLOCK FALSE
