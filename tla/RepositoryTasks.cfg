SPECIFICATION RepositorySpec
CONSTANTS
  curated = curated  other = other  c1 = c1  c2 = c2
  Task = {1, 2}
  Repo = {curated, other}
  Commit = {c1, c2}
  History <- MCHistory
  Curated = curated
  Malformed = malformed
  Requests <- MCRequests
  NoRepo = NoRepo  NoCommit = NoCommit  NoWorkspace = 0
  MaxCandidates = 5
  MaxWorkspaces = 2
  MaxFaults = 1
INVARIANTS
  PreparedWorkspaces
PROPERTIES
  PreparationEnds
CHECK_DEADLOCK FALSE
