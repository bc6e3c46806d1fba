SPECIFICATION Spec
CONSTANTS
    Node <- MCNode
    Command <- MCCommand
    Plans <- MCPlans
    Offered <- MCOffered
    Slots = 2
INVARIANTS SnapshotHasItsPast SuccessIsComplete
PROPERTY GraphSettles
\* The graph is executed once.
CHECK_DEADLOCK FALSE
