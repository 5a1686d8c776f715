SPECIFICATION Spec
CONSTANTS
  Requests <- MCRequests
  Snapshots <- MCSnapshots
  Protected <- MCProtected
INVARIANTS PlanInv OrderInv
CHECK_DEADLOCK FALSE
