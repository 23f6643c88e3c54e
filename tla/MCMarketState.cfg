CONSTANTS
  r = r
  tick = tick
  bal = bal
  poolA = poolA
  token = token
  Cells <- MCCells
  Owner <- MCOwner
  Pools = {poolA}
  Populated = {r}
  Values = {0, 1, 2}
  Zero = 0
  None = None
  Genesis <- MCGenesis
  Bodies <- MCBodies
  MaxBlocks = 3
  Capacity = 2
  TraceFaults = TRUE
SPECIFICATION FairSpec
INVARIANTS TypeOK Coherence AppliedInOrder
PROPERTIES ImplementsPoolsTouched EventuallyCurrent SpinEnds
CHECK_DEADLOCK FALSE
