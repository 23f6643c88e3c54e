CONSTANTS
  r = r
  tick = tick
  bal = bal
  poolA = poolA
  token = token
  Cells <- MCCells
  Owner <- MCOwner
  Pools = {poolA}
  Populated = {r}
  Values = {0, 1, 2}
  Zero = 0
  None = None
  Genesis <- MCGenesis
  Bodies <- MCBodies
  MaxBlocks = 3
  Capacity = 1
  TraceFaults = FALSE
SPECIFICATION Spec
INVARIANT NoBlockMissed
CHECK_DEADLOCK FALSE
