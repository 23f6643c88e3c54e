CONSTANTS
  a = a
  b = b
  calm = calm
  thin = thin
  odd = odd
  Fails = Fails
  Paths = {a, b}
  Markets = {calm, thin, odd}
  Quotes <- MCQuotes
  Amount = 10
  Increment = 2
  MaxTries = 2
  LoanCap = 20
  MaxAttempts = 2
  MaxPaths = 2
  MaxMoves = 1
SPECIFICATION FairSpec
INVARIANTS
  TypeOK
  RaisedInputPays
PROPERTIES
  ImplementsOutbox
  AcceptedLands
  MonitorsEnd
CHECK_DEADLOCK FALSE
