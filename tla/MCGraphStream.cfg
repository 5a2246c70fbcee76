SPECIFICATION FairSpec
CONSTANTS
  Callers = {c1, c2}
  BatchSize = 1
  MaxRows = 6
INVARIANTS NoFalseEnd
PROPERTIES ImplementsRowStream RequestReturns ParserStops
CHECK_DEADLOCK FALSE
