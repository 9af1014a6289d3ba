\* Calls of three bytes, a line buffer of four raw calls, as in the code.
SPECIFICATION FairSpec
CONSTANTS
  Request = 3
  Room = 12
  Totals <- SomeTotals
INVARIANTS TypeOK FreshOnly Stream SuccessIsWhole CleanExit
PROPERTIES DeniedForGood StopsOnSignal
