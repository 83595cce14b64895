\* Expected violation: a cancel credits a quote that was never taken.
CONSTANTS
  Jobs = {j1}
  Cancels = {c1}
  Calls = {}
  Funds = {f1}
  Price = 1
  FundSats = 1
  CallSats = 1
  Bills = {1}
  MaxFaults = 0
SPECIFICATION Spec
INVARIANTS OnlyEscrowReturned
CHECK_DEADLOCK FALSE
