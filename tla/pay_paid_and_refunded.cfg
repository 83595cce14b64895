\* Expected violation: a job is settled as paid after its refund.
CONSTANTS
  Jobs = {j1}
  Cancels = {c1}
  Calls = {}
  Funds = {f1}
  Price = 1
  FundSats = 1
  CallSats = 1
  Bills = {1}
  MaxFaults = 0
SPECIFICATION Spec
PROPERTIES NoSettleAfterRefund
CHECK_DEADLOCK FALSE
