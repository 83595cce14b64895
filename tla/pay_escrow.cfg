\* Two jobs, a cancel, one payment that covers one quote and a chat call; one
\* exception or crash.
CONSTANTS
  Jobs = {j1, j2}
  Cancels = {c1}
  Calls = {k1}
  Funds = {f1}
  Price = 2
  FundSats <- QuoteAndCall
  CallSats = 1
  Bills = {1}
  MaxFaults = 1
SPECIFICATION FairSpec
INVARIANTS TypeOK Books ReceiptBacked OneTrainer
PROPERTIES EscrowResolved
CHECK_DEADLOCK FALSE
