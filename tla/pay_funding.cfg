\* Two challenges over HTTP and one of the command line; in the server a
\* completing thread and a debiting one; one run of the command line; one death
\* of a process.
CONSTANTS
  server = server
  cli = cli
  s1 = s1
  k1 = k1
  d1 = d1
  Procs = {server, cli}
  Payers = {s1, k1}
  Tools = {k1}
  Spenders = {d1}
  ProcOf <- Processes
  Challenges = {c1, c2, c3}
  Posted = {c1, c2}
  Amount = 3
  Cost = 2
  MaxCrashes = 1
  MaxDebits = 1
SPECIFICATION FairSpec
INVARIANTS TypeOK SessionAdds SettledIsCredited
PROPERTIES NothingLost PaymentsSettle
CHECK_DEADLOCK FALSE
