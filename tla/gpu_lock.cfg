\* A process of two threads and one of one thread; up to two nested uses per
\* process, one death of a process.
CONSTANTS
  server = server
  cli = cli
  s1 = s1
  s2 = s2
  k1 = k1
  Procs = {server, cli}
  Threads = {s1, s2, k1}
  ProcOf <- TwoAndOne
  MaxUses = 2
  MaxCrashes = 1
SPECIFICATION FairSpec
INVARIANTS TypeOK UseIsLocked
PROPERTIES NoMeansFree CallsReturn ImplementsExclusiveLock
