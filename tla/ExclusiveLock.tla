---------------------------- MODULE ExclusiveLock -----------------------------
(***************************************************************************)
(* What "serialization for local GPU-heavy work" promises to the processes *)
(* that lock one file (seiso/memory/gpu_resource_lock.py): a process holds *)
(* the GPU any number of times, but only while no other process holds it.  *)
(* How a process waits for the GPU, gives up, or asks who has it, is not   *)
(* said here.                                                              *)
(***************************************************************************)
EXTENDS Naturals

CONSTANT Procs     \* server and command line processes on one machine

VARIABLE held      \* how often each process holds the GPU through that file

ELInit == held = [p \in Procs |-> 0]

Take(p) ==
  /\ \A q \in Procs \ {p} : held[q] = 0
  /\ held' = [held EXCEPT ![p] = @ + 1]

Give(p) ==
  /\ held[p] > 0
  /\ held' = [held EXCEPT ![p] = @ - 1]

\* The process is gone and everything it held with it.
Die(p) ==
  /\ held' = [held EXCEPT ![p] = 0]

ELNext == \E p \in Procs : Take(p) \/ Give(p) \/ Die(p)

ELSpec == ELInit /\ [][ELNext]_held

=============================================================================
