-------------------------- MODULE MCGpuResourceLock ---------------------------
(***************************************************************************)
(* GpuResourceLock for TLC: a server process with two threads and a second *)
(* process (a command line task) with one.                                  *)
(***************************************************************************)
EXTENDS GpuResourceLock, TLC

CONSTANTS server, cli, s1, s2, k1

TwoAndOne == s1 :> server @@ s2 :> server @@ k1 :> cli
=============================================================================
