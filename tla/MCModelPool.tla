----------------------------- MODULE MCModelPool ------------------------------
(***************************************************************************)
(* ModelPool for TLC: requests are interchangeable.                        *)
(***************************************************************************)
EXTENDS ModelPool, TLC

Symmetry == Permutations(Requests) \union Permutations(Freers)
=============================================================================
