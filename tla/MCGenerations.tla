---------------------------- MODULE MCGenerations -----------------------------
(***************************************************************************)
(* Generations for TLC.  Users are interchangeable, and so are chats; the  *)
(* symmetry is used for safety only.                                       *)
(***************************************************************************)
EXTENDS Generations, TLC

Symmetry == Permutations(Users) \union Permutations(Chats)
=============================================================================
