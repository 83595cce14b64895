----------------------------- MODULE MCPayEscrow -----------------------------
(***************************************************************************)
(* PayEscrow for TLC: a payment covers one quote and one chat call, so two *)
(* jobs and a call ask for more than the session has.                      *)
(***************************************************************************)
EXTENDS PayEscrow

QuoteAndCall == Price + CallSats
=============================================================================
