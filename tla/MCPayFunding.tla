----------------------------- MODULE MCPayFunding ------------------------------
\* Model values and processes for TLC.
EXTENDS PayFunding, TLC

CONSTANTS server, cli, s1, k1, d1

Processes == s1 :> server @@ k1 :> cli @@ d1 :> server
=============================================================================
