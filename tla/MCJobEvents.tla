------------------------------ MODULE MCJobEvents ------------------------------
\* Model values and bounds for TLC.
EXTENDS JobEvents, TLC

CONSTANTS l1, m1

Lines == "log" :> 2 @@ "metric" :> 1
=============================================================================
