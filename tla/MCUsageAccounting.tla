------------------------ MODULE MCUsageAccounting ------------------------
(* An instance of UsageAccounting for TLC: two calls over a queue of two    *)
(* slots, so that reserved and filled slots compete. Its events come from   *)
(* the calls, so none are offered besides.                                  *)
EXTENDS UsageAccounting

NoEvents == {}
==========================================================================
