--------------------------- MODULE MCManagementApi ---------------------------
(***************************************************************************)
(* Two operations of one administrator, two keys, a command that issues a  *)
(* credential and one that does not, and two jobs that wait for each       *)
(* other.  MaxEvents lets an uncertain operation run out of events.        *)
(***************************************************************************)
EXTENDS ManagementApi, TLC

\* Operations, keys and jobs are interchangeable.
MCSymmetry == Permutations(Operations) \cup Permutations(Keys) \cup Permutations(Jobs)
=============================================================================
