------------------------- MODULE MCManagementDispatch -------------------------
(***************************************************************************)
(* Runtime: two operations of one administrator on a directory that is new *)
(* or already has a selected candidate; two children, so that a child of a *)
(* dead manager can meet the next one.  Packages: one package in two       *)
(* builds, an operation of the administrator, command lines that reach the *)
(* second generation, and a helper that is left behind.                    *)
(***************************************************************************)
EXTENDS ManagementDispatch, TLC

MCRequests == Command \cup PackageCommand

\* Operations, keys, children and the (all valid) contents are interchangeable.
MCSymmetry == Permutations(Operations) \cup Permutations(Keys) \cup Permutations(Children)
              \cup Permutations(Contents)
=============================================================================
