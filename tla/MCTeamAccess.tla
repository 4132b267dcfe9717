---------------------------- MODULE MCTeamAccess ----------------------------
(***************************************************************************)
(* Three operations of one administrator on one member with two            *)
(* credentials: enough to issue and rotate, and to issue, withdraw a       *)
(* permission and grant it again.                                          *)
(***************************************************************************)
EXTENDS TeamAccess, TLC

\* Operations, keys and credentials are interchangeable.
MCSymmetry == Permutations(Operations) \cup Permutations(Keys) \cup Permutations(Credentials)
=============================================================================
