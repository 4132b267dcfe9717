------------------------ MODULE MCContinuationStore ------------------------
(***************************************************************************)
(* Two sessions, two attempts and two keys: enough for two attempts of one *)
(* session (a chain, or an unknown and its successor after recovery), for  *)
(* one attempt of each of two, and for a process with the wrong key.       *)
(***************************************************************************)
EXTENDS ContinuationStore, TLC

\* Attempts are interchangeable, and so are sessions and keys.
MCSymmetry == Permutations(Attempts) \cup Permutations(Sessions) \cup Permutations(Keys)
=============================================================================
