--------------------------- MODULE MCManagedProxy ---------------------------
(***************************************************************************)
(* One session and two attempts.  MCManagedProxy: two connections race on  *)
(* it, each can be cancelled at any await, and the host may open a second  *)
(* epoch.  MCManagedProxyOrphan: the same with one connection.             *)
(***************************************************************************)
EXTENDS ManagedProxy, TLC

\* Attempts, inputs and connections are interchangeable.
MCSymmetry == Permutations(Attempts) \cup Permutations(Requests) \cup Permutations(Inputs)

\* Bound: connections race within the first epoch; beside a second one at most one is at work.
Focus ==
    \/ \A s \in Sessions : session[s].epoch <= 1
    \/ Cardinality({r \in Requests : req[r].pc # "idle"}) <= 1
=============================================================================
