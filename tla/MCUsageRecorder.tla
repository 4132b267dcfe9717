------------------------- MODULE MCUsageRecorder -------------------------
(* An instance of UsageRecorder for TLC: one attempt id.  The three events  *)
(* of a normal call, another end at the place of its update, an update past *)
(* its end, and an end of the same attempt id under another identity.  The  *)
(* recorder's rules relate the events of one attempt only.                  *)
EXTENDS UsageRecorder, TLC

DestinationSymmetry == Permutations(Destinations)

Event(i, a, r, k, w) ==
    [id |-> i, attempt |-> a, revision |-> r, kind |-> k, identity |-> w]

MCEvents ==
    {Event(1, "a", 0, "attempt_started", "x"), Event(2, "a", 1, "usage_updated", "x"),
     Event(3, "a", 2, "attempt_finished", "x"), Event(4, "a", 1, "attempt_finished", "x"),
     Event(5, "a", 3, "usage_updated", "x"), Event(6, "a", 3, "attempt_finished", "y")}
==========================================================================
