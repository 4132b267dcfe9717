--------------------------- MODULE MCStreamRelay ---------------------------
EXTENDS StreamRelay

CONSTANTS c1, c2

MCTokens == {"x"}
MCCalls == {c1, c2}
MCAdapters == {"chat", "messages", "responses", "managed_chat", "managed_messages", "interactions",
               "codec", "provider", "managed_provider"}
CallSymmetry == Permutations(MCCalls)
MCRequests == {[parallel |-> TRUE, choice |-> "auto"], [parallel |-> TRUE, choice |-> "none"],
               [parallel |-> FALSE, choice |-> "required"]}
=============================================================================
