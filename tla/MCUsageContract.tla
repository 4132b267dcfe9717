------------------------- MODULE MCUsageContract -------------------------
(* Instances of UsageContract for TLC: every profile but DeepSeek's, whose  *)
(* own run shows an unrecordable usage, and DeepSeek's alone.               *)
EXTENDS UsageContract

MCProfiles == {"responses/v1", "chat/v1", "messages/v1",
               "gemini_interactions/v1", "plugin"}
MCDeepSeek == {"deepseek/v1"}

(* A plugin's replies: every field with a value or without one (reasoning   *)
(* with the larger value only), and, beside the larger value of input and   *)
(* output and of the others or none, one field that is invalid or           *)
(* inapplicable.                                                            *)
MCSnapshots ==
    {s \in [Fields -> {Known(n, "reported") : n \in Values} \union {NotReported}] :
        s["reasoning_output_tokens"].value # 0}
      \union {[s EXCEPT ![f] = c] :
                s \in {r \in [Fields -> {Known(2, "reported"), NotReported}] :
                         NotReported \notin {r["input_tokens"], r["output_tokens"]}},
                f \in Fields, c \in {Unknown("not_applicable"), Invalid}}
==========================================================================
