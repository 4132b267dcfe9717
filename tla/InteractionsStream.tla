------------------------- MODULE InteractionsStream -------------------------
(***************************************************************************)
(* Gemini Interactions (adapters/interactions/stream.rs), managed: one     *)
(* step at a time.  Model output is shown as it grows; thoughts never are, *)
(* calls only in the final response.                                       *)
(***************************************************************************)
EXTENDS StreamAdapter

InteractionsInit ==
    [started |-> FALSE, steps |-> <<>>, active |-> FALSE, arguments |-> <<>>, status |-> None, done |-> FALSE]

InteractionCreated == ~st.started /\ Handle([st EXCEPT !.started = TRUE], <<>>, <<Created>>)

\* interaction.status_update is checked and dropped.
InteractionStatus == st.started /\ st.status = None /\ Handle(st, <<>>, <<>>)

\* Mutant of PublicIndex: thoughts are counted.
PublicIndexOfThoughts(steps, n) == n

\* The public index of the n-th step: thoughts have none.
PublicIndex(steps, n) == Cardinality({m \in 1..n : m = n \/ steps[m].kind # "thought"})

\* A step starts with its content or arguments, or without; a message's head shows no text.
StepStart(kind, call, content) ==
    LET steps == Append(st.steps, [kind |-> kind, call |-> call, content |-> content])
        i == PublicIndex(steps, Len(steps))
    IN  /\ st.started /\ ~st.active /\ st.status = None
        /\ Len(st.steps) <= MaxItems
        /\ Handle([st EXCEPT !.steps = steps, !.active = TRUE, !.arguments = <<>>], <<>>,
                  IF kind # "message" THEN <<>>
                  ELSE <<Added(i, "message", None, content = None), PartAdded(i)>>)

\* Text goes to the last part of the content, the deltas always to the first one shown.
StepText(t) ==
    LET n == Len(st.steps)
        content == IF st.steps[n].content \in {None, <<>>} THEN <<(<<>>)>> ELSE st.steps[n].content
        last == Len(content)
    IN  /\ st.active /\ st.steps[n].kind = "message"
        /\ Len(content[last] \o t) <= MaxText
        /\ Handle([st EXCEPT !.steps[n].content = [content EXCEPT ![last] = @ \o t]], <<>>,
                  <<Delta(PublicIndex(st.steps, n), 1, t)>>)

StepArguments(piece) ==
    /\ st.active /\ st.steps[Len(st.steps)].kind \in ToolKinds
    /\ Partial(st.arguments \o piece)
    /\ Handle([st EXCEPT !.arguments = @ \o piece], <<>>, <<>>)

\* Signatures of thoughts are opaque to the stream.
StepSignature == st.active /\ st.steps[Len(st.steps)].kind = "thought" /\ Handle(st, <<>>, <<>>)

\* Arguments given at the start and as deltas are refused.
StepStop ==
    LET n == Len(st.steps) IN
    /\ st.active
    /\ st.arguments # <<>> => st.arguments = Document /\ st.steps[n].content = None
    /\ Handle([st EXCEPT !.active = FALSE,
                         !.steps[n].content = IF st.arguments = <<>> THEN @ ELSE <<st.arguments>>],
              <<>>, <<>>)

InteractionCompleted(status) ==
    /\ st.started /\ ~st.active /\ st.status = None
    /\ Handle([st EXCEPT !.status = status], <<>>, <<>>)

InteractionDone == st.status # None /\ Handle([st EXCEPT !.done = TRUE], <<>>, <<>>)

\* PreparedInteractions::decode; interaction_output refuses an incomplete one.
InteractionsOutput ==
    LET public == Kept(st.steps, {n \in DOMAIN st.steps : st.steps[n].kind # "thought"})
    IN  [i \in DOMAIN public |->
            IF public[i].kind = "message" THEN Message(public[i].content)
            ELSE ToolItem(public[i].kind, public[i].call, public[i].content[1])]

InteractionsDecodable ==
    LET count == ToolCount(st.steps) IN
    /\ \A n \in DOMAIN st.steps : st.steps[n].kind # "thought" => st.steps[n].content # None
    /\ st.status \in {"completed", "requires_action"}
    /\ st.status = "requires_action" <=> count > 0
    /\ count > 0 => Resolves
    /\ CountAllowed(count, TRUE)
    /\ Decodes(InteractionsOutput, "completed")

InteractionsNext ==
    \/ InteractionCreated \/ InteractionStatus
    \/ \E content \in {None, <<>>} \cup {<<t>> : t \in Fragments} \cup {<<t, t>> : t \in Fragments} :
          StepStart("message", None, content)
    \/ \E kind \in ToolKinds, call \in CallIds, content \in {None, <<Document>>} : StepStart(kind, call, content)
    \/ StepStart("thought", None, None)
    \/ \E t \in Fragments : StepText(t)
    \/ \E piece \in Pieces : StepArguments(piece)
    \/ StepSignature \/ StepStop
    \/ \E status \in {"completed", "requires_action", "incomplete", "failed"} : InteractionCompleted(status)
    \/ InteractionDone
=============================================================================
