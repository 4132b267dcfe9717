--------------------------- MODULE PluginStreams ---------------------------
(***************************************************************************)
(* Streams of a provider plugin (src/provider_plugins/execution.rs): a     *)
(* child process reads the provider's events and answers each with public  *)
(* progress and, at last, a whole response.  The plugin may answer         *)
(* anything; Progress (codecs/verification.rs) checks the progress and     *)
(* that the response agrees with it, and the host writes every event that  *)
(* finishes an item.  A rejected answer ends the stream.                   *)
(*                                                                         *)
(* The item added n-th has the identifier n; the events of one answer are  *)
(* steps of their own, which admits more ways for the stream to be cut.    *)
(***************************************************************************)
EXTENDS StreamAdapter

\* A plugin that has not named its outcome has not completed.
ASSUME OutcomeAssumption == None # "completed"

PluginInit ==
    [created |-> FALSE, items |-> <<>>, complete |-> FALSE, status |-> None,
     output |-> <<>>, done |-> FALSE]

(* Progress: what the plugin may publish while the provider streams.       *)

PluginCreated == ~st.created /\ ~st.complete /\ Handle([st EXCEPT !.created = TRUE], <<>>, <<Created>>)

\* observe_provider: no tools, nothing before response.created, indexes without a gap.
PluginItem(kind) ==
    LET i == Len(st.items) + 1 IN
    /\ st.created /\ ~st.complete
    /\ i <= MaxItems
    /\ Handle([st EXCEPT !.items = Append(@, [kind |-> kind, parts |-> <<>>])], <<>>,
              <<Added(i, kind, None, TRUE)>>)

\* Parts are added in order; any item and any part of it may grow at any time.
PluginPart(i) ==
    /\ ~st.complete /\ i \in DOMAIN st.items
    /\ Len(st.items[i].parts) < MaxParts
    /\ Handle([st EXCEPT !.items[i].parts = Append(@, <<>>)], <<>>, <<PartAdded(i)>>)

PluginText(i, p, t) ==
    /\ ~st.complete /\ i \in DOMAIN st.items /\ p \in DOMAIN st.items[i].parts
    /\ Len(st.items[i].parts[p] \o t) <= MaxText
    /\ Handle([st EXCEPT !.items[i].parts[p] = @ \o t], <<>>, <<Delta(i, p, t)>>)

\* An answer with complete set.
PluginComplete == ~st.complete /\ Handle([st EXCEPT !.complete = TRUE], <<>>, <<>>)

(* The final response.                                                     *)

\* Contents the plugin may put into its response: what it streamed, or more, or something else.
Contents ==
    LET streamed == {st.items[i].parts : i \in DOMAIN st.items}
    IN  streamed \cup {Append(c, t) : c \in streamed, t \in Fragments} \cup {<<>>, <<(<<>>)>>} \cup {<<t>> : t \in Fragments}

FinalItems ==
    {[id |-> id, item |-> Item(kind, None, c)] :
        id \in 1..MaxItems, kind \in {"message", "reasoning"}, c \in Contents}
    \cup {[id |-> id, item |-> Item(kind, call, <<Document>>)] :
        id \in 1..MaxItems, kind \in ToolKinds, call \in CallIds}

Finals == UNION {[1..n -> FinalItems] : n \in 0..MaxItems}

\* Mutant of Agreeing: items are looked up by their identifier only.
AgreeingAnywhere(final) ==
    \A i \in DOMAIN st.items : \E j \in DOMAIN final :
        LET seen == st.items[i]
            item == final[j].item
        IN  /\ final[j].id = i
            /\ seen.kind = item.kind
            /\ Len(seen.parts) <= Len(item.content)
            /\ \A p \in DOMAIN seen.parts : seen.parts[p] = item.content[p]

\* finish and the checks of terminal_events: every streamed item is in the response under its
\* identifier, at its index, with its kind and with the texts that were streamed.
Agreeing(final) ==
    \A i \in DOMAIN st.items :
        /\ i \in DOMAIN final /\ final[i].id = i
        /\ LET seen == st.items[i]
               item == final[i].item
           IN  /\ seen.kind = item.kind
               /\ Len(seen.parts) <= Len(item.content)
               /\ \A p \in DOMAIN seen.parts : seen.parts[p] = item.content[p]

\* PreparedResponses::decode_value; the outcome the plugin names must match the tools.
Verified(final, status) ==
    LET output == [i \in DOMAIN final |-> final[i].item]
        count == ToolCount(output)
    IN  /\ \A i, j \in DOMAIN final : final[i].id = final[j].id => i = j
        /\ status = "incomplete" => count = 0 /\ proto.adapter # "managed_provider"
        /\ count > 0 => Resolves
        /\ CountAllowed(count, status = "completed")
        /\ Decodes(output, status)

\* Parts that were not streamed are added with their text.
RestOfParts(i, item, from) ==
    FlattenSeq([k \in 1..(Len(item.content) - from) |->
        <<PartAdded(i)>> \o TextEvents(i, from + k, item.content[from + k])])

ItemEvents(i, item) ==
    IF item.kind \in ToolKinds THEN ToolEvents(i, item)
    ELSE (IF i \in DOMAIN st.items THEN RestOfParts(i, item, Len(st.items[i].parts))
          ELSE <<Added(i, item.kind, None, TRUE)>> \o RestOfParts(i, item, 0))
         \o <<Done(i, item)>>

\* terminal_events: the host's own events for what the plugin has not shown.
TerminalEvents(output, status) ==
    (IF st.created THEN <<>> ELSE <<Created>>)
    \o FlattenSeq([i \in DOMAIN output |-> ItemEvents(i, output[i])])
    \o <<End(status, output)>>

\* finish: a stateless stream ends with it, a managed one saves the response first.
PluginFinish(final, status) ==
    LET output == [i \in DOMAIN final |-> final[i].item] IN
    /\ st.complete
    /\ Agreeing(final)
    /\ Verified(final, status)
    /\ Handle([st EXCEPT !.done = TRUE, !.status = status, !.output = output], <<>>,
              IF proto.adapter = "provider" THEN TerminalEvents(output, status) ELSE <<>>)

\* managed_final_events: the done items carry the envelope; an item added for it comes last.
ManagedTerminalEvents(output) ==
    LET n == Len(output)
        events == TerminalEvents(SubSeq(output, 1, Len(st.output)), "completed")
    IN  SubSeq(events, 1, Len(events) - 1)
        \o (IF n = Len(st.output) THEN <<>> ELSE <<Added(n, "reasoning", None, TRUE), Done(n, output[n])>>)
        \o <<End("completed", output)>>

PluginNext ==
    \/ PluginCreated
    \/ \E kind \in {"message", "reasoning"} : PluginItem(kind)
    \/ \E i \in 1..MaxItems :
          \/ PluginPart(i)
          \/ \E p \in 1..MaxParts, t \in Fragments : PluginText(i, p, t)
    \/ PluginComplete
    \/ /\ Reading /\ st.complete
       /\ \E final \in Finals, status \in {"completed", "incomplete"} : PluginFinish(final, status)
=============================================================================
