-------------------------- MODULE ResponsesStream --------------------------
(***************************************************************************)
(* Checked Responses (adapters/responses/stream.rs): items of any index    *)
(* grow side by side.  Texts are passed on as they come; tools are held    *)
(* until the whole terminal response is validated.  A stateless codec's    *)
(* output is verified by the same stream, and gated behind it.             *)
(***************************************************************************)
EXTENDS StreamAdapter

\* How the provider sends a tool: a function, a custom tool bridged as one, or free text.
WireTools == {"function", "bridged", "freeform"}

WireKinds == WireTools \cup {"message", "reasoning"}

PublicKind(wire) ==
    IF wire \in {"bridged", "freeform"} THEN "custom" ELSE wire

ResponsesInit == [started |-> FALSE, progressed |-> FALSE, items |-> <<>>, held |-> <<>>, done |-> FALSE]

Heads(events) == {k \in DOMAIN events : events[k].ev = "added" /\ events[k].kind \in ToolKinds}

\* The first of the verified events that CodecStream holds back: once a tool's head has been
\* held, everything is.
FirstHeld(events) ==
    IF st.held # <<>> THEN 1
    ELSE CHOOSE k \in 1..(Len(events) + 1) :
            /\ k \in Heads(events) \/ k = Len(events) + 1
            /\ \A h \in Heads(events) : k <= h

\* Held events leave by output index, the order within an item kept, the terminal last.  The sort
\* is stable, so they are kept sorted; an empty delta adds nothing and is not kept.
InOutputOrder(events) ==
    LET ends == {k \in DOMAIN events : events[k].ev = "end"}
        of(i) == {k \in DOMAIN events \ ends : /\ events[k].i = i
                                               /\ events[k].ev = "delta" => events[k].text # <<>>}
    IN  FlattenSeq([i \in 1..MaxItems |-> Kept(events, of(i))]) \o Kept(events, ends)

\* CodecStream::event behind the verifier; the built-in adapter has no gate.
Yield(next, events, yielded) ==
    LET first == FirstHeld(yielded)
        held == InOutputOrder(st.held \o SubSeq(yielded, first, Len(yielded)))
        published == SubSeq(yielded, 1, first - 1)
    IN  IF proto.adapter # "codec" THEN Handle(next, events, yielded)
        ELSE IF next.done THEN Handle([next EXCEPT !.held = <<>>], events, published \o held)
        ELSE Handle([next EXCEPT !.held = held], events, published)

ResponseCreated == ~st.started /\ Yield([st EXCEPT !.started = TRUE], <<Started>>, <<Created>>)

\* response.in_progress is passed on; it adds nothing to the client's view.
ResponseInProgress ==
    /\ st.started /\ ~st.progressed /\ st.items = <<>>
    /\ Yield([st EXCEPT !.progressed = TRUE], <<>>, <<>>)

Calls == {st.items[i].call : i \in {j \in DOMAIN st.items : st.items[j].wire \in WireTools}}

\* With preserve_item_order a tool's head is shown at once; its content never is.
ItemAdded(i, wire, call) ==
    LET tool == wire \in WireTools
        item == [wire |-> wire, call |-> call, parts |-> <<>>, arguments |-> <<>>,
                 argumentsDone |-> FALSE, done |-> FALSE]
    IN  /\ st.started
        /\ i \notin DOMAIN st.items /\ Cardinality(DOMAIN st.items) < MaxItems
        /\ wire = "bridged" => proto.adapter # "codec"
        /\ tool => Resolves /\ call \notin Calls /\ CountAllowed(Cardinality(Calls) + 1, FALSE)
        /\ Yield([st EXCEPT !.items = Put(@, i, item)],
                  IF tool THEN <<>> ELSE <<ItemStarted(i, i, wire, call)>>,
                  IF tool /\ ~proto.order THEN <<>> ELSE <<Added(i, PublicKind(wire), call, TRUE)>>)

OpenItem(i) == i \in DOMAIN st.items /\ ~st.items[i].done

ToolArguments(i, piece) ==
    /\ OpenItem(i) /\ st.items[i].wire \in WireTools /\ ~st.items[i].argumentsDone
    /\ Partial(st.items[i].arguments \o piece)
    /\ Yield([st EXCEPT !.items[i].arguments = @ \o piece], <<>>, <<>>)

ToolArgumentsDone(i) ==
    /\ OpenItem(i) /\ st.items[i].wire \in WireTools /\ ~st.items[i].argumentsDone
    /\ Yield([st EXCEPT !.items[i].argumentsDone = TRUE], <<>>, <<>>)

ContentPartAdded(i) ==
    LET p == Len(st.items[i].parts) + 1 IN
    /\ OpenItem(i) /\ st.items[i].wire \notin WireTools
    /\ Yield([st EXCEPT !.items[i].parts = Append(@, [text |-> <<>>, textDone |-> FALSE, closed |-> FALSE])],
              <<PartStarted(i, p)>>, <<PartAdded(i)>>)

\* part_mut: the part is not closed.
OpenPartOf(i, p) ==
    OpenItem(i) /\ p \in DOMAIN st.items[i].parts /\ ~st.items[i].parts[p].closed

OutputTextDelta(i, p, t) ==
    /\ OpenPartOf(i, p) /\ ~st.items[i].parts[p].textDone
    /\ Len(st.items[i].parts[p].text \o t) <= MaxText
    /\ Yield([st EXCEPT !.items[i].parts[p].text = @ \o t], <<TextDelta(i, p)>>, <<Delta(i, p, t)>>)

OutputTextDone(i, p) ==
    /\ OpenPartOf(i, p) /\ ~st.items[i].parts[p].textDone
    /\ Yield([st EXCEPT !.items[i].parts[p].textDone = TRUE], <<>>, <<>>)

ContentPartDone(i, p) ==
    /\ OpenPartOf(i, p) /\ st.items[i].parts[p].textDone
    /\ Yield([st EXCEPT !.items[i].parts[p].closed = TRUE], <<PartFinished(i, p)>>, <<>>)

\* restore_item: what the client gets for an item.
RestoredItem(item) ==
    CASE item.wire \in {"message", "reasoning"} ->
            Item(item.wire, None, [p \in DOMAIN item.parts |-> item.parts[p].text])
      [] item.wire = "freeform" -> Item("custom", item.call, <<item.arguments>>)
      [] OTHER -> ToolItem(PublicKind(item.wire), item.call, item.arguments)

\* Closed: every part of a text, the arguments of a tool, which must restore.
ItemClosed(item) ==
    IF item.wire \in WireTools
    THEN item.argumentsDone /\ (item.wire # "freeform" => Restorable(item.arguments))
    ELSE \A p \in DOMAIN item.parts : item.parts[p].closed

\* Mutant of OutputItemDone: a finished tool is passed on at once.
OutputItemDoneEager(i) ==
    LET item == st.items[i] IN
    /\ OpenItem(i) /\ ItemClosed(item)
    /\ Yield([st EXCEPT !.items[i].done = TRUE],
              IF item.wire \in WireTools THEN <<>> ELSE <<ItemFinished(i)>>, <<Done(i, RestoredItem(item))>>)

OutputItemDone(i) ==
    LET item == st.items[i]
        tool == item.wire \in WireTools
    IN  /\ OpenItem(i) /\ ItemClosed(item)
        /\ tool => Resolves
        /\ Yield([st EXCEPT !.items[i].done = TRUE],
                  IF tool THEN <<>> ELSE <<ItemFinished(i)>>,
                  IF tool THEN <<>> ELSE <<Done(i, RestoredItem(item))>>)

\* emit_tool: the head unless it was shown.
Emitted(i, item) == IF proto.order THEN Tail(ToolEvents(i, item)) ELSE ToolEvents(i, item)

\* decode_value: only a completed response may hold tools.
ResponsesDecodable(output, status) ==
    /\ status # "completed" => ToolCount(output) = 0
    /\ CountAllowed(ToolCount(output), status = "completed")
    /\ Decodes(output, status)

ResponseEnd(status) ==
    LET n == Cardinality(DOMAIN st.items)
        output == [i \in 1..n |-> RestoredItem(st.items[i])]
        tool(i) == output[i].kind \in ToolKinds
    IN  /\ st.started
        /\ DOMAIN st.items = 1..n /\ \A i \in 1..n : st.items[i].done
        /\ ResponsesDecodable(output, status)
        /\ Yield([st EXCEPT !.done = TRUE],
                  FlattenSeq([i \in 1..n |-> IF tool(i) THEN CompleteItem(i, output[i]) ELSE <<>>])
                  \o <<Finished(status)>>,
                  FlattenSeq([i \in 1..n |-> IF tool(i) THEN Emitted(i, output[i]) ELSE <<>>])
                  \o <<End(status, output)>>)

ResponsesNext ==
    \/ ResponseCreated \/ ResponseInProgress
    \/ \E i \in 1..MaxItems :
          \/ \E wire \in {"message", "reasoning"} : ItemAdded(i, wire, None)
          \/ \E wire \in WireTools, call \in CallIds : ItemAdded(i, wire, call)
          \/ \E piece \in Pieces : ToolArguments(i, piece)
          \/ ToolArgumentsDone(i)
          \/ ContentPartAdded(i)
          \/ \E p \in 1..MaxParts :
                \/ \E t \in Fragments : OutputTextDelta(i, p, t)
                \/ OutputTextDone(i, p) \/ ContentPartDone(i, p)
          \/ OutputItemDone(i)
    \/ \E status \in {"completed", "incomplete", "failed"} : ResponseEnd(status)
=============================================================================
