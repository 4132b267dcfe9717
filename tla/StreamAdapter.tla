--------------------------- MODULE StreamAdapter ---------------------------
(***************************************************************************)
(* What the stream adapters share: the state of one streaming request, *)
(* the Responses events they emit, and the request's rules for tools.      *)
(* A provider event is handled whole; the events it yields reach the       *)
(* client one by one before the next provider event is read.               *)
(***************************************************************************)
EXTENDS EventValidator, SequencesExt

CONSTANTS
    Tokens,     \* units of text
    CallIds,    \* call identifiers the provider uses
    Adapters,   \* the adapters under check
    Requests,   \* tool rules of the request: parallel_tool_calls and tool_choice
    MaxText,    \* bound: tokens in one text
    None        \* absent value

\* The absent value is no tool item.
ASSUME AbsentAssumption ==
    None \notin [kind : ToolKinds, call : CallIds, content : Seq(Seq({"{", "}", "input"}))]

VARIABLES
    proto,     \* the adapter and its options
    request,   \* the request's tool rules
    st,        \* the adapter's own state
    val,       \* its EventValidator
    out,       \* events yielded and not yet sent
    relay,     \* the relay loop
    view       \* what the client has received

svars == <<proto, request, st, val, out, relay, view>>

Fragments == {<<>>} \cup {<<t>> : t \in Tokens}

\* Pieces of function arguments; a provider may send them one by one, and stop before the last.
\* Any other text fails where an unfinished one does.
Pieces == {<<"{">>, <<"}">>}

Partial(raw) == IsPrefix(raw, Document)

Text == UNION {[1..n -> Tokens] : n \in 0..MaxText}

\* An output item: its kind, the call it makes and its parts.
Item(kind, call, content) == [kind |-> kind, call |-> call, content |-> content]

Message(parts) == Item("message", None, parts)

Reasoning(parts) == Item("reasoning", None, parts)

\* Responses events.  The *.done events of a text or a part repeat what Done carries and are
\* left out.  whole is not on the wire: the item's text starts with its first delta.
Created == [ev |-> "created"]
Added(i, kind, call, whole) == [ev |-> "added", i |-> i, kind |-> kind, call |-> call, whole |-> whole]
PartAdded(i) == [ev |-> "part", i |-> i]
Delta(i, p, text) == [ev |-> "delta", i |-> i, p |-> p, text |-> text]
Done(i, item) == [ev |-> "done", i |-> i, item |-> item]
End(status, output) == [ev |-> "end", status |-> status, output |-> output]

\* PreparedTools: a choice of "none" admits no call, "required" at least one.
Resolves == request.choice # "none"

CountAllowed(count, completed) ==
    /\ request.parallel \/ count <= 1
    /\ completed /\ request.choice = "required" => count > 0

ToolCount(output) == Cardinality({i \in DOMAIN output : output[i].kind \in ToolKinds})

\* restore_call: arguments must be the whole object; a bridged custom tool's input is unwrapped from it.
Restorable(raw) == raw = Document

Restored(kind, raw) == IF kind = "custom" THEN <<"input">> ELSE raw

ToolItem(kind, call, raw) == Item(kind, call, <<Restored(kind, raw)>>)

\* The elements at some places of a sequence, in their order.
Kept(s, places) == FlattenSeq([k \in DOMAIN s |-> IF k \in places THEN <<s[k]>> ELSE <<>>])

\* Deltas of a text: none for an empty one.
TextEvents(i, p, text) == IF text = <<>> THEN <<>> ELSE <<Delta(i, p, text)>>

\* A whole tool item.
ToolEvents(i, item) ==
    <<Added(i, item.kind, item.call, TRUE), Delta(i, 1, item.content[1]), Done(i, item)>>

Reading == relay = "reading" /\ out = <<>> /\ ~st.done

\* One provider event: the adapter's next state, what it submits and what it yields.
Handle(next, events, yielded) ==
    /\ Reading
    /\ ApplyAll(val, events).ok
    /\ val' = ApplyAll(val, events)
    /\ st' = next
    /\ out' = yielded
    /\ UNCHANGED <<proto, request, relay, view>>

\* A tool item has one argument text from the start; the parts of others are added.
Unfilled(kind) == IF kind \in ToolKinds THEN <<(<<>>)>> ELSE <<>>

\* As the client reads the events, in the order they are sent.
Received(w, e) ==
    CASE e.ev = "created" -> [w EXCEPT !.created = TRUE]
      [] e.ev = "added" ->
            [w EXCEPT !.items = Put(@, e.i, [kind |-> e.kind, call |-> e.call, whole |-> e.whole,
                                             parts |-> Unfilled(e.kind), item |-> None])]
      [] e.ev = "part" -> [w EXCEPT !.items[e.i].parts = Append(@, <<>>)]
      [] e.ev = "delta" -> [w EXCEPT !.items[e.i].parts[e.p] = @ \o e.text]
      [] e.ev = "done" ->
            [w EXCEPT !.items = Put(@, e.i, IF e.i \in DOMAIN @ THEN [@[e.i] EXCEPT !.item = e.item]
                                            ELSE [kind |-> e.item.kind, call |-> e.item.call, whole |-> TRUE,
                                                  parts |-> e.item.content, item |-> e.item])]
      [] e.ev = "end" -> [w EXCEPT !.end = e.status, !.output = e.output]
=============================================================================
