--------------------------- MODULE EventValidator ---------------------------
(***************************************************************************)
(* The validator of one response's events (src/src/ir/event.rs), as        *)
(* operators on its state.  Every adapter feeds it what it decodes; the    *)
(* first rejection makes the adapter fail.                                 *)
(***************************************************************************)
EXTENDS Naturals, FiniteSets, Sequences, TLC

CONSTANTS
    MaxItems,      \* EventLimits.max_items
    MaxParts,      \* EventLimits.max_parts
    MaxArguments   \* EventLimits.max_argument_bytes

ASSUME LimitsAssumption == {MaxItems, MaxParts, MaxArguments} \subseteq Nat \ {0}

ToolKinds == {"function", "custom"}

Kinds == ToolKinds \cup {"message", "reasoning"}

\* Arguments are pieces of one JSON object; this is the whole of it.
Document == <<"{", "}">>

\* BTreeMap::insert.
Put(f, key, value) == [k \in (DOMAIN f) \cup {key} |-> IF k = key THEN value ELSE f[k]]

\* EventIR: one constructor per event.
Started == [op |-> "started"]
ItemStarted(id, index, kind, call) ==
    [op |-> "item", id |-> id, index |-> index, kind |-> kind, call |-> call]
PartStarted(id, part) == [op |-> "part", id |-> id, part |-> part]
TextDelta(id, part) == [op |-> "text", id |-> id, part |-> part]
PartFinished(id, part) == [op |-> "part_end", id |-> id, part |-> part]
ArgumentsDelta(id, text) == [op |-> "arguments", id |-> id, text |-> text]
ItemFinished(id) == [op |-> "item_end", id |-> id]
UsageUpdated(count) == [op |-> "usage", count |-> count]
Finished(status) == [op |-> "finished", status |-> status]

NewValidator == [ok |-> TRUE, phase |-> "new", items |-> <<>>, usage |-> 0]

Open(v, id) == id \in DOMAIN v.items /\ v.items[id].open

OpenPart(v, id, part) ==
    Open(v, id) /\ part \in DOMAIN v.items[id].parts /\ v.items[id].parts[part]

PartCount(v) ==
    Cardinality({c \in (DOMAIN v.items) \X (1..MaxParts) : c[2] \in DOMAIN v.items[c[1]].parts})

ArgumentCount(v) ==
    LET sum[S \in SUBSET DOMAIN v.items] ==
            IF S = {} THEN 0
            ELSE LET id == CHOOSE i \in S : TRUE IN Len(v.items[id].arguments) + sum[S \ {id}]
    IN  sum[DOMAIN v.items]

CanStartItem(v, e) ==
    /\ Cardinality(DOMAIN v.items) < MaxItems
    /\ e.id \notin DOMAIN v.items
    /\ \A i \in DOMAIN v.items :
          /\ v.items[i].index # e.index
          /\ e.kind \in ToolKinds => v.items[i].call # e.call

CanStartPart(v, e) ==
    /\ PartCount(v) < MaxParts
    /\ Open(v, e.id)
    /\ v.items[e.id].kind \notin ToolKinds
    /\ e.part \notin DOMAIN v.items[e.id].parts

CanAppendArguments(v, e) ==
    /\ Open(v, e.id)
    /\ v.items[e.id].kind \in ToolKinds
    /\ ArgumentCount(v) + Len(e.text) <= MaxArguments

CanFinishItem(v, e) ==
    /\ Open(v, e.id)
    /\ \A p \in DOMAIN v.items[e.id].parts : ~v.items[e.id].parts[p]
    /\ v.items[e.id].kind = "function" => v.items[e.id].arguments = Document

CanFinish(v, e) == e.status = "completed" => \A id \in DOMAIN v.items : ~v.items[id].open

\* Nothing is accepted after the terminal event, and nothing but Started first.
Accepts(v, e) ==
    /\ v.phase = IF e.op = "started" THEN "new" ELSE "open"
    /\ CASE e.op = "started" -> TRUE
         [] e.op = "item" -> CanStartItem(v, e)
         [] e.op = "part" -> CanStartPart(v, e)
         [] e.op \in {"text", "part_end"} -> OpenPart(v, e.id, e.part)
         [] e.op = "arguments" -> CanAppendArguments(v, e)
         [] e.op = "item_end" -> CanFinishItem(v, e)
         [] e.op = "usage" -> e.count >= v.usage
         [] e.op = "finished" -> CanFinish(v, e)

Accepted(v, e) ==
    CASE e.op = "started" -> [v EXCEPT !.phase = "open"]
      [] e.op = "item" ->
            [v EXCEPT !.items = Put(@, e.id, [index |-> e.index, kind |-> e.kind, call |-> e.call,
                                              open |-> TRUE, parts |-> <<>>, arguments |-> <<>>])]
      [] e.op = "part" -> [v EXCEPT !.items[e.id].parts = Put(@, e.part, TRUE)]
      [] e.op = "text" -> v
      [] e.op = "part_end" -> [v EXCEPT !.items[e.id].parts[e.part] = FALSE]
      [] e.op = "arguments" -> [v EXCEPT !.items[e.id].arguments = @ \o e.text]
      [] e.op = "item_end" -> [v EXCEPT !.items[e.id].open = FALSE]
      [] e.op = "usage" -> [v EXCEPT !.usage = e.count]
      [] e.op = "finished" -> [v EXCEPT !.phase = e.status]

\* A rejection leaves the state alone; ok remembers it for the adapter, which stops.
Apply(v, e) == IF v.ok /\ Accepts(v, e) THEN Accepted(v, e) ELSE [v EXCEPT !.ok = FALSE]

ApplyAll(v, events) ==
    LET run[n \in 0..Len(events)] == IF n = 0 THEN v ELSE Apply(run[n - 1], events[n])
    IN  run[Len(events)]

\* The events of a whole output item, as the decoders of complete bodies submit them.
CompleteItem(index, item) ==
    LET parts == item.content
        part(p) == <<PartStarted(index, p), TextDelta(index, p), PartFinished(index, p)>>
        flat[p \in 0..Len(parts)] == IF p = 0 THEN <<>> ELSE flat[p - 1] \o part(p)
    IN  <<ItemStarted(index, index, item.kind, item.call)>>
        \o (IF item.kind \in ToolKinds THEN <<ArgumentsDelta(index, parts[1])>> ELSE flat[Len(parts)])
        \o <<ItemFinished(index)>>

\* A decoder's verdict on a whole response: its output items in order, then the terminal.
Decodes(output, status) ==
    LET flat[n \in 0..Len(output)] ==
            IF n = 0 THEN <<Started>> ELSE flat[n - 1] \o CompleteItem(n, output[n])
    IN  ApplyAll(NewValidator, flat[Len(output)] \o <<Finished(status)>>).ok
=============================================================================
