--------------------------- MODULE ResponseStream ---------------------------
(***************************************************************************)
(* What a streaming client may rely on, whatever protocol the provider     *)
(* speaks.  One response is created; its items open, grow and are done;    *)
(* a done item is what was streamed of it; the stream ends once, with      *)
(* exactly the items that were done, or it is cut and has no end.          *)
(***************************************************************************)
EXTENDS Naturals, Sequences, SequencesExt

VARIABLE view   \* what the client has received

CONSTANT NoItem

Nothing == [created |-> FALSE, items |-> <<>>, end |-> "none", output |-> <<>>]

Streaming == view.created /\ view.end = "none"

StreamInit == view = Nothing

Create == ~view.created /\ view' = [view EXCEPT !.created = TRUE]

Growing(i) == Streaming /\ i \in DOMAIN view.items /\ view.items[i].item = NoItem

\* Items take their index once; nothing has been streamed of a new one.
AddItem(i) ==
    /\ Streaming
    /\ i \notin DOMAIN view.items
    /\ FlattenSeq(view'.items[i].parts) = <<>> /\ view'.items[i].item = NoItem
    /\ view' = [view EXCEPT !.items = (i :> view'.items[i]) @@ @]

AddPart(i) ==
    /\ Growing(i)
    /\ view' = [view EXCEPT !.items[i].parts = Append(@, <<>>)]

Extend(i, p) ==
    /\ Growing(i)
    /\ p \in DOMAIN view.items[i].parts
    /\ IsPrefix(view.items[i].parts[p], view'.items[i].parts[p])
    /\ view' = [view EXCEPT !.items[i].parts[p] = view'.items[i].parts[p]]

\* An item whose head the provider filled before streaming shows the rest of its text only.
Agrees(seen, item) ==
    /\ seen.kind = item.kind /\ seen.call = item.call
    /\ IF seen.whole THEN seen.parts = item.content
                     ELSE IsSuffix(FlattenSeq(seen.parts), FlattenSeq(item.content))

\* An item is done once; one that was announced keeps its identity and its text.
FinishItem(i) ==
    LET item == view'.items[i].item IN
    /\ Streaming
    /\ item # NoItem
    /\ i \in DOMAIN view.items => Growing(i) /\ Agrees(view.items[i], item)
    /\ \A j \in DOMAIN view.items \ {i} :
          view.items[j].item # NoItem /\ item.call # NoItem => view.items[j].item.call # item.call
    /\ view' = [view EXCEPT !.items = (i :> view'.items[i]) @@ @]

\* The final response lists the done items in order, without a gap.
Finish ==
    /\ Streaming
    /\ DOMAIN view.items = 1..Len(view'.output)
    /\ \A i \in DOMAIN view.items : view.items[i].item # NoItem /\ view.items[i].item = view'.output[i]
    /\ view'.end \in {"completed", "incomplete", "failed"}
    /\ view' = [view EXCEPT !.end = view'.end, !.output = view'.output]

StreamNext ==
    \/ Create
    \/ \E i \in DOMAIN view'.items :
          \/ AddItem(i)
          \/ AddPart(i)
          \/ \E p \in DOMAIN view'.items[i].parts : Extend(i, p)
          \/ FinishItem(i)
    \/ Finish

StreamSpec == StreamInit /\ [][StreamNext]_view
=============================================================================
