-------------------------- MODULE MessagesStreams --------------------------
(***************************************************************************)
(* Messages: the stateless stream (adapters/messages/stream.rs) and the    *)
(* managed one with thinking (adapters/messages/managed_stream.rs).        *)
(* Blocks start in order; in the stateless stream several may be open.     *)
(***************************************************************************)
EXTENDS StreamAdapter

StopReasons == {"end_turn", "tool_use", "max_tokens"}

\* PreparedMessages::terminal; stop_sequence is treated as end_turn.
MessagesStatus(stop) == IF stop = "max_tokens" THEN "incomplete" ELSE "completed"

MessagesTerminal(stop, count) ==
    /\ stop = "end_turn" => count = 0
    /\ stop = "tool_use" => count > 0
    /\ CountAllowed(count, MessagesStatus(stop) = "completed")

\* Arguments that never came are the empty object, which unwraps to no custom input.
ToolRaw(kind, raw) == IF raw = <<>> /\ kind = "function" THEN Document ELSE raw

MessagesInit == [started |-> FALSE, blocks |-> <<>>, stop |-> None, done |-> FALSE]

MessageStart ==
    ~st.started /\ Handle([st EXCEPT !.started = TRUE], <<Started, UsageUpdated(0)>>, <<Created>>)

\* A block may start while others are open.  Its index is its place.
StartBlock(kind, call, t) ==
    LET i == Len(st.blocks) + 1
        tool == kind \in ToolKinds
        block == [kind |-> kind, call |-> call, text |-> IF tool THEN <<>> ELSE t, open |-> TRUE]
    IN  /\ st.started /\ st.stop = None
        /\ tool => Resolves /\ CountAllowed(ToolCount(st.blocks) + 1, FALSE)
        /\ Handle([st EXCEPT !.blocks = Append(@, block)],
                  <<ItemStarted(i, i, kind, call)>>
                  \o (IF tool THEN <<>> ELSE <<PartStarted(i, 1), TextDelta(i, 1)>>),
                  <<Added(i, kind, call, TRUE)>>
                  \o (IF tool THEN <<>> ELSE <<PartAdded(i)>> \o TextEvents(i, 1, t)))

OpenBlock(i) == st.stop = None /\ i \in DOMAIN st.blocks /\ st.blocks[i].open

\* Function arguments are passed on as they come; a custom input stays private until it is whole.
DeltaBlock(i, t) ==
    LET block == st.blocks[i]
        submitted == CASE block.kind = "message" -> <<TextDelta(i, 1)>>
                       [] block.kind = "function" -> <<ArgumentsDelta(i, t)>>
                       [] block.kind = "custom" -> <<>>
        yielded == CASE block.kind = "message" -> TextEvents(i, 1, t)
                     [] block.kind = "function" -> <<Delta(i, 1, t)>>
                     [] block.kind = "custom" -> <<>>
    IN  /\ OpenBlock(i)
        /\ t \in IF block.kind = "message" THEN Fragments ELSE Pieces
        /\ IF block.kind = "message" THEN Len(block.text \o t) <= MaxText ELSE Partial(block.text \o t)
        /\ Handle([st EXCEPT !.blocks[i].text = @ \o t], submitted, yielded)

BlockItem(block) ==
    IF block.kind \in ToolKinds THEN ToolItem(block.kind, block.call, ToolRaw(block.kind, block.text))
    ELSE Item(block.kind, None, <<block.text>>)

StopBlock(i) ==
    LET block == st.blocks[i]
        item == BlockItem(block)
        late == block.kind = "custom" \/ (block.kind = "function" /\ block.text = <<>>)
    IN  /\ OpenBlock(i)
        /\ block.kind \in ToolKinds => Restorable(ToolRaw(block.kind, block.text))
        /\ Handle([st EXCEPT !.blocks[i].open = FALSE],
                  (IF block.kind = "message" THEN <<PartFinished(i, 1)>>
                   ELSE IF late THEN <<ArgumentsDelta(i, item.content[1])>> ELSE <<>>)
                  \o <<ItemFinished(i)>>,
                  (IF late THEN <<Delta(i, 1, item.content[1])>> ELSE <<>>) \o <<Done(i, item)>>)

MessageDelta(stop, count) ==
    /\ st.started /\ st.stop = None
    /\ \A i \in DOMAIN st.blocks : ~st.blocks[i].open
    /\ MessagesTerminal(stop, ToolCount(st.blocks))
    /\ Handle([st EXCEPT !.stop = stop], <<UsageUpdated(count)>>, <<>>)

MessageStop ==
    LET status == MessagesStatus(st.stop) IN
    /\ st.stop # None
    /\ Handle([st EXCEPT !.done = TRUE], <<Finished(status)>>,
              <<End(status, [i \in DOMAIN st.blocks |-> BlockItem(st.blocks[i])])>>)

MessagesNext ==
    \/ MessageStart
    \/ \E t \in Fragments : StartBlock("message", None, t)
    \/ \E kind \in ToolKinds, call \in CallIds : StartBlock(kind, call, <<>>)
    \/ \E i \in DOMAIN st.blocks : StopBlock(i) \/ \E t \in Fragments \cup Pieces : DeltaBlock(i, t)
    \/ \E stop \in StopReasons : MessageDelta(stop, 0)
    \/ MessageStop

-----------------------------------------------------------------------------
\* NativeMessagesStream: one block at a time; active is its public index, None while it has none.
\* A thinking block holds its signature apart: once it starts, the thinking is over.
NativeMessagesInit ==
    [started |-> FALSE, blocks |-> <<>>, open |-> FALSE, active |-> None, count |-> 0,
     stop |-> None, done |-> FALSE]

NativeMessageStart == ~st.started /\ Handle([st EXCEPT !.started = TRUE], <<>>, <<Created>>)

\* start_public and text: an item is announced with its first text, a message at once.
Announced(i, kind, t, new) ==
    (IF new THEN <<Added(i, kind, None, TRUE), PartAdded(i)>> ELSE <<>>) \o TextEvents(i, 1, t)

NativeBlock(kind, call, t) ==
    LET shows == kind = "message" \/ (kind = "reasoning" /\ t # <<>>)
        counts == shows \/ kind \in ToolKinds
    IN  /\ st.started /\ ~st.open /\ st.stop = None
        /\ Len(st.blocks) <= MaxItems
        /\ kind \in ToolKinds => Resolves
        /\ Handle([st EXCEPT !.blocks = Append(@, [kind |-> kind, call |-> call, text |-> t, signed |-> FALSE]),
                             !.open = TRUE, !.active = IF shows THEN st.count + 1 ELSE None,
                             !.count = IF counts THEN @ + 1 ELSE @],
                  <<>>, IF shows THEN Announced(st.count + 1, kind, t, TRUE) ELSE <<>>)

NativeDelta(t) ==
    LET n == Len(st.blocks)
        block == st.blocks[n]
        shows == block.kind \in {"message", "reasoning"} /\ t # <<>>
        new == shows /\ st.active = None
        i == IF new THEN st.count + 1 ELSE st.active
    IN  /\ st.open
        /\ block.kind # "redacted" /\ ~block.signed
        /\ t \in IF block.kind \in ToolKinds THEN Pieces ELSE Fragments
        /\ IF block.kind \in ToolKinds THEN Partial(block.text \o t) ELSE Len(block.text \o t) <= MaxText
        /\ Handle([st EXCEPT !.blocks[n].text = @ \o t,
                             !.active = IF new THEN i ELSE @, !.count = IF new THEN i ELSE @],
                  <<>>, IF shows THEN Announced(i, block.kind, t, new) ELSE <<>>)

NativeSignature ==
    LET n == Len(st.blocks) IN
    /\ st.open /\ st.blocks[n].kind = "reasoning"
    /\ Handle([st EXCEPT !.blocks[n].signed = TRUE], <<>>, <<>>)

NativeStop ==
    LET block == st.blocks[Len(st.blocks)] IN
    /\ st.open
    /\ block.kind \in ToolKinds => block.text \in {<<>>, Document}
    /\ block.kind = "reasoning" => block.signed
    /\ Handle([st EXCEPT !.open = FALSE], <<>>, <<>>)

NativeMessageDelta(stop) ==
    st.started /\ ~st.open /\ st.stop = None /\ Handle([st EXCEPT !.stop = stop], <<>>, <<>>)

NativeMessageStop == st.stop # None /\ Handle([st EXCEPT !.done = TRUE], <<>>, <<>>)

\* decode leaves out redacted and empty thinking.
NativeMessagesOutput ==
    LET hidden(b) == b.kind = "redacted" \/ (b.kind = "reasoning" /\ b.text = <<>>)
        public == Kept(st.blocks, {i \in DOMAIN st.blocks : ~hidden(st.blocks[i])})
    IN  [i \in DOMAIN public |-> BlockItem(public[i])]

NativeMessagesDecodable ==
    /\ st.blocks # <<>>
    /\ \A i \in DOMAIN st.blocks :
          st.blocks[i].kind \in ToolKinds => Restorable(ToolRaw(st.blocks[i].kind, st.blocks[i].text))
    /\ MessagesTerminal(st.stop, ToolCount(st.blocks)) /\ MessagesStatus(st.stop) = "completed"
    /\ Decodes(NativeMessagesOutput, "completed")

NativeMessagesNext ==
    \/ NativeMessageStart
    \/ \E kind \in {"message", "reasoning"}, t \in Fragments : NativeBlock(kind, None, t)
    \/ NativeBlock("redacted", None, <<>>)
    \/ \E kind \in ToolKinds, call \in CallIds : NativeBlock(kind, call, <<>>)
    \/ \E t \in Fragments \cup Pieces : NativeDelta(t)
    \/ NativeSignature \/ NativeStop
    \/ \E stop \in StopReasons : NativeMessageDelta(stop)
    \/ NativeMessageStop
=============================================================================
