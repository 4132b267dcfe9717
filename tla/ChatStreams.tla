---------------------------- MODULE ChatStreams ----------------------------
(***************************************************************************)
(* Chat Completions: the stateless stream (adapters/chat/stream.rs) and    *)
(* the managed one with reasoning (adapters/chat/managed_stream.rs).       *)
(* A chunk may carry text, tool fragments and a finish reason together;    *)
(* the code handles them in that order, so they are separate steps here.   *)
(***************************************************************************)
EXTENDS StreamAdapter

FinishReasons == {"stop", "tool_calls", "length"}

ASSUME ReasonsAssumption == None \notin FinishReasons

\* PreparedChat::terminal.
ChatStatus(reason) == IF reason = "length" THEN "incomplete" ELSE "completed"

\* Mutant of ChatTerminal: the request's rules for tools are not consulted.
ChatTerminalUnchecked(reason, count) == (reason = "stop" => count = 0) /\ (reason = "tool_calls" => count > 0)

ChatTerminal(reason, count) ==
    /\ reason = "stop" => count = 0
    /\ reason = "tool_calls" => count > 0
    /\ CountAllowed(count, ChatStatus(reason) = "completed")

\* A buffered tool call; kind stands for its name.  One that never gets its type fails to decode.
ChatCall(call, kind) == [call |-> call, kind |-> kind, raw |-> <<>>]

ChatInit == [started |-> FALSE, text |-> None, calls |-> <<>>, finish |-> None, final |-> None, done |-> FALSE]

\* The first chunk, whatever it carries, starts the response.
First == IF st.started THEN <<>> ELSE <<Started>>
FirstOut == IF st.started THEN <<>> ELSE <<Created>>

\* text_delta: the message item opens with the first content, even an empty one.
ChatText(t) ==
    LET opens == st.text = None
        text == (IF opens THEN <<>> ELSE st.text) \o t
    IN  /\ st.finish = None
        /\ Len(text) <= MaxText
        /\ opens => Cardinality(DOMAIN st.calls) < MaxItems
        /\ Handle([st EXCEPT !.started = TRUE, !.text = text],
                  First \o (IF opens THEN <<ItemStarted(1, 1, "message", None), PartStarted(1, 1)>> ELSE <<>>)
                        \o <<TextDelta(1, 1)>>,
                  FirstOut \o (IF opens THEN <<Added(1, "message", None, TRUE), PartAdded(1)>> ELSE <<>>)
                           \o TextEvents(1, 1, t))

\* tool_delta: fragments are collected by the provider's index, in any order.
ChatTool(i, call, kind, piece) ==
    LET known == i \in DOMAIN st.calls
        old == IF known THEN st.calls[i] ELSE ChatCall(call, kind)
    IN  /\ st.finish = None
        /\ known => <<call, kind>> = <<old.call, old.kind>>
        /\ ~known => Cardinality(DOMAIN st.calls) + (IF st.text = None THEN 0 ELSE 1) < MaxItems
        /\ Partial(old.raw \o piece)
        /\ Handle([st EXCEPT !.started = TRUE,
                             !.calls = Put(@, i, [old EXCEPT !.raw = @ \o piece])],
                  First, FirstOut)

\* decode: the message, then the tools in order.
ChatOutput(text, calls) ==
    (IF text = None THEN <<>> ELSE <<Message(<<text>>)>>)
    \o [i \in 1..Cardinality(DOMAIN calls) |-> ToolItem(calls[i].kind, calls[i].call, calls[i].raw)]

ChatDecodable(text, calls, reason) ==
    /\ DOMAIN calls = 1..Cardinality(DOMAIN calls)
    /\ \A i \in DOMAIN calls : Restorable(calls[i].raw) /\ Resolves
    /\ ChatTerminal(reason, Cardinality(DOMAIN calls))
    /\ Decodes(ChatOutput(text, calls), ChatStatus(reason))

\* The events flush submits and yields for the item at an index.
ChatFlushed(i, item) ==
    IF item.kind = "message" THEN <<PartFinished(1, 1), ItemFinished(1)>> ELSE CompleteItem(i, item)

ChatReleased(i, item) == IF item.kind = "message" THEN <<Done(i, item)>> ELSE ToolEvents(i, item)

\* finish_reason: the buffered tools are released, complete or not at all.
ChatFinish(reason) ==
    LET output == ChatOutput(st.text, st.calls) IN
    /\ st.finish = None
    /\ ChatDecodable(st.text, st.calls, reason)
    /\ Handle([st EXCEPT !.started = TRUE, !.finish = reason, !.final = output],
              First \o FlattenSeq([i \in DOMAIN output |-> ChatFlushed(i, output[i])]),
              FirstOut \o FlattenSeq([i \in DOMAIN output |-> ChatReleased(i, output[i])]))

ChatUsage(count) == Handle([st EXCEPT !.started = TRUE], First \o <<UsageUpdated(count)>>, FirstOut)

\* [DONE].
ChatDone ==
    LET status == ChatStatus(st.finish) IN
    /\ st.finish # None
    /\ ChatTerminal(st.finish, Cardinality(DOMAIN st.calls))
    /\ Handle([st EXCEPT !.done = TRUE], <<Finished(status)>>, <<End(status, st.final)>>)

ChatNext ==
    \/ \E t \in Fragments : ChatText(t)
    \/ \E i \in 1..MaxItems, call \in CallIds, kind \in ToolKinds, piece \in Pieces :
          ChatTool(i, call, kind, piece)
    \/ \E reason \in FinishReasons : ChatFinish(reason)
    \/ \E count \in 0..1 : ChatUsage(count)
    \/ ChatDone

-----------------------------------------------------------------------------
\* NativeChatStream.  identity: id, model and created are known; shown: what was yielded so far.
\* details are OpenRouter's reasoning_details, None until the first; flat is the plain reasoning text.
NativeChatInit ==
    [identity |-> FALSE, text |-> <<>>, flat |-> <<>>, details |-> None, calls |-> <<>>,
     finish |-> None, started |-> FALSE, shown |-> <<>>, shownText |-> None, done |-> FALSE]

\* A detail: its type when known, its text when present.
NoDetail == [type |-> None, text |-> None]

\* public_summaries: the displayable details, or the flat text when there are none.
DetailsValid(details) ==
    \A i \in DOMAIN details : /\ details[i].type # None /\ details[i].text # None
                              /\ details[i].type = "encrypted" => details[i].text # <<>>

Shows(detail) == detail.type = "text" /\ detail.text # <<>>

DetailTexts(details) ==
    LET shown == Kept(details, {i \in DOMAIN details : Shows(details[i])})
    IN  [i \in DOMAIN shown |-> shown[i].text]

Summaries(s) ==
    IF s.details # None THEN DetailTexts(s.details)
    ELSE IF s.flat = <<>> THEN <<>> ELSE <<s.flat>>

\* Before the end: DeepSeek's text as it grows; OpenRouter's details up to the first incomplete one.
Available(s) ==
    IF proto.dialect = "deepseek" THEN Summaries(s)
    ELSE IF s.details = None THEN <<>>
    ELSE LET ready == {n \in 0..Len(s.details) : DetailsValid(SubSeq(s.details, 1, n))}
         IN  DetailTexts(SubSeq(s.details, 1, CHOOSE n \in ready : \A m \in ready : m <= n))

\* publish_progress: what the client has not been shown yet.  The reasoning item keeps index 1.
Rest(old, new) == SubSeq(new, Len(old) + 1, Len(new))

Publishable(s, summaries) ==
    s.identity => \A i \in (DOMAIN s.shown) \cap (DOMAIN summaries) : IsPrefix(s.shown[i], summaries[i])

Progress(s, summaries) ==
    LET fresh == s.shownText = None /\ s.text # <<>>
        part(i) == IF i \in DOMAIN s.shown THEN TextEvents(1, i, Rest(s.shown[i], summaries[i]))
                   ELSE <<PartAdded(1)>> \o TextEvents(1, i, summaries[i])
    IN  (IF s.started THEN <<>> ELSE <<Created, Added(1, "reasoning", None, TRUE)>>)
        \o FlattenSeq([i \in DOMAIN summaries |-> part(i)])
        \o (IF fresh THEN <<Added(2, "message", None, TRUE), PartAdded(2)>> ELSE <<>>)
        \o TextEvents(2, 1, Rest(IF s.shownText = None THEN <<>> ELSE s.shownText, s.text))

Published(s, summaries) ==
    [s EXCEPT !.started = TRUE, !.shown = summaries \o Rest(summaries, @),
              !.shownText = IF @ = None /\ s.text = <<>> THEN None ELSE s.text]

\* Every chunk ends with publish_progress, which does nothing until the identity is known.
NativeChatChunk(s, summaries) ==
    /\ Publishable(s, summaries)
    /\ IF s.identity THEN Handle(Published(s, summaries), <<>>, Progress(s, summaries))
                     ELSE Handle(s, <<>>, <<>>)

\* Bound: all texts of the response together.
Spoken(s) ==
    LET details == IF s.details = None THEN <<>> ELSE s.details
        texts == [i \in DOMAIN details |-> IF details[i].text = None THEN <<>> ELSE details[i].text]
    IN  Len(s.text) + Len(s.flat) + Len(FlattenSeq(texts))

Chunk(s) == st.finish = None /\ Spoken(s) <= MaxText /\ NativeChatChunk(s, Available(s))

NativeChatText(t) == Chunk([st EXCEPT !.text = @ \o t])

NativeChatFlat(t) == Chunk([st EXCEPT !.flat = @ \o t])

\* Only the last detail can still grow.
NativeChatDetail(i, type, text) ==
    LET details == IF st.details = None THEN <<>> ELSE st.details
        old == IF i \in DOMAIN details THEN details[i] ELSE NoDetail
        new == [type |-> IF type = None THEN old.type ELSE type,
                text |-> IF text = None THEN old.text
                         ELSE (IF old.text = None THEN <<>> ELSE old.text) \o text]
    IN  /\ proto.dialect = "openrouter"
        /\ i \in {Len(details), Len(details) + 1} \ {0} /\ i <= MaxParts
        /\ old.type # None /\ type # None => old.type = type
        /\ Chunk([st EXCEPT !.details = IF i > Len(details) THEN Append(details, new)
                                        ELSE [details EXCEPT ![i] = new]])

NativeChatTool(i, call, kind, piece) ==
    LET old == IF i \in DOMAIN st.calls THEN st.calls[i] ELSE ChatCall(call, kind) IN
    /\ i <= Len(st.calls) + 1 /\ i <= MaxItems
    /\ <<call, kind>> = <<old.call, old.kind>>
    /\ Partial(old.raw \o piece)
    /\ Chunk([st EXCEPT !.calls = IF i > Len(@) THEN Append(@, [old EXCEPT !.raw = piece])
                                  ELSE [@ EXCEPT ![i].raw = old.raw \o piece]])

\* id, model and created may come before or after content.  A role that never comes fails at [DONE].
NativeChatIdentity == ~st.identity /\ Chunk([st EXCEPT !.identity = TRUE])

NativeChatFinish(reason) == Chunk([st EXCEPT !.finish = reason])

\* decode_managed: the reasoning item first, even an empty one; empty content makes no message.
NativeChatOutput ==
    <<Reasoning(Summaries(st))>> \o ChatOutput(IF st.text = <<>> THEN None ELSE st.text, st.calls)

NativeChatDecodable ==
    /\ st.details # None => DetailsValid(st.details)
    /\ ChatDecodable(IF st.text = <<>> THEN None ELSE st.text, st.calls, st.finish)
    /\ ChatStatus(st.finish) = "completed"

\* [DONE]: the whole response is validated before the buffered reasoning is shown.
NativeChatDone ==
    /\ st.finish # None /\ st.identity
    /\ NativeChatDecodable
    /\ NativeChatChunk([st EXCEPT !.done = TRUE], Summaries(st))

NativeChatNext ==
    \/ \E t \in Fragments : NativeChatText(t) \/ NativeChatFlat(t)
    \/ \E i \in 1..MaxParts, type \in {None, "text", "encrypted"}, text \in Fragments \cup {None} :
          NativeChatDetail(i, type, text)
    \/ \E i \in 1..MaxItems, call \in CallIds, kind \in ToolKinds, piece \in Pieces :
          NativeChatTool(i, call, kind, piece)
    \/ NativeChatIdentity
    \/ \E reason \in FinishReasons : NativeChatFinish(reason)
    \/ NativeChatDone
=============================================================================
