---------------------------- MODULE StreamRelay ----------------------------
(***************************************************************************)
(* One streaming request from the provider's events to the client's view:  *)
(* the loops of proxy.rs and proxy_managed.rs around any of the adapters,  *)
(* built in or plugged in.  A managed stream is decoded whole, saved as a  *)
(* checkpoint and only then finished; a stateless one ends with its        *)
(* adapter.                                                                *)
(***************************************************************************)
EXTENDS ChatStreams, MessagesStreams, ResponsesStream, InteractionsStream, PluginStreams

\* The adapter of the route, the Chat dialect and whether tool heads keep their place.
Protocols ==
    {[adapter |-> a, dialect |-> "none", order |-> FALSE] :
        a \in {"chat", "messages", "responses", "managed_messages", "interactions",
               "provider", "managed_provider"}}
    \cup {[adapter |-> "codec", dialect |-> "none", order |-> TRUE]}
    \cup {[adapter |-> "managed_chat", dialect |-> d, order |-> FALSE] : d \in {"deepseek", "openrouter"}}

Managed == proto.adapter \in {"managed_chat", "managed_messages", "interactions", "managed_provider"}

AdapterInit(p) ==
    CASE p.adapter = "chat" -> ChatInit
      [] p.adapter = "messages" -> MessagesInit
      [] p.adapter \in {"responses", "codec"} -> ResponsesInit
      [] p.adapter \in {"provider", "managed_provider"} -> PluginInit
      [] p.adapter = "managed_chat" -> NativeChatInit
      [] p.adapter = "managed_messages" -> NativeMessagesInit
      [] p.adapter = "interactions" -> InteractionsInit

RelayInit ==
    /\ proto \in {p \in Protocols : p.adapter \in Adapters}
    /\ request \in Requests
    /\ st = AdapterInit(proto)
    /\ val = NewValidator
    /\ out = <<>>
    /\ relay = "reading"
    /\ view = [created |-> FALSE, items |-> <<>>, end |-> "none", output |-> <<>>]

\* One provider event, accepted.
Convert ==
    \/ proto.adapter = "chat" /\ ChatNext
    \/ proto.adapter = "messages" /\ MessagesNext
    \/ proto.adapter \in {"responses", "codec"} /\ ResponsesNext
    \/ proto.adapter \in {"provider", "managed_provider"} /\ PluginNext
    \/ proto.adapter = "managed_chat" /\ NativeChatNext
    \/ proto.adapter = "managed_messages" /\ NativeMessagesNext
    \/ proto.adapter = "interactions" /\ InteractionsNext

\* The client polls; one event is sent.
Deliver ==
    /\ relay \in {"reading", "finalized"} /\ out # <<>>
    /\ view' = Received(view, Head(out))
    /\ out' = Tail(out)
    /\ UNCHANGED <<proto, request, st, val, relay>>

ManagedDecodable ==
    CASE proto.adapter = "managed_chat" -> NativeChatDecodable
      [] proto.adapter = "managed_messages" -> NativeMessagesDecodable
      [] proto.adapter = "interactions" -> InteractionsDecodable
      [] proto.adapter = "managed_provider" -> TRUE

ManagedOutput ==
    CASE proto.adapter = "managed_chat" -> NativeChatOutput
      [] proto.adapter = "managed_messages" -> NativeMessagesOutput
      [] proto.adapter = "interactions" -> InteractionsOutput
      [] proto.adapter = "managed_provider" -> st.output

\* public_output: only the first reasoning item can carry the envelope, so no other may be empty.
CarrierUnique(output) ==
    \A i, j \in DOMAIN output :
        i < j /\ output[i].kind = "reasoning" /\ output[j].kind = "reasoning" => output[j].content # <<>>

\* add_envelope: an empty reasoning item is added when there is none.
WithEnvelope(output) ==
    IF \E i \in DOMAIN output : output[i].kind = "reasoning" THEN output
    ELSE Append(output, Reasoning(<<>>))

\* finalized_events, managed_final_events.
FinalEvents(output) ==
    IF proto.adapter = "managed_provider" THEN ManagedTerminalEvents(output)
    ELSE [i \in DOMAIN output |-> Done(i, output[i])] \o <<End("completed", output)>>

\* finish, finalize_checked and finish_both have succeeded.
Finalize ==
    /\ Managed /\ relay = "reading" /\ out = <<>> /\ st.done
    /\ ManagedDecodable
    /\ CarrierUnique(ManagedOutput)
    /\ out' = FinalEvents(WithEnvelope(ManagedOutput))
    /\ relay' = "finalized"
    /\ UNCHANGED <<proto, request, st, val, view>>

Close ==
    /\ out = <<>>
    /\ relay = IF Managed THEN "finalized" ELSE "reading"
    /\ st.done
    /\ relay' = "closed"
    /\ UNCHANGED <<proto, request, st, val, out, view>>

\* An invalid event, a failed decode, an end of input, a timeout, a byte limit, accounting or
\* checkpoint failure, or the client's departure: the adapter is dropped, with what was not sent.
Cut ==
    /\ relay \in {"reading", "finalized"}
    /\ relay' = "cut" /\ out' = <<>>
    /\ st' = AdapterInit(proto) /\ val' = NewValidator
    /\ UNCHANGED <<proto, request, view>>

RelayNext == Convert \/ Deliver \/ Finalize \/ Close \/ Cut

RelaySpec == RelayInit /\ [][RelayNext]_svars

Client == INSTANCE ResponseStream WITH NoItem <- None

\* Whatever the provider interleaves, the client's stream is a ResponseStream: items grow only
\* before they are done, are done as they were streamed, and the final response lists exactly them.
ClientStream == Client!StreamSpec

DoneTools == {i \in DOMAIN view.items : view.items[i].item # None /\ view.items[i].item.kind \in ToolKinds}

\* The adapter has validated everything the provider will say of its tools.
ToolsDecided ==
    CASE proto.adapter = "chat" -> st.finish # None
      [] proto.adapter = "messages" -> TRUE
      [] proto.adapter \in {"responses", "codec"} -> val.phase = "completed"
      [] proto.adapter = "provider" -> st.status = "completed"
      [] OTHER -> relay # "reading" /\ st.done /\ ManagedDecodable

\* Except in stateless Messages, the client sees no text of a tool, nor the tool done, before the
\* provider's terminal event has been validated (docs/protocol.md, "Tool completion").
ToolsAreHeld ==
    relay # "cut" => \A i \in DOMAIN view.items :
        /\ i \in DoneTools => ToolsDecided
        /\ view.items[i].kind \in ToolKinds /\ FlattenSeq(view.items[i].parts) # <<>> => ToolsDecided

\* The calls a client may execute obey the request at every moment: at most one when parallel
\* calls are off, none when tools are off, at least one when required, each under its own call.
ToolsAsRequested ==
    /\ CountAllowed(Cardinality(DoneTools), view.end = "completed")
    /\ DoneTools # {} => Resolves
    /\ \A i, j \in DoneTools : view.items[i].item.call = view.items[j].item.call => i = j
    /\ \A i \in DoneTools : view.items[i].item.kind = "function" => view.items[i].item.content = <<Document>>
=============================================================================
