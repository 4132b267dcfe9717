---------------------------- MODULE StreamProofs ----------------------------
(***************************************************************************)
(* Proofs about the client's stream, for any adapters and requests, any    *)
(* texts and calls and any limits.                                         *)
(*                                                                         *)
(* The argument: until an adapter has validated the provider's terminal    *)
(* event, every event it yields is Quiet, that is, neither the head of a   *)
(* tool nor a finished one, so the client has not even seen that there is  *)
(* a tool.  A decision is never taken back.  A codec's tool heads exist    *)
(* before that, but behind the gate, and only for items that are in the    *)
(* response: one that ends without tools has none to let go (HeadsAreHeld).*)
(*                                                                         *)
(* What the client is given then, and for stateless Messages from the      *)
(* start, follows a Plan: the tools of items O the request allows, each    *)
(* finished for good, one of them before a response that must have a tool  *)
(* is completed.  Delivering an event keeps the plan; an adapter makes one *)
(* with the events that decide, from what it has kept until then           *)
(* (AdapterReady); a cut takes nothing from the client.                    *)
(***************************************************************************)
EXTENDS StreamRelay, WellFoundedInduction, FiniteSetTheorems, TLAPS

-----------------------------------------------------------------------------
(* Sequences.                                                              *)

\* Every set of natural numbers has a least one: induction over places.
LEMMA LeastPlace ==
  ASSUME NEW T \in SUBSET Nat, T # {}
  PROVE  \E x \in T : \A y \in T : x <= y
<1> DEFINE R == OpToRel(<, Nat)
<1>1. IsWellFoundedOn(R, Nat)
  BY NatLessThanWellFounded, Zenon
<1>2. \A y, x \in Nat : y < x => <<y, x>> \in R
  BY DEF OpToRel
<1> HIDE DEF R
<1>3. PICK x \in T : \A y \in T : ~(<<y, x>> \in R)
  BY <1>1, WFMin
<1>4. ASSUME NEW y \in T PROVE x <= y
  <2>1. ~(y < x)
    BY <1>2, <1>3
  <2> QED
    BY <2>1
<1> QED
  BY <1>4

\* The equation of FlattenSeq, for the first n sequences.
Flattens(seqs, n, f) ==
    f = [i \in 1..n |-> IF i = 1 THEN seqs[i] ELSE f[i - 1] \o seqs[i]]

LEMMA FlatteningExists ==
  ASSUME NEW seqs, NEW n \in Nat
  PROVE  \E f : Flattens(seqs, n, f)
<1> DEFINE Bad == {k \in Nat : ~\E f : Flattens(seqs, k, f)}
<1> SUFFICES ASSUME Bad # {} PROVE FALSE
  OBVIOUS
<1>1. PICK k \in Bad : \A j \in Bad : k <= j
  BY LeastPlace
<1>2. k # 0
  <2>1. Flattens(seqs, 0, [i \in 1..0 |-> seqs[i]])
    BY DEF Flattens
  <2> QED
    BY <2>1
<1>3. k - 1 \in Nat /\ k - 1 \notin Bad
  BY <1>1, <1>2
<1>4. PICK g : Flattens(seqs, k - 1, g)
  BY <1>3
<1> DEFINE last == IF k = 1 THEN seqs[k] ELSE g[k - 1] \o seqs[k]
           h == [i \in 1..k |-> IF i = k THEN last ELSE g[i]]
           next(f, i) == IF i = 1 THEN seqs[i] ELSE f[i - 1] \o seqs[i]
<1>5. ASSUME NEW i \in 1..k PROVE h[i] = next(h, i)
  <2>1. CASE i = k
    <3>1. h[i] = last /\ (i # 1 => h[i - 1] = g[k - 1])
      BY <1>3, <2>1
    <3> QED
      BY <2>1, <3>1
  <2>2. CASE i # k
    <3>1. i \in 1..(k - 1) /\ h[i] = g[i] /\ (i # 1 => h[i - 1] = g[i - 1])
      BY <1>3, <2>2
    <3>2. g[i] = next(g, i)
      BY <1>4, <3>1 DEF Flattens
    <3> QED
      BY <3>1, <3>2
  <2> QED
    BY <2>1, <2>2
<1>6. h = [i \in 1..k |-> next(h, i)]
  BY <1>5
<1>7. Flattens(seqs, k, h)
  BY <1>6 DEF Flattens
<1> QED
  BY <1>7

\* Flattening sequences over S gives a sequence over S.
LEMMA FlattenSeqType ==
  ASSUME NEW S, NEW n \in Nat, NEW seqs, seqs = [i \in 1..n |-> seqs[i]],
         \A i \in 1..n : seqs[i] \in Seq(S)
  PROVE  FlattenSeq(seqs) \in Seq(S)
<1>1. seqs \in Seq(Seq(S)) /\ Len(seqs) = n
  BY SMT
<1>2. CASE n = 0
  <2>1. seqs = <<>>
    BY <1>1, <1>2
  <2> QED
    BY <1>1, <1>2, <2>1 DEF FlattenSeq
<1>3. CASE n # 0
  <2> DEFINE f == CHOOSE f : Flattens(seqs, n, f)
  <2>1. Flattens(seqs, n, f)
    BY FlatteningExists
  <2>2. FlattenSeq(seqs) = f[n]
    BY <1>1, <1>3 DEF FlattenSeq, Flattens
  <2> HIDE DEF f
  <2> DEFINE Bad == {k \in 1..n : f[k] \notin Seq(S)}
  <2>3. Bad = {}
    <3> SUFFICES ASSUME Bad # {} PROVE FALSE
      OBVIOUS
    <3>0. Bad \in SUBSET Nat
      OBVIOUS
    <3> HIDE DEF Bad
    <3>1. PICK k \in Bad : \A j \in Bad : k <= j
      BY <3>0, LeastPlace
    <3> USE DEF Bad
    <3>2. f[k] = IF k = 1 THEN seqs[k] ELSE f[k - 1] \o seqs[k]
      BY <2>1 DEF Flattens
    <3>3. k # 1 => f[k - 1] \in Seq(S)
      BY <3>1
    <3>4. seqs[k] \in Seq(S)
      OBVIOUS
    <3>5. f[k] \in Seq(S)
      BY <3>2, <3>3, <3>4
    <3> QED
      BY <3>1, <3>5
  <2> QED
    BY <1>3, <2>2, <2>3
<1> QED
  BY <1>2, <1>3

\* A sequence, of whatever it holds.
IsSeq(s) == s \in Seq(Range(s))

LEMMA SeqIsSeq ==
  ASSUME NEW S, NEW s \in Seq(S)
  PROVE  IsSeq(s) /\ Range(s) \subseteq S /\ DOMAIN s = 1..Len(s) /\ Len(s) \in Nat
  BY DEF IsSeq, Range

\* Picking places keeps a sequence, and adds nothing to it.
LEMMA KeptType ==
  ASSUME NEW S, NEW s \in Seq(S), NEW places
  PROVE  Kept(s, places) \in Seq(S)
<1> DEFINE seqs == [k \in DOMAIN s |-> IF k \in places THEN <<s[k]>> ELSE <<>>]
<1>1. DOMAIN s = 1..Len(s) /\ Len(s) \in Nat
  OBVIOUS
<1>2. \A i \in 1..Len(s) : seqs[i] \in Seq(S)
  OBVIOUS
<1>3. seqs = [i \in 1..Len(s) |-> seqs[i]]
  BY <1>1
<1> HIDE DEF seqs
<1>4. FlattenSeq(seqs) \in Seq(S)
  BY <1>1, <1>2, <1>3, FlattenSeqType
<1> QED
  BY <1>4 DEF Kept, seqs

-----------------------------------------------------------------------------
(* Events that say nothing of a tool.                                      *)

Quiet(e) ==
    /\ e.ev \in {"created", "added", "part", "delta", "done", "end"}
    /\ e.ev = "added" => e.kind \notin ToolKinds
    /\ e.ev = "done" => e.item.kind \notin ToolKinds
    /\ e.ev = "end" => e.status # "completed"

AllQuiet(s) == IsSeq(s) /\ \A e \in Range(s) : Quiet(e)

\* The client has not seen a tool.
ViewQuiet(w) ==
    /\ DOMAIN w = {"created", "items", "end", "output"}
    /\ w.end # "completed"
    /\ \A i \in DOMAIN w.items :
          /\ DOMAIN w.items[i] = {"kind", "call", "whole", "parts", "item"}
          /\ w.items[i].kind \notin ToolKinds
          /\ w.items[i].item # None => w.items[i].item.kind \notin ToolKinds

\* How quiet sequences are put together.
LEMMA QuietSet ==
  ASSUME NEW S, NEW s \in Seq(S), \A e \in S : Quiet(e)
  PROVE  AllQuiet(s)
  BY SeqIsSeq DEF AllQuiet

LEMMA QuietNone == AllQuiet(<<>>)
<1> DEFINE S == {}
           s == <<>>
<1>1. s \in Seq(S) /\ \A x \in S : Quiet(x)
  OBVIOUS
<1> HIDE DEF S, s
<1>2. AllQuiet(s)
  BY <1>1, QuietSet
<1> QED
  BY <1>2 DEF s

LEMMA QuietOne ==
  ASSUME NEW e, Quiet(e)
  PROVE  AllQuiet(<<e>>)
<1> DEFINE S == {e}
           s == <<e>>
<1>1. s \in Seq(S) /\ \A x \in S : Quiet(x)
  OBVIOUS
<1> HIDE DEF S, s
<1>2. AllQuiet(s)
  BY <1>1, QuietSet
<1> QED
  BY <1>2 DEF s

LEMMA QuietTwo ==
  ASSUME NEW a, NEW b, Quiet(a), Quiet(b)
  PROVE  AllQuiet(<<a, b>>)
<1> DEFINE S == {a, b}
           s == <<a, b>>
<1>1. s \in Seq(S) /\ \A x \in S : Quiet(x)
  OBVIOUS
<1> HIDE DEF S, s
<1>2. AllQuiet(s)
  BY <1>1, QuietSet
<1> QED
  BY <1>2 DEF s

LEMMA QuietConcat ==
  ASSUME NEW s, NEW t, AllQuiet(s), AllQuiet(t)
  PROVE  AllQuiet(s \o t)
<1> DEFINE S == Range(s) \cup Range(t)
<1>1. s \in Seq(S) /\ t \in Seq(S)
  BY DEF AllQuiet, IsSeq
<1>2. \A e \in S : Quiet(e)
  BY DEF AllQuiet
<1> HIDE DEF S
<1>3. s \o t \in Seq(S)
  BY <1>1
<1> QED
  BY <1>2, <1>3, QuietSet

LEMMA QuietSplit ==
  ASSUME NEW s, AllQuiet(s), s # <<>>
  PROVE  Quiet(Head(s)) /\ AllQuiet(Tail(s))
<1> DEFINE S == Range(s)
<1>1. s \in Seq(S) /\ \A e \in S : Quiet(e)
  BY DEF AllQuiet, IsSeq
<1> HIDE DEF S
<1>2. Head(s) \in S /\ Tail(s) \in Seq(S)
  BY <1>1
<1> QED
  BY <1>1, <1>2, QuietSet

LEMMA QuietFlatten ==
  ASSUME NEW n \in Nat, NEW seqs, seqs = [i \in 1..n |-> seqs[i]],
         \A i \in 1..n : AllQuiet(seqs[i])
  PROVE  AllQuiet(FlattenSeq(seqs))
<1> DEFINE S == UNION {Range(seqs[i]) : i \in 1..n}
<1>1. \A e \in S : Quiet(e)
  BY DEF AllQuiet
<1>2. \A i \in 1..n : seqs[i] \in Seq(S)
  <2> SUFFICES ASSUME NEW i \in 1..n PROVE seqs[i] \in Seq(S)
    OBVIOUS
  <2>1. seqs[i] \in Seq(Range(seqs[i])) /\ Range(seqs[i]) \subseteq S
    BY DEF AllQuiet, IsSeq
  <2> HIDE DEF S
  <2> QED
    BY <2>1
<1> HIDE DEF S
<1>3. FlattenSeq(seqs) \in Seq(S)
  BY <1>2, FlattenSeqType
<1> QED
  BY <1>1, <1>3, QuietSet

LEMMA QuietText ==
  ASSUME NEW i, NEW p, NEW text
  PROVE  AllQuiet(TextEvents(i, p, text))
<1>1. Quiet(Delta(i, p, text))
  BY DEF Quiet, Delta
<1> QED
  BY <1>1, QuietNone, QuietOne DEF TextEvents

\* The other events, one by one.
LEMMA QuietEvents ==
  /\ Quiet(Created)
  /\ \A i, kind, call, whole : kind \notin ToolKinds => Quiet(Added(i, kind, call, whole))
  /\ \A i : Quiet(PartAdded(i))
  /\ \A i, p, text : Quiet(Delta(i, p, text))
  /\ \A i, item : item.kind \notin ToolKinds => Quiet(Done(i, item))
  /\ \A status, output : status # "completed" => Quiet(End(status, output))
  BY DEF Quiet, Created, Added, PartAdded, Delta, Done, End

\* The client receives a quiet event.
LEMMA ReceivedQuiet ==
  ASSUME NEW w, NEW e, ViewQuiet(w), Quiet(e)
  PROVE  ViewQuiet(Received(w, e))
<1>1. CASE e.ev = "created"
  BY <1>1 DEF Received, ViewQuiet
<1>2. CASE e.ev = "added"
  BY <1>2 DEF Received, ViewQuiet, Quiet, Put
<1>3. CASE e.ev = "part"
  BY <1>3 DEF Received, ViewQuiet
<1>4. CASE e.ev = "delta"
  <2> DEFINE r == [w.items[e.i] EXCEPT !.parts[e.p] = @ \o e.text]
             v == [w EXCEPT !.items[e.i] = r]
  <2>1. Received(w, e) = v
    BY <1>4 DEF Received
  <2>2. DOMAIN r = DOMAIN w.items[e.i] /\ (e.i \in DOMAIN w.items =>
           r.kind = w.items[e.i].kind /\ r.item = w.items[e.i].item)
    BY DEF ViewQuiet
  <2> HIDE DEF r
  <2>3. ViewQuiet(v)
    BY <2>2 DEF ViewQuiet
  <2> QED
    BY <2>1, <2>3
<1>5. CASE e.ev = "done"
  BY <1>5, SMTT(20) DEF Received, ViewQuiet, Quiet, Put
<1>6. CASE e.ev = "end"
  BY <1>6 DEF Received, ViewQuiet, Quiet
<1> QED
  BY <1>1, <1>2, <1>3, <1>4, <1>5, <1>6 DEF Quiet

-----------------------------------------------------------------------------
(* The inductive invariant.                                                *)

\* A tool's head behind the gate belongs to an item of the response.
HeadOfItem(s, e) ==
    e.ev = "added" /\ e.i \in DOMAIN s.items /\ s.items[e.i].wire \in WireTools

ResponsesShape(s) ==
    /\ DOMAIN s = DOMAIN ResponsesInit
    /\ DOMAIN s.items \subseteq 1..MaxItems
    /\ \A i \in DOMAIN s.items : "wire" \in DOMAIN s.items[i] /\ s.items[i].wire \in WireKinds
    /\ IsSeq(s.held) /\ \A e \in Range(s.held) : Quiet(e) \/ HeadOfItem(s, e)

HeadsAreHeld ==
    /\ ResponsesShape(st)
    /\ ~st.done => DOMAIN val = DOMAIN NewValidator /\ val.phase # "completed"

\* What a plugin has published.
PublishedItems ==
    /\ st.items \in Seq([kind : {"message", "reasoning"}, parts : Seq(Seq(Tokens))])
    /\ st.status = "completed" => st.done

\* What the adapters keep while the stream is not cut.
AdapterShape ==
    /\ proto.adapter # "messages" => DOMAIN st = DOMAIN AdapterInit(proto)
    /\ proto.adapter \in {"responses", "codec"} => HeadsAreHeld
    /\ proto.adapter \in {"provider", "managed_provider"} => PublishedItems
    /\ proto.adapter = "managed_chat" /\ st.details # None => IsSeq(st.details)
    /\ Managed /\ relay # "reading" => ToolsDecided

NothingOfTools == ViewQuiet(view) /\ AllQuiet(out)

HeldInv ==
    /\ proto \in Protocols
    /\ relay \in {"reading", "finalized", "closed", "cut"}
    /\ relay # "cut" => AdapterShape /\ (ToolsDecided \/ NothingOfTools)

-----------------------------------------------------------------------------
(* Chat Completions.                                                       *)

\* Before the finish reason nothing but text is yielded; afterwards it stays known.
LEMMA ChatQuiet ==
  ASSUME DOMAIN st = DOMAIN ChatInit, ChatNext
  PROVE  /\ UNCHANGED <<proto, relay, view>> /\ DOMAIN st' = DOMAIN st
         /\ st.finish # None => st'.finish # None
         /\ st'.finish # None \/ AllQuiet(out')
<1>0. DOMAIN st = {"started", "text", "calls", "finish", "final", "done"}
  BY DEF ChatInit
<1>1. AllQuiet(FirstOut)
  BY QuietNone, QuietOne, QuietEvents DEF FirstOut
<1>2. ASSUME NEW t \in Fragments, ChatText(t)
      PROVE  /\ UNCHANGED <<proto, relay, view>> /\ DOMAIN st' = DOMAIN st
             /\ st.finish = None /\ AllQuiet(out')
  <2> DEFINE opens == st.text = None
             head == <<Added(1, "message", None, TRUE), PartAdded(1)>>
             new == IF opens THEN head ELSE <<>>
             text == (IF opens THEN <<>> ELSE st.text) \o t
  <2>1. /\ st.finish = None /\ UNCHANGED <<proto, relay, view>>
        /\ st' = [st EXCEPT !.started = TRUE, !.text = text]
        /\ out' = FirstOut \o new \o TextEvents(1, 1, t)
    BY <1>2 DEF ChatText, Handle
  <2>2. AllQuiet(head)
    <3>1. Quiet(Added(1, "message", None, TRUE)) /\ Quiet(PartAdded(1))
      BY QuietEvents DEF ToolKinds
    <3> QED
      BY <3>1, QuietTwo
  <2> HIDE DEF head, text
  <2>3. AllQuiet(new)
    BY <2>2, QuietNone
  <2> HIDE DEF new
  <2>4. AllQuiet(FirstOut \o new \o TextEvents(1, 1, t))
    BY <1>1, <2>3, QuietText, QuietConcat
  <2>5. DOMAIN st' = DOMAIN st
    BY <1>0, <2>1
  <2> QED
    BY <2>1, <2>4, <2>5
<1>3. ASSUME NEW i, NEW call, NEW kind, NEW piece, ChatTool(i, call, kind, piece)
      PROVE  /\ UNCHANGED <<proto, relay, view>> /\ DOMAIN st' = DOMAIN st
             /\ st.finish = None /\ AllQuiet(out')
  <2> DEFINE known == i \in DOMAIN st.calls
             old == IF known THEN st.calls[i] ELSE ChatCall(call, kind)
             calls == Put(st.calls, i, [old EXCEPT !.raw = @ \o piece])
  <2>1. /\ st.finish = None /\ UNCHANGED <<proto, relay, view>>
        /\ st' = [st EXCEPT !.started = TRUE, !.calls = calls]
        /\ out' = FirstOut
    BY <1>3 DEF ChatTool, Handle
  <2> HIDE DEF calls
  <2>2. DOMAIN st' = DOMAIN st
    BY <2>1
  <2> QED
    BY <1>1, <2>1, <2>2
<1>4. ASSUME NEW reason \in FinishReasons, ChatFinish(reason)
      PROVE  /\ UNCHANGED <<proto, relay, view>> /\ DOMAIN st' = DOMAIN st
             /\ st'.finish # None
  <2> DEFINE output == ChatOutput(st.text, st.calls)
  <2>1. /\ UNCHANGED <<proto, relay, view>>
        /\ st' = [st EXCEPT !.started = TRUE, !.finish = reason, !.final = output]
    BY <1>4 DEF ChatFinish, Handle
  <2> HIDE DEF output
  <2>2. reason # None
    BY ReasonsAssumption
  <2>3. DOMAIN st' = DOMAIN st /\ st'.finish = reason
    BY <1>0, <2>1
  <2> QED
    BY <2>1, <2>2, <2>3
<1>5. ASSUME NEW count, ChatUsage(count)
      PROVE  /\ UNCHANGED <<proto, relay, view>> /\ DOMAIN st' = DOMAIN st
             /\ st'.finish = st.finish /\ AllQuiet(out')
  <2>1. /\ UNCHANGED <<proto, relay, view>> /\ out' = FirstOut
        /\ st' = [st EXCEPT !.started = TRUE]
    BY <1>5 DEF ChatUsage, Handle
  <2> QED
    BY <1>0, <1>1, <2>1
<1>6. ASSUME ChatDone
      PROVE  /\ UNCHANGED <<proto, relay, view>> /\ DOMAIN st' = DOMAIN st
             /\ st'.finish # None
  <2>1. /\ UNCHANGED <<proto, relay, view>> /\ st.finish # None
        /\ st' = [st EXCEPT !.done = TRUE]
    BY <1>6 DEF ChatDone, Handle
  <2> QED
    BY <1>0, <2>1
<1> QED
  BY <1>2, <1>3, <1>4, <1>5, <1>6 DEF ChatNext

\* The state of a managed Chat stream: the details that have come are a list.
NativeChatShape(s) == DOMAIN s = DOMAIN NativeChatInit /\ (s.details # None => IsSeq(s.details))

\* The texts of details are a list.
LEMMA DetailTextsSeq ==
  ASSUME NEW details, IsSeq(details)
  PROVE  IsSeq(DetailTexts(details))
<1> DEFINE places == {i \in DOMAIN details : Shows(details[i])}
           shown == Kept(details, places)
           texts == [i \in DOMAIN shown |-> shown[i].text]
           T == {shown[i].text : i \in DOMAIN shown}
<1>1. shown \in Seq(Range(details))
  BY KeptType DEF IsSeq
<1>2. DetailTexts(details) = texts
  BY DEF DetailTexts
<1> HIDE DEF shown
<1>3. texts \in Seq(T)
  BY <1>1
<1> HIDE DEF texts, T
<1> QED
  BY <1>2, <1>3, SeqIsSeq

\* What can be shown is a list, before the end and at it.
LEMMA SummariesSeq ==
  ASSUME NEW s, NativeChatShape(s)
  PROVE  IsSeq(Summaries(s)) /\ IsSeq(Available(s))
<1>0. IsSeq(<<>>) /\ \A x : IsSeq(<<x>>)
  BY DEF IsSeq, Range
<1>1. IsSeq(Summaries(s))
  <2>1. CASE s.details # None
    BY <2>1, DetailTextsSeq DEF Summaries, NativeChatShape
  <2>2. CASE s.details = None
    BY <1>0, <2>2 DEF Summaries
  <2> QED
    BY <2>1, <2>2
<1>2. CASE proto.dialect # "deepseek" /\ s.details # None
  <2> DEFINE d == s.details
             ready == {n \in 0..Len(d) : DetailsValid(SubSeq(d, 1, n))}
             last == CHOOSE n \in ready : \A m \in ready : m <= n
  <2>1. IsSeq(d) /\ d \in Seq(Range(d)) /\ Len(d) \in Nat
    BY <1>2 DEF NativeChatShape, IsSeq
  <2>2. Available(s) = DetailTexts(SubSeq(d, 1, last))
    BY <1>2 DEF Available
  <2> HIDE DEF d
  <2>3. 0 \in ready
    BY <2>1 DEF DetailsValid
  <2>4. \E n \in ready : \A m \in ready : m <= n
    <3> DEFINE T == {Len(d) - n : n \in ready}
    <3>1. T \in SUBSET Nat /\ T # {}
      BY <2>1, <2>3
    <3>2. PICK x \in T : \A y \in T : x <= y
      BY <3>1, LeastPlace
    <3>3. PICK n \in ready : x = Len(d) - n
      BY <3>2
    <3>4. \A m \in ready : Len(d) - n <= Len(d) - m
      BY <3>2, <3>3
    <3> QED
      BY <2>1, <3>3, <3>4
  <2>5. last \in 0..Len(d)
    <3>1. last \in ready
      BY <2>4
    <3> QED
      BY <3>1
  <2> HIDE DEF ready, last
  <2>6. SubSeq(d, 1, last) \in Seq(Range(d))
    BY <2>1, <2>5
  <2>7. IsSeq(SubSeq(d, 1, last))
    BY <2>6, SeqIsSeq
  <2> QED
    BY <1>1, <2>2, <2>7, DetailTextsSeq
<1>3. CASE ~(proto.dialect # "deepseek" /\ s.details # None)
  BY <1>0, <1>1, <1>3 DEF Available
<1> QED
  BY <1>1, <1>2, <1>3

\* publish_progress shows reasoning and text, never a call.
LEMMA ProgressQuiet ==
  ASSUME NEW s, NEW summaries, IsSeq(summaries)
  PROVE  AllQuiet(Progress(s, summaries))
<1> DEFINE fresh == s.shownText = None /\ s.text # <<>>
           part(i) == IF i \in DOMAIN s.shown THEN TextEvents(1, i, Rest(s.shown[i], summaries[i]))
                      ELSE <<PartAdded(1)>> \o TextEvents(1, i, summaries[i])
           start == IF s.started THEN <<>> ELSE <<Created, Added(1, "reasoning", None, TRUE)>>
           parts == [i \in DOMAIN summaries |-> part(i)]
           head == IF fresh THEN <<Added(2, "message", None, TRUE), PartAdded(2)>> ELSE <<>>
           text == TextEvents(2, 1, Rest(IF s.shownText = None THEN <<>> ELSE s.shownText, s.text))
<1>1. /\ Quiet(Created) /\ Quiet(Added(1, "reasoning", None, TRUE)) /\ Quiet(PartAdded(1))
      /\ Quiet(Added(2, "message", None, TRUE)) /\ Quiet(PartAdded(2))
  BY QuietEvents DEF ToolKinds
<1>2. AllQuiet(start)
  BY <1>1, QuietNone, QuietTwo
<1>3. AllQuiet(head)
  BY <1>1, QuietNone, QuietTwo
<1>4. AllQuiet(text)
  BY QuietText
<1>5. \A i : AllQuiet(part(i))
  BY <1>1, QuietOne, QuietText, QuietConcat
<1> HIDE DEF part
<1>6. AllQuiet(FlattenSeq(parts))
  <2>1. DOMAIN summaries = 1..Len(summaries) /\ Len(summaries) \in Nat
    BY DEF IsSeq
  <2>2. parts = [i \in 1..Len(summaries) |-> parts[i]]
    BY <2>1
  <2>3. \A i \in 1..Len(summaries) : AllQuiet(parts[i])
    BY <1>5, <2>1
  <2> HIDE DEF parts
  <2> QED
    BY <2>1, <2>2, <2>3, QuietFlatten
<1>7. Progress(s, summaries) = start \o FlattenSeq(parts) \o head \o text
  BY DEF Progress, part
<1> HIDE DEF start, parts, head, text
<1> QED
  BY <1>2, <1>3, <1>4, <1>6, <1>7, QuietConcat

\* A chunk keeps the shape of the state.
LEMMA NativeChunkQuiet ==
  ASSUME NEW s, NEW summaries, NativeChatShape(s), IsSeq(summaries), NativeChatChunk(s, summaries)
  PROVE  UNCHANGED <<proto, relay, view>> /\ NativeChatShape(st') /\ AllQuiet(out')
<1>1. CASE s.identity
  <2>1. /\ UNCHANGED <<proto, relay, view>> /\ st' = Published(s, summaries)
        /\ out' = Progress(s, summaries)
    BY <1>1 DEF NativeChatChunk, Handle
  <2> DEFINE shown == summaries \o Rest(summaries, s.shown)
             text == IF s.shownText = None /\ s.text = <<>> THEN None ELSE s.text
  <2>2. Published(s, summaries) = [s EXCEPT !.started = TRUE, !.shown = shown, !.shownText = text]
    BY DEF Published
  <2> HIDE DEF shown, text
  <2>3. NativeChatShape(Published(s, summaries))
    BY <2>2 DEF NativeChatShape, NativeChatInit
  <2> QED
    BY <2>1, <2>3, ProgressQuiet
<1>2. CASE ~s.identity
  BY <1>2, QuietNone DEF NativeChatChunk, Handle
<1> QED
  BY <1>1, <1>2

\* A managed Chat stream yields no event of a tool.
LEMMA NativeChatQuiet ==
  ASSUME NativeChatShape(st), NativeChatNext
  PROVE  UNCHANGED <<proto, relay, view>> /\ NativeChatShape(st') /\ AllQuiet(out')
<1> DEFINE Goal == UNCHANGED <<proto, relay, view>> /\ NativeChatShape(st') /\ AllQuiet(out')
<1>0. ASSUME NEW s, NativeChatShape(s), Chunk(s) PROVE Goal
  <2>1. NativeChatChunk(s, Available(s))
    BY <1>0 DEF Chunk
  <2>2. IsSeq(Available(s))
    BY <1>0, SummariesSeq
  <2> QED
    BY <1>0, <2>1, <2>2, NativeChunkQuiet
<1> HIDE DEF Goal
<1>1. ASSUME NEW t \in Fragments, NativeChatText(t) PROVE Goal
  <2> DEFINE s == [st EXCEPT !.text = @ \o t]
  <2>1. NativeChatShape(s)
    BY DEF NativeChatShape, NativeChatInit
  <2>2. Chunk(s)
    BY <1>1 DEF NativeChatText
  <2> HIDE DEF s
  <2> QED
    BY <1>0, <2>1, <2>2
<1>2. ASSUME NEW t \in Fragments, NativeChatFlat(t) PROVE Goal
  <2> DEFINE s == [st EXCEPT !.flat = @ \o t]
  <2>1. NativeChatShape(s)
    BY DEF NativeChatShape, NativeChatInit
  <2>2. Chunk(s)
    BY <1>2 DEF NativeChatFlat
  <2> HIDE DEF s
  <2> QED
    BY <1>0, <2>1, <2>2
<1>3. ASSUME NEW i \in 1..MaxParts, NEW type, NEW text, NativeChatDetail(i, type, text) PROVE Goal
  <2> DEFINE d == IF st.details = None THEN <<>> ELSE st.details
             old == IF i \in DOMAIN d THEN d[i] ELSE NoDetail
             new == [type |-> IF type = None THEN old.type ELSE type,
                     text |-> IF text = None THEN old.text
                              ELSE (IF old.text = None THEN <<>> ELSE old.text) \o text]
             e == IF i > Len(d) THEN Append(d, new) ELSE [d EXCEPT ![i] = new]
             s == [st EXCEPT !.details = e]
  <2>1. i \in {Len(d), Len(d) + 1} \ {0} /\ Chunk(s)
    BY <1>3 DEF NativeChatDetail
  <2>2. d \in Seq(Range(d))
    BY DEF NativeChatShape, IsSeq, Range
  <2> HIDE DEF new, d
  <2>3. e \in Seq(Range(d) \cup {new})
    BY <2>1, <2>2
  <2>4. IsSeq(e)
    BY <2>3, SeqIsSeq
  <2> HIDE DEF e
  <2>5. NativeChatShape(s)
    BY <2>4 DEF NativeChatShape, NativeChatInit
  <2> HIDE DEF s
  <2> QED
    BY <1>0, <2>1, <2>5
<1>4. ASSUME NEW i \in 1..MaxItems, NEW call, NEW kind, NEW piece, NativeChatTool(i, call, kind, piece)
      PROVE  Goal
  <2> DEFINE old == IF i \in DOMAIN st.calls THEN st.calls[i] ELSE ChatCall(call, kind)
             c == IF i > Len(st.calls) THEN Append(st.calls, [old EXCEPT !.raw = piece])
                  ELSE [st.calls EXCEPT ![i].raw = old.raw \o piece]
             s == [st EXCEPT !.calls = c]
  <2>1. Chunk(s)
    BY <1>4 DEF NativeChatTool
  <2> HIDE DEF c
  <2>2. NativeChatShape(s)
    BY DEF NativeChatShape, NativeChatInit
  <2> HIDE DEF s
  <2> QED
    BY <1>0, <2>1, <2>2
<1>5. ASSUME NativeChatIdentity PROVE Goal
  <2> DEFINE s == [st EXCEPT !.identity = TRUE]
  <2>1. NativeChatShape(s)
    BY DEF NativeChatShape, NativeChatInit
  <2>2. Chunk(s)
    BY <1>5 DEF NativeChatIdentity
  <2> HIDE DEF s
  <2> QED
    BY <1>0, <2>1, <2>2
<1>6. ASSUME NEW reason \in FinishReasons, NativeChatFinish(reason) PROVE Goal
  <2> DEFINE s == [st EXCEPT !.finish = reason]
  <2>1. NativeChatShape(s)
    BY DEF NativeChatShape, NativeChatInit
  <2>2. Chunk(s)
    BY <1>6 DEF NativeChatFinish
  <2> HIDE DEF s
  <2> QED
    BY <1>0, <2>1, <2>2
<1>7. ASSUME NativeChatDone PROVE Goal
  <2> DEFINE s == [st EXCEPT !.done = TRUE]
  <2>1. NativeChatShape(s)
    BY DEF NativeChatShape, NativeChatInit
  <2>2. NativeChatChunk(s, Summaries(st))
    BY <1>7 DEF NativeChatDone
  <2>3. IsSeq(Summaries(st))
    BY SummariesSeq
  <2> HIDE DEF s
  <2> QED
    BY <2>1, <2>2, <2>3, NativeChunkQuiet DEF Goal
<1> QED
  BY <1>1, <1>2, <1>3, <1>4, <1>5, <1>6, <1>7 DEF NativeChatNext, Goal

-----------------------------------------------------------------------------
(* Managed Messages and Interactions.                                      *)

\* Every event of a managed Messages stream keeps the fields and yields text or nothing.
LEMMA NativeMessagesQuiet ==
  ASSUME DOMAIN st = DOMAIN NativeMessagesInit, NativeMessagesNext
  PROVE  UNCHANGED <<proto, relay, view>> /\ DOMAIN st' = DOMAIN st /\ AllQuiet(out')
<1> DEFINE Goal == UNCHANGED <<proto, relay, view>> /\ DOMAIN st' = DOMAIN st /\ AllQuiet(out')
<1>0. ASSUME NEW i, NEW kind, NEW t, NEW new, kind \in {"message", "reasoning"}
      PROVE  AllQuiet(Announced(i, kind, t, new))
  <2>1. Quiet(Added(i, kind, None, TRUE)) /\ Quiet(PartAdded(i))
    BY <1>0, QuietEvents DEF ToolKinds
  <2> DEFINE head == IF new THEN <<Added(i, kind, None, TRUE), PartAdded(i)>> ELSE <<>>
  <2>2. AllQuiet(head)
    BY <2>1, QuietNone, QuietTwo
  <2>3. Announced(i, kind, t, new) = head \o TextEvents(i, 1, t)
    BY DEF Announced
  <2> HIDE DEF head
  <2> QED
    BY <2>2, <2>3, QuietText, QuietConcat
<1>1. ASSUME NativeMessageStart PROVE Goal
  BY <1>1, QuietOne, QuietEvents DEF NativeMessageStart, Handle
<1>2. ASSUME NEW kind, NEW call, NEW t, NativeBlock(kind, call, t) PROVE Goal
  <2> DEFINE shows == kind = "message" \/ (kind = "reasoning" /\ t # <<>>)
             counts == shows \/ kind \in ToolKinds
             b == Append(st.blocks, [kind |-> kind, call |-> call, text |-> t, signed |-> FALSE])
             a == IF shows THEN st.count + 1 ELSE None
             c == IF counts THEN st.count + 1 ELSE st.count
  <2>1. /\ UNCHANGED <<proto, relay, view>>
        /\ st' = [st EXCEPT !.blocks = b, !.open = TRUE, !.active = a, !.count = c]
        /\ out' = IF shows THEN Announced(st.count + 1, kind, t, TRUE) ELSE <<>>
    BY <1>2 DEF NativeBlock, Handle
  <2> HIDE DEF a, b, c
  <2>2. DOMAIN st' = DOMAIN st
    BY <2>1
  <2>3. AllQuiet(out')
    <3>1. CASE shows
      <4>1. kind \in {"message", "reasoning"}
        BY <3>1
      <4> DEFINE new == TRUE
                 i == st.count + 1
      <4>2. out' = Announced(i, kind, t, new)
        BY <2>1, <3>1
      <4> HIDE DEF new, i
      <4>3. AllQuiet(Announced(i, kind, t, new))
        BY <1>0, <4>1
      <4> QED
        BY <4>2, <4>3
    <3>2. CASE ~shows
      BY <2>1, <3>2, QuietNone
    <3> QED
      BY <3>1, <3>2
  <2> QED
    BY <2>1, <2>2, <2>3
<1>3. ASSUME NEW t, NativeDelta(t) PROVE Goal
  <2> DEFINE n == Len(st.blocks)
             block == st.blocks[n]
             shows == block.kind \in {"message", "reasoning"} /\ t # <<>>
             new == shows /\ st.active = None
             i == IF new THEN st.count + 1 ELSE st.active
  <2>1. /\ UNCHANGED <<proto, relay, view>>
        /\ st' = [st EXCEPT !.blocks[n].text = @ \o t,
                            !.active = IF new THEN i ELSE @, !.count = IF new THEN i ELSE @]
        /\ out' = IF shows THEN Announced(i, block.kind, t, new) ELSE <<>>
    BY <1>3 DEF NativeDelta, Handle
  <2>2. DOMAIN st' = DOMAIN st
    BY <2>1
  <2> HIDE DEF i, new, block
  <2>3. AllQuiet(out')
    <3>1. CASE shows
      BY <1>0, <2>1, <3>1
    <3>2. CASE ~shows
      BY <2>1, <3>2, QuietNone
    <3> QED
      BY <3>1, <3>2
  <2> QED
    BY <2>1, <2>2, <2>3
<1>4. ASSUME NativeSignature PROVE Goal
  BY <1>4, QuietNone DEF NativeSignature, Handle
<1>5. ASSUME NativeStop PROVE Goal
  BY <1>5, QuietNone DEF NativeStop, Handle
<1>6. ASSUME NEW stop, NativeMessageDelta(stop) PROVE Goal
  BY <1>6, QuietNone DEF NativeMessageDelta, Handle
<1>7. ASSUME NativeMessageStop PROVE Goal
  BY <1>7, QuietNone DEF NativeMessageStop, Handle
<1> QED
  BY <1>1, <1>2, <1>3, <1>4, <1>5, <1>6, <1>7 DEF NativeMessagesNext

\* So does every event of an Interactions stream.
LEMMA InteractionsQuiet ==
  ASSUME DOMAIN st = DOMAIN InteractionsInit, InteractionsNext
  PROVE  UNCHANGED <<proto, relay, view>> /\ DOMAIN st' = DOMAIN st /\ AllQuiet(out')
<1> DEFINE Goal == UNCHANGED <<proto, relay, view>> /\ DOMAIN st' = DOMAIN st /\ AllQuiet(out')
<1>1. ASSUME InteractionCreated PROVE Goal
  BY <1>1, QuietOne, QuietEvents DEF InteractionCreated, Handle
<1>2. ASSUME InteractionStatus PROVE Goal
  BY <1>2, QuietNone DEF InteractionStatus, Handle
<1>3. ASSUME NEW kind, NEW call, NEW content, StepStart(kind, call, content) PROVE Goal
  <2> DEFINE steps == Append(st.steps, [kind |-> kind, call |-> call, content |-> content])
             i == PublicIndex(steps, Len(steps))
             whole == content = None
  <2>1. /\ UNCHANGED <<proto, relay, view>>
        /\ st' = [st EXCEPT !.steps = steps, !.active = TRUE, !.arguments = <<>>]
        /\ out' = IF kind # "message" THEN <<>>
                  ELSE <<Added(i, "message", None, whole), PartAdded(i)>>
    BY <1>3 DEF StepStart, Handle
  <2> HIDE DEF steps, i, whole
  <2>2. Quiet(Added(i, "message", None, whole)) /\ Quiet(PartAdded(i))
    BY QuietEvents DEF ToolKinds
  <2>3. AllQuiet(out')
    BY <2>1, <2>2, QuietNone, QuietTwo
  <2>4. DOMAIN st' = DOMAIN st
    BY <2>1
  <2> QED
    BY <2>1, <2>3, <2>4
<1>4. ASSUME NEW t, StepText(t) PROVE Goal
  <2> DEFINE n == Len(st.steps)
             content == IF st.steps[n].content \in {None, <<>>} THEN <<(<<>>)>> ELSE st.steps[n].content
             last == Len(content)
  <2>1. /\ UNCHANGED <<proto, relay, view>>
        /\ st' = [st EXCEPT !.steps[n].content = [content EXCEPT ![last] = @ \o t]]
        /\ out' = <<Delta(PublicIndex(st.steps, n), 1, t)>>
    BY <1>4 DEF StepText, Handle
  <2> HIDE DEF content, last
  <2>2. AllQuiet(out')
    BY <2>1, QuietOne, QuietEvents
  <2>3. DOMAIN st' = DOMAIN st
    BY <2>1
  <2> QED
    BY <2>1, <2>2, <2>3
<1>5. ASSUME NEW piece, StepArguments(piece) PROVE Goal
  BY <1>5, QuietNone DEF StepArguments, Handle
<1>6. ASSUME StepSignature PROVE Goal
  BY <1>6, QuietNone DEF StepSignature, Handle
<1>7. ASSUME StepStop PROVE Goal
  BY <1>7, QuietNone DEF StepStop, Handle
<1>8. ASSUME NEW status, InteractionCompleted(status) PROVE Goal
  BY <1>8, QuietNone DEF InteractionCompleted, Handle
<1>9. ASSUME InteractionDone PROVE Goal
  BY <1>9, QuietNone DEF InteractionDone, Handle
<1> QED
  BY <1>1, <1>2, <1>3, <1>4, <1>5, <1>6, <1>7, <1>8, <1>9 DEF InteractionsNext

-----------------------------------------------------------------------------
(* Provider plugins.                                                       *)

\* A response that counts no tools has none.
LEMMA NoTools ==
  ASSUME NEW n \in Nat, NEW output, DOMAIN output = 1..n, ToolCount(output) = 0
  PROVE  \A i \in 1..n : output[i].kind \notin ToolKinds
<1> DEFINE T == {i \in DOMAIN output : output[i].kind \in ToolKinds}
<1>1. IsFiniteSet(T)
  <2>1. IsFiniteSet(1..n)
    BY FS_Interval
  <2> QED
    BY <2>1, FS_Subset
<1>2. Cardinality(T) = 0
  BY DEF ToolCount
<1>3. T = {}
  BY <1>1, <1>2, FS_EmptySet
<1> QED
  BY <1>3

\* The parts a plugin has not shown.
LEMMA RestOfPartsQuiet ==
  ASSUME NEW i, NEW item, NEW from \in Nat, Len(item.content) \in Nat
  PROVE  AllQuiet(RestOfParts(i, item, from))
<1> DEFINE m == Len(item.content) - from
           n == IF m < 0 THEN 0 ELSE m
           seqs == [k \in 1..m |-> <<PartAdded(i)>> \o TextEvents(i, from + k, item.content[from + k])]
<1>1. n \in Nat /\ 1..m = 1..n
  OBVIOUS
<1>2. \A k \in 1..m : AllQuiet(<<PartAdded(i)>> \o TextEvents(i, from + k, item.content[from + k]))
  BY QuietEvents, QuietOne, QuietText, QuietConcat
<1>3. RestOfParts(i, item, from) = FlattenSeq(seqs)
  BY DEF RestOfParts
<1>4. \A k \in 1..n : AllQuiet(seqs[k])
  BY <1>1, <1>2
<1>5. seqs = [k \in 1..n |-> seqs[k]]
  BY <1>1
<1> HIDE DEF seqs, n
<1> QED
  BY <1>1, <1>3, <1>4, <1>5, QuietFlatten

\* terminal_events of a response without tools.
LEMMA TerminalEventsQuiet ==
  ASSUME NEW n \in Nat, NEW output, NEW status, DOMAIN output = 1..n, PublishedItems,
         status # "completed",
         \A i \in 1..n : output[i].kind \notin ToolKinds /\ Len(output[i].content) \in Nat
  PROVE  AllQuiet(TerminalEvents(output, status))
<1>1. ASSUME NEW i \in 1..n PROVE AllQuiet(ItemEvents(i, output[i]))
  <2> DEFINE item == output[i]
             from == Len(st.items[i].parts)
             shown == IF i \in DOMAIN st.items THEN RestOfParts(i, item, from)
                      ELSE <<Added(i, item.kind, None, TRUE)>> \o RestOfParts(i, item, 0)
  <2>1. item.kind \notin ToolKinds /\ Len(item.content) \in Nat
    OBVIOUS
  <2>2. i \in DOMAIN st.items => from \in Nat
    BY DEF PublishedItems
  <2>3. ItemEvents(i, item) = shown \o <<Done(i, item)>>
    BY <2>1 DEF ItemEvents
  <2> HIDE DEF item, from
  <2>4. AllQuiet(RestOfParts(i, item, 0)) /\ (i \in DOMAIN st.items => AllQuiet(RestOfParts(i, item, from)))
    BY <2>1, <2>2, RestOfPartsQuiet
  <2>5. AllQuiet(<<Added(i, item.kind, None, TRUE)>>) /\ AllQuiet(<<Done(i, item)>>)
    BY <2>1, QuietEvents, QuietOne
  <2>6. AllQuiet(shown)
    BY <2>4, <2>5, QuietConcat
  <2> HIDE DEF shown
  <2>7. AllQuiet(ItemEvents(i, item))
    BY <2>3, <2>5, <2>6, QuietConcat
  <2> QED
    BY <2>7 DEF item
<1> DEFINE seqs == [i \in DOMAIN output |-> ItemEvents(i, output[i])]
           head == IF st.created THEN <<>> ELSE <<Created>>
<1>2. AllQuiet(FlattenSeq(seqs))
  <2>1. seqs = [i \in 1..n |-> seqs[i]] /\ \A i \in 1..n : AllQuiet(seqs[i])
    BY <1>1
  <2> HIDE DEF seqs
  <2> QED
    BY <2>1, QuietFlatten
<1>3. AllQuiet(head) /\ AllQuiet(<<End(status, output)>>)
  BY QuietNone, QuietOne, QuietEvents
<1>4. TerminalEvents(output, status) = head \o FlattenSeq(seqs) \o <<End(status, output)>>
  BY DEF TerminalEvents
<1> HIDE DEF head, seqs
<1> QED
  BY <1>2, <1>3, <1>4, QuietConcat

\* A published item grows.
LEMMA GrownItem ==
  ASSUME NEW K, NEW P, NEW items \in Seq([kind : K, parts : P]), NEW i \in DOMAIN items
  PROVE  /\ items[i].parts \in P
         /\ \A parts \in P : [items EXCEPT ![i].parts = parts] \in Seq([kind : K, parts : P])
<1>1. items[i] \in [kind : K, parts : P]
  <2> DEFINE R == [kind : K, parts : P]
  <2>1. items \in Seq(R)
    OBVIOUS
  <2> HIDE DEF R
  <2>2. items[i] \in R
    BY <2>1
  <2> QED
    BY <2>2 DEF R
<1>2. ASSUME NEW parts \in P PROVE [items EXCEPT ![i].parts = parts] \in Seq([kind : K, parts : P])
  <2> DEFINE x == [items[i] EXCEPT !.parts = parts]
  <2>1. x \in [kind : K, parts : P]
    BY <1>1
  <2>2. [items EXCEPT ![i].parts = parts] = [items EXCEPT ![i] = x]
    OBVIOUS
  <2> HIDE DEF x
  <2> QED
    BY <2>1, <2>2
<1> QED
  BY <1>1, <1>2

\* A piece of text.
LEMMA FragmentTexts ==
  ASSUME NEW t \in Fragments
  PROVE  t \in Seq(Tokens)
<1>1. CASE t = <<>>
  BY <1>1
<1>2. ASSUME NEW x \in Tokens, t = <<x>> PROVE t \in Seq(Tokens)
  BY <1>2
<1> QED
  BY <1>1, <1>2 DEF Fragments

\* What a plugin may put into its response.
LEMMA FinalItemShape ==
  ASSUME PublishedItems, NEW f \in FinalItems
  PROVE  /\ f.item.kind \notin ToolKinds => Len(f.item.content) \in Nat
         /\ f.item.kind \in ToolKinds => f.item.call \in CallIds /\ f.item = Item(f.item.kind, f.item.call, <<Document>>)
<1>2. Contents \subseteq Seq(Seq(Tokens))
  <2> DEFINE streamed == {st.items[j].parts : j \in DOMAIN st.items}
             longer == {Append(c, t) : c \in streamed, t \in Fragments}
             empty == {<<>>, <<(<<>>)>>}
             single == {<<t>> : t \in Fragments}
  <2>1. streamed \subseteq Seq(Seq(Tokens))
    <3> SUFFICES ASSUME NEW j \in DOMAIN st.items PROVE st.items[j].parts \in Seq(Seq(Tokens))
      OBVIOUS
    <3> QED
      BY GrownItem DEF PublishedItems
  <2>2. Contents = streamed \cup longer \cup empty \cup single
    BY DEF Contents
  <2> HIDE DEF streamed, longer, empty, single
  <2>3. \A t \in Fragments : t \in Seq(Tokens)
    BY FragmentTexts
  <2>4. ASSUME NEW c \in streamed, NEW t \in Fragments PROVE Append(c, t) \in Seq(Seq(Tokens))
    BY <2>1, <2>3
  <2>5. ASSUME NEW t \in Fragments PROVE <<t>> \in Seq(Seq(Tokens))
    BY <2>3
  <2>6. {<<>>, <<(<<>>)>>} \subseteq Seq(Seq(Tokens))
    OBVIOUS
  <2> DEFINE T == Seq(Seq(Tokens))
  <2>7. /\ streamed \subseteq T /\ {<<>>, <<(<<>>)>>} \subseteq T
        /\ \A c \in streamed, t \in Fragments : Append(c, t) \in T
        /\ \A t \in Fragments : <<t>> \in T
    BY <2>1, <2>4, <2>5, <2>6
  <2> HIDE DEF T
  <2>8. ASSUME NEW x \in Contents PROVE x \in T
    <3>1. CASE x \in streamed
      BY <2>7, <3>1
    <3>2. CASE x \in longer
      <4>1. PICK c \in streamed, t \in Fragments : x = Append(c, t)
        BY <3>2 DEF longer
      <4> QED
        BY <2>7, <4>1
    <3>3. CASE x \in empty
      BY <2>7, <3>3, Zenon DEF empty
    <3>4. CASE x \in single
      BY <2>7, <3>4, Zenon DEF single
    <3> QED
      BY <2>2, <2>8, <3>1, <3>2, <3>3, <3>4
  <2> QED
    BY <2>8 DEF T
<1>3. CASE \E id \in 1..MaxItems, kind \in {"message", "reasoning"}, c \in Contents :
              f = [id |-> id, item |-> Item(kind, None, c)]
  <2>1. f.item.content \in Contents /\ f.item.kind \notin ToolKinds
    BY <1>3 DEF Item, ToolKinds
  <2> QED
    BY <1>2, <2>1
<1>4. CASE \E id \in 1..MaxItems, kind \in ToolKinds, call \in CallIds :
              f = [id |-> id, item |-> Item(kind, call, <<Document>>)]
  BY <1>4 DEF Item
<1> QED
  BY <1>3, <1>4 DEF FinalItems

\* What is published is text; the response of a stateless plugin says nothing of a tool unless
\* it is complete.
LEMMA PluginQuiet ==
  ASSUME DOMAIN st = DOMAIN PluginInit, PluginNext
  PROVE  /\ UNCHANGED <<proto, relay, view>> /\ DOMAIN st' = DOMAIN st
         /\ proto.adapter # "provider" => AllQuiet(out')
         /\ PublishedItems =>
               PublishedItems' /\ (proto.adapter = "provider" => st'.status = "completed" \/ AllQuiet(out'))
<1> DEFINE Item0 == [kind : {"message", "reasoning"}, parts : Seq(Seq(Tokens))]
           Same == UNCHANGED <<proto, relay, view>> /\ DOMAIN st' = DOMAIN st
           Keeps == st.items \in Seq(Item0) => st'.items \in Seq(Item0)
           Goal == /\ Same
                   /\ proto.adapter # "provider" => AllQuiet(out')
                   /\ PublishedItems =>
                         PublishedItems' /\ (proto.adapter = "provider" => st'.status = "completed" \/ AllQuiet(out'))
<1>0. DOMAIN st = {"created", "items", "complete", "status", "output", "done"}
  BY DEF PluginInit
<1>a. ASSUME Same, Keeps, AllQuiet(out'), st'.status = st.status, st'.done = st.done PROVE Goal
  BY <1>a DEF PublishedItems
<1> HIDE DEF Goal
<1>1. ASSUME PluginCreated PROVE Goal
  <2>1. /\ UNCHANGED <<proto, relay, view>> /\ out' = <<Created>>
        /\ st' = [st EXCEPT !.created = TRUE]
    BY <1>1 DEF PluginCreated, Handle
  <2>2. AllQuiet(out')
    BY <2>1, QuietOne, QuietEvents
  <2> QED
    BY <1>0, <1>a, <2>1, <2>2
<1>2. ASSUME NEW kind \in {"message", "reasoning"}, PluginItem(kind) PROVE Goal
  <2> DEFINE i == Len(st.items) + 1
             items == Append(st.items, [kind |-> kind, parts |-> <<>>])
  <2>1. /\ UNCHANGED <<proto, relay, view>> /\ out' = <<Added(i, kind, None, TRUE)>>
        /\ st' = [st EXCEPT !.items = items]
    BY <1>2 DEF PluginItem, Handle
  <2>2. Quiet(Added(i, kind, None, TRUE))
    BY QuietEvents DEF ToolKinds
  <2>3. st.items \in Seq(Item0) => items \in Seq(Item0)
    OBVIOUS
  <2> HIDE DEF i, items
  <2>4. AllQuiet(out')
    BY <2>1, <2>2, QuietOne
  <2> QED
    BY <1>0, <1>a, <2>1, <2>3, <2>4
<1>3. ASSUME NEW i \in 1..MaxItems, PluginPart(i) PROVE Goal
  <2> DEFINE parts == Append(st.items[i].parts, <<>>)
             items == [st.items EXCEPT ![i].parts = parts]
  <2>1. /\ UNCHANGED <<proto, relay, view>> /\ out' = <<PartAdded(i)>>
        /\ st' = [st EXCEPT !.items = items] /\ i \in DOMAIN st.items
    BY <1>3 DEF PluginPart, Handle
  <2>2. st.items \in Seq(Item0) => st.items[i].parts \in Seq(Seq(Tokens))
    BY <2>1, GrownItem
  <2>3. st.items \in Seq(Item0) => parts \in Seq(Seq(Tokens))
    BY <2>2
  <2> HIDE DEF parts
  <2>4. st.items \in Seq(Item0) => items \in Seq(Item0)
    BY <2>1, <2>3, GrownItem
  <2> HIDE DEF items
  <2>5. AllQuiet(out')
    BY <2>1, QuietEvents, QuietOne
  <2> QED
    BY <1>0, <1>a, <2>1, <2>4, <2>5
<1>4. ASSUME NEW i \in 1..MaxItems, NEW p \in 1..MaxParts, NEW t \in Fragments, PluginText(i, p, t)
      PROVE  Goal
  <2> DEFINE parts == [st.items[i].parts EXCEPT ![p] = @ \o t]
             items == [st.items EXCEPT ![i].parts = parts]
  <2>1. /\ UNCHANGED <<proto, relay, view>> /\ out' = <<Delta(i, p, t)>>
        /\ st' = [st EXCEPT !.items = items]
        /\ i \in DOMAIN st.items /\ p \in DOMAIN st.items[i].parts
    BY <1>4 DEF PluginText, Handle
  <2>2. st.items \in Seq(Item0) => parts \in Seq(Seq(Tokens))
    <3>1. t \in Seq(Tokens)
      BY FragmentTexts
    <3> SUFFICES ASSUME st.items \in Seq(Item0) PROVE parts \in Seq(Seq(Tokens))
      OBVIOUS
    <3>2. st.items[i].parts \in Seq(Seq(Tokens))
      BY <2>1, GrownItem
    <3>3. st.items[i].parts[p] \o t \in Seq(Tokens)
      BY <2>1, <3>1, <3>2
    <3> QED
      BY <2>1, <3>2, <3>3
  <2> HIDE DEF parts
  <2>3. st.items \in Seq(Item0) => items \in Seq(Item0)
    BY <2>1, <2>2, GrownItem
  <2> HIDE DEF items
  <2>4. AllQuiet(out')
    BY <2>1, QuietEvents, QuietOne
  <2> QED
    BY <1>0, <1>a, <2>1, <2>3, <2>4
<1>5. ASSUME PluginComplete PROVE Goal
  <2>1. /\ UNCHANGED <<proto, relay, view>> /\ out' = <<>>
        /\ st' = [st EXCEPT !.complete = TRUE]
    BY <1>5 DEF PluginComplete, Handle
  <2> QED
    BY <1>0, <1>a, <2>1, QuietNone
<1>6. ASSUME NEW final \in Finals, NEW status \in {"completed", "incomplete"},
             PluginFinish(final, status)
      PROVE  Goal
  <2> DEFINE output == [i \in DOMAIN final |-> final[i].item]
  <2>1. /\ UNCHANGED <<proto, relay, view>> /\ Verified(final, status)
        /\ st' = [st EXCEPT !.done = TRUE, !.status = status, !.output = output]
        /\ out' = IF proto.adapter = "provider" THEN TerminalEvents(output, status) ELSE <<>>
    BY <1>6 DEF PluginFinish, Handle
  <2>2. PICK n \in 0..MaxItems : final \in [1..n -> FinalItems]
    BY DEF Finals
  <2>3. n \in Nat /\ DOMAIN output = 1..n /\ \A i \in 1..n : output[i] = final[i].item
    BY <2>2, LimitsAssumption
  <2>4. status = "incomplete" => ToolCount(output) = 0
    BY <2>1 DEF Verified
  <2>5. ASSUME PublishedItems, NEW i \in 1..n
        PROVE  output[i].kind \notin ToolKinds => Len(output[i].content) \in Nat
    <3>1. final[i] \in FinalItems
      BY <2>2
    <3> QED
      BY <2>3, <2>5, <3>1, FinalItemShape
  <2>6. ASSUME PublishedItems, status = "incomplete"
        PROVE  AllQuiet(TerminalEvents(output, status))
    <3>1. \A i \in 1..n : output[i].kind \notin ToolKinds
      BY <2>3, <2>4, <2>6, NoTools
    <3>2. \A i \in 1..n : Len(output[i].content) \in Nat
      BY <2>5, <2>6, <3>1
    <3> HIDE DEF output
    <3> QED
      BY <2>3, <2>6, <3>1, <3>2, TerminalEventsQuiet
  <2> HIDE DEF output
  <2>7. /\ DOMAIN st' = DOMAIN st /\ st'.items = st.items
        /\ st'.status = status /\ st'.done = TRUE
    BY <1>0, <2>1
  <2>8. proto.adapter # "provider" => AllQuiet(out')
    BY <2>1, QuietNone
  <2>9. PublishedItems => PublishedItems'
    BY <2>7 DEF PublishedItems
  <2>10. proto.adapter = "provider" /\ PublishedItems => st'.status = "completed" \/ AllQuiet(out')
    BY <2>1, <2>6, <2>7
  <2> QED
    BY <2>1, <2>7, <2>8, <2>9, <2>10 DEF Goal
<1> QED
  BY <1>1, <1>2, <1>3, <1>4, <1>5, <1>6 DEF PluginNext, Goal

-----------------------------------------------------------------------------
(* The validator.                                                          *)

Operations == {"started", "item", "part", "text", "part_end", "arguments", "item_end", "usage",
               "finished"}

\* The equation of ApplyAll, for the first n events.
Runs(v, events, n, f) ==
    f = [i \in 0..n |-> IF i = 0 THEN v ELSE Apply(f[i - 1], events[i])]

LEMMA RunExists ==
  ASSUME NEW v, NEW events, NEW n \in Nat
  PROVE  \E f : Runs(v, events, n, f)
<1> DEFINE Bad == {k \in Nat : ~\E f : Runs(v, events, k, f)}
<1> SUFFICES ASSUME Bad # {} PROVE FALSE
  OBVIOUS
<1>1. PICK k \in Bad : \A j \in Bad : k <= j
  BY LeastPlace
<1>2. k # 0
  <2>1. Runs(v, events, 0, [i \in 0..0 |-> v])
    BY DEF Runs
  <2> QED
    BY <2>1
<1>3. k - 1 \in Nat /\ k - 1 \notin Bad
  BY <1>1, <1>2
<1>4. PICK g : Runs(v, events, k - 1, g)
  BY <1>3
<1> DEFINE last == Apply(g[k - 1], events[k])
           h == [i \in 0..k |-> IF i = k THEN last ELSE g[i]]
           next(f, i) == IF i = 0 THEN v ELSE Apply(f[i - 1], events[i])
<1>5. ASSUME NEW i \in 0..k PROVE h[i] = next(h, i)
  <2>1. CASE i = k
    <3>1. i # 0 /\ h[i] = last /\ h[i - 1] = g[k - 1]
      BY <1>2, <1>3, <2>1
    <3> QED
      BY <2>1, <3>1
  <2>2. CASE i # k
    <3>1. i \in 0..(k - 1) /\ h[i] = g[i] /\ (i # 0 => h[i - 1] = g[i - 1])
      BY <1>3, <2>2
    <3>2. g[i] = next(g, i)
      BY <1>4, <3>1 DEF Runs
    <3> QED
      BY <3>1, <3>2
  <2> QED
    BY <2>1, <2>2
<1>6. h = [i \in 0..k |-> next(h, i)]
  BY <1>5
<1>7. Runs(v, events, k, h)
  BY <1>6 DEF Runs
<1> QED
  BY <1>7

\* ApplyAll is the end of such a run.
LEMMA ApplyAllRuns ==
  ASSUME NEW v, NEW events, Len(events) \in Nat
  PROVE  \E f : Runs(v, events, Len(events), f) /\ ApplyAll(v, events) = f[Len(events)]
<1> DEFINE f == CHOOSE f : Runs(v, events, Len(events), f)
<1>1. Runs(v, events, Len(events), f)
  BY RunExists
<1>2. ApplyAll(v, events) = f[Len(events)]
  BY DEF ApplyAll, Runs
<1> HIDE DEF f
<1> QED
  BY <1>1, <1>2

\* The validator keeps its fields; only a terminal event completes it.
LEMMA ApplyFacts ==
  ASSUME NEW v, NEW e, DOMAIN v = DOMAIN NewValidator, e.op \in Operations
  PROVE  /\ DOMAIN Apply(v, e) = DOMAIN v
         /\ e.op # "finished" => Apply(v, e).phase \in {v.phase, "open"}
         /\ e.op = "finished" /\ Apply(v, e).ok => Apply(v, e).phase = e.status
<1>0. DOMAIN v = {"ok", "phase", "items", "usage"}
  BY DEF NewValidator
<1>1. CASE ~(v.ok /\ Accepts(v, e))
  <2>1. Apply(v, e) = [v EXCEPT !.ok = FALSE]
    BY <1>1 DEF Apply
  <2> QED
    BY <1>0, <2>1
<1>2. CASE v.ok /\ Accepts(v, e)
  <2>1. Apply(v, e) = Accepted(v, e)
    BY <1>2 DEF Apply
  <2>2. CASE e.op = "started"
    BY <1>0, <2>1, <2>2 DEF Accepted
  <2>3. CASE e.op = "item"
    BY <1>0, <2>1, <2>3 DEF Accepted
  <2>4. CASE e.op = "part"
    BY <1>0, <2>1, <2>4 DEF Accepted
  <2>5. CASE e.op = "text"
    BY <1>0, <2>1, <2>5 DEF Accepted
  <2>6. CASE e.op = "part_end"
    BY <1>0, <2>1, <2>6 DEF Accepted
  <2>7. CASE e.op = "arguments"
    BY <1>0, <2>1, <2>7 DEF Accepted
  <2>8. CASE e.op = "item_end"
    BY <1>0, <2>1, <2>8 DEF Accepted
  <2>9. CASE e.op = "usage"
    BY <1>0, <2>1, <2>9 DEF Accepted
  <2>10. CASE e.op = "finished"
    BY <1>0, <2>1, <2>10 DEF Accepted
  <2> QED
    BY <2>2, <2>3, <2>4, <2>5, <2>6, <2>7, <2>8, <2>9, <2>10 DEF Operations
<1> QED
  BY <1>1, <1>2

\* No event, or one.
LEMMA ApplyShort ==
  ASSUME NEW v
  PROVE  ApplyAll(v, <<>>) = v /\ \A e : ApplyAll(v, <<e>>) = Apply(v, e)
<1>1. ApplyAll(v, <<>>) = v
  <2> DEFINE events == <<>>
  <2>1. Len(events) = 0
    OBVIOUS
  <2> HIDE DEF events
  <2>2. PICK f : Runs(v, events, 0, f) /\ ApplyAll(v, events) = f[0]
    BY <2>1, ApplyAllRuns
  <2>3. f[0] = v
    BY <2>2 DEF Runs
  <2> QED
    BY <2>2, <2>3 DEF events
<1>2. ASSUME NEW e PROVE ApplyAll(v, <<e>>) = Apply(v, e)
  <2> DEFINE events == <<e>>
  <2>1. Len(events) = 1 /\ events[1] = e
    OBVIOUS
  <2> HIDE DEF events
  <2>2. PICK f : Runs(v, events, 1, f) /\ ApplyAll(v, events) = f[1]
    BY <2>1, ApplyAllRuns
  <2>3. f[0] = v /\ f[1] = Apply(f[0], events[1])
    BY <2>2 DEF Runs
  <2> QED
    BY <2>1, <2>2, <2>3 DEF events
<1> QED
  BY <1>1, <1>2

\* A run that ends with an accepted terminal event ends in its status.
LEMMA ApplyTerminal ==
  ASSUME NEW v, DOMAIN v = DOMAIN NewValidator, NEW S, NEW events \in Seq(S),
         \A e \in S : e.op \in Operations, NEW status,
         ApplyAll(v, events \o <<Finished(status)>>).ok
  PROVE  ApplyAll(v, events \o <<Finished(status)>>).phase = status
<1> DEFINE last == Finished(status)
           all == events \o <<last>>
           n == Len(events)
<1>0. last.op = "finished" /\ last.status = status
  BY DEF Finished
<1> HIDE DEF last
<1>1. n \in Nat /\ Len(all) = n + 1 /\ all[n + 1] = last /\ \A k \in 1..n : all[k] \in S
  OBVIOUS
<1> HIDE DEF all, n
<1>2. n + 1 \in Nat
  BY <1>1
<1>3. PICK f : Runs(v, all, n + 1, f) /\ ApplyAll(v, all) = f[n + 1]
  BY <1>1, <1>2, ApplyAllRuns
<1>4. f[0] = v /\ \A k \in 1..(n + 1) : f[k] = Apply(f[k - 1], all[k])
  BY <1>1, <1>3 DEF Runs
<1> DEFINE Bad == {k \in 0..n : DOMAIN f[k] # DOMAIN NewValidator}
<1>5. Bad = {}
  <2> SUFFICES ASSUME Bad # {} PROVE FALSE
    OBVIOUS
  <2>1. Bad \in SUBSET Nat
    BY <1>1
  <2>2. PICK k \in Bad : \A j \in Bad : k <= j
    BY <2>1, LeastPlace
  <2>3. k # 0
    BY <1>4
  <2>4. k \in 1..n /\ k - 1 \in 0..n /\ k - 1 \notin Bad
    BY <1>1, <2>2, <2>3
  <2>5. DOMAIN f[k - 1] = DOMAIN NewValidator /\ all[k].op \in Operations
    BY <1>1, <2>4
  <2>6. f[k] = Apply(f[k - 1], all[k])
    BY <1>1, <1>4, <2>4
  <2> QED
    BY <2>5, <2>6, ApplyFacts
<1>6. DOMAIN f[n] = DOMAIN NewValidator
  BY <1>1, <1>5
<1>7. f[n + 1] = Apply(f[n], last)
  BY <1>1, <1>4
<1>8. last.op \in Operations
  BY <1>0 DEF Operations
<1>9. Apply(f[n], last).ok => Apply(f[n], last).phase = last.status
  BY <1>0, <1>6, <1>8, ApplyFacts
<1> QED
  BY <1>0, <1>3, <1>7, <1>9 DEF all, last

-----------------------------------------------------------------------------
(* Checked Responses and codecs.                                           *)

\* The gate: nothing before the first held event is the head of a tool.
LEMMA FirstHeldPlace ==
  ASSUME NEW s, IsSeq(s)
  PROVE  /\ FirstHeld(s) \in 1..(Len(s) + 1)
         /\ \A k \in 1..(FirstHeld(s) - 1) : k \in DOMAIN s /\ k \notin Heads(s)
<1> DEFINE n == Len(s)
           T == Heads(s) \cup {n + 1}
           Least(k) == /\ k \in Heads(s) \/ k = n + 1
                       /\ \A h \in Heads(s) : k <= h
<1>1. n \in Nat /\ DOMAIN s = 1..n /\ Heads(s) \subseteq 1..n
  BY DEF IsSeq, Heads
<1>2. CASE st.held # <<>>
  <2>1. FirstHeld(s) = 1
    BY <1>2 DEF FirstHeld
  <2> QED
    BY <1>1, <2>1
<1>3. CASE st.held = <<>>
  <2>1. FirstHeld(s) = CHOOSE k \in 1..(n + 1) : Least(k)
    BY <1>3 DEF FirstHeld
  <2>2. \E k \in 1..(n + 1) : Least(k)
    <3>1. T \in SUBSET Nat /\ T # {}
      BY <1>1
    <3> HIDE DEF n
    <3>2. PICK k \in T : \A y \in T : k <= y
      BY <3>1, LeastPlace
    <3>3. k \in 1..(n + 1)
      BY <1>1, <3>2
    <3>4. Least(k)
      BY <3>2
    <3> QED
      BY <3>3, <3>4
  <2>3. FirstHeld(s) \in 1..(n + 1) /\ Least(FirstHeld(s))
    BY <2>1, <2>2, Zenon
  <2> HIDE DEF n
  <2>4. ASSUME NEW k \in 1..(FirstHeld(s) - 1) PROVE k \in 1..n /\ k \notin Heads(s)
    BY <1>1, <2>3
  <2> QED
    BY <1>1, <2>3, <2>4 DEF n
<1> QED
  BY <1>2, <1>3

\* Sorting what is held adds nothing to it.
LEMMA OutputOrderType ==
  ASSUME NEW S, NEW s \in Seq(S)
  PROVE  InOutputOrder(s) \in Seq(S)
<1> DEFINE ends == {k \in DOMAIN s : s[k].ev = "end"}
           of(i) == {k \in DOMAIN s \ ends : /\ s[k].i = i
                                             /\ s[k].ev = "delta" => s[k].text # <<>>}
           seqs == [i \in 1..MaxItems |-> Kept(s, of(i))]
<1>1. InOutputOrder(s) = FlattenSeq(seqs) \o Kept(s, ends)
  BY DEF InOutputOrder
<1> HIDE DEF ends, of
<1>2. \A i \in 1..MaxItems : seqs[i] \in Seq(S)
  BY KeptType
<1>3. seqs = [i \in 1..MaxItems |-> seqs[i]]
  OBVIOUS
<1>4. MaxItems \in Nat
  BY LimitsAssumption
<1>5. Kept(s, ends) \in Seq(S)
  BY KeptType
<1> HIDE DEF seqs
<1>6. FlattenSeq(seqs) \in Seq(S)
  BY <1>2, <1>3, <1>4, FlattenSeqType
<1> QED
  BY <1>1, <1>5, <1>6

\* What one provider event does: nothing of a tool is let through while the response goes on,
\* nor when there was nothing of a tool.
LEMMA YieldQuiet ==
  ASSUME NEW next, NEW events, NEW yielded, ResponsesShape(st), ResponsesShape(next),
         next.held = st.held, IsSeq(yielded), Yield(next, events, yielded),
         ~next.done => \A e \in Range(yielded) : Quiet(e) \/ HeadOfItem(next, e)
  PROVE  /\ UNCHANGED <<proto, relay, view>> /\ ~st.done
         /\ ApplyAll(val, events).ok /\ val' = ApplyAll(val, events)
         /\ ResponsesShape(st') /\ st'.done = next.done
         /\ ~next.done /\ (proto.adapter # "codec" => AllQuiet(yielded)) => AllQuiet(out')
         /\ AllQuiet(st.held) /\ AllQuiet(yielded) => AllQuiet(out')
<1> DEFINE first == FirstHeld(yielded)
           rest == SubSeq(yielded, first, Len(yielded))
           held == InOutputOrder(st.held \o rest)
           published == SubSeq(yielded, 1, first - 1)
           S == Range(st.held) \cup Range(yielded)
<1>1. first \in 1..(Len(yielded) + 1) /\ \A k \in 1..(first - 1) : k \in DOMAIN yielded /\ k \notin Heads(yielded)
  BY FirstHeldPlace
<1>2. Yield(next, events, yielded) =
        IF proto.adapter # "codec" THEN Handle(next, events, yielded)
        ELSE IF next.done THEN Handle([next EXCEPT !.held = <<>>], events, published \o held)
        ELSE Handle([next EXCEPT !.held = held], events, published)
  BY DEF Yield
<1>3. st.held \in Seq(S) /\ yielded \in Seq(S) /\ yielded \in Seq(Range(yielded))
  BY DEF ResponsesShape, IsSeq
<1>4. DOMAIN next = {"started", "progressed", "items", "held", "done"}
  BY DEF ResponsesShape, ResponsesInit
<1> HIDE DEF first
<1>5. rest \in Seq(S) /\ published \in Seq(Range(yielded))
  <2> HIDE DEF S
  <2> QED
    BY <1>1, <1>3
<1>6. held \in Seq(S)
  <2> HIDE DEF S, rest
  <2>1. st.held \o rest \in Seq(S)
    BY <1>3, <1>5
  <2> QED
    BY <2>1, OutputOrderType
<1>7. ~next.done => AllQuiet(published)
  <2> SUFFICES ASSUME ~next.done PROVE AllQuiet(published)
    OBVIOUS
  <2> DEFINE Q == {e \in Range(yielded) : Quiet(e)}
  <2>1. ASSUME NEW k \in 1..(first - 1) PROVE yielded[k] \in Q
    <3>1. k \in DOMAIN yielded /\ k \notin Heads(yielded) /\ yielded[k] \in Range(yielded)
      BY <1>1 DEF Range
    <3>2. Quiet(yielded[k]) \/ HeadOfItem(next, yielded[k])
      BY <3>1
    <3>3. ~(yielded[k].ev = "added" /\ yielded[k].kind \in ToolKinds)
      BY <3>1 DEF Heads
    <3> QED
      BY <3>1, <3>2, <3>3 DEF Quiet, HeadOfItem
  <2>2. published \in Seq(Q)
    <3> HIDE DEF Q
    <3>1. Len(yielded) \in Nat
      BY <1>3
    <3> QED
      BY <1>1, <1>3, <2>1, <3>1
  <2>3. \A e \in Q : Quiet(e)
    OBVIOUS
  <2> HIDE DEF Q, published
  <2> QED
    BY <2>2, <2>3, QuietSet
<1>8. AllQuiet(yielded) => AllQuiet(published)
  <2> HIDE DEF published
  <2> QED
    BY <1>5, QuietSet DEF AllQuiet
<1>9. AllQuiet(st.held) /\ AllQuiet(yielded) => AllQuiet(held)
  <2>1. AllQuiet(st.held) /\ AllQuiet(yielded) => \A e \in S : Quiet(e)
    BY DEF AllQuiet
  <2> HIDE DEF held, S
  <2> QED
    BY <1>6, <2>1, QuietSet
<1> HIDE DEF published, held
<1>10. CASE proto.adapter # "codec"
  BY <1>2, <1>10 DEF Handle, Reading
<1>11. CASE proto.adapter = "codec" /\ next.done
  <2> DEFINE s == [next EXCEPT !.held = <<>>]
  <2>1. Handle(s, events, published \o held)
    BY <1>2, <1>11
  <2>2. ResponsesShape(s) /\ s.done = next.done
    <3>1. DOMAIN s = DOMAIN next /\ s.items = next.items /\ s.held = <<>> /\ s.done = next.done
      BY <1>4
    <3> HIDE DEF s
    <3>2. AllQuiet(s.held)
      BY <3>1, QuietNone
    <3> QED
      BY <3>1, <3>2 DEF ResponsesShape, AllQuiet
  <2> HIDE DEF s
  <2> QED
    BY <1>8, <1>9, <1>11, <2>1, <2>2, QuietConcat DEF Handle, Reading
<1>12. CASE proto.adapter = "codec" /\ ~next.done
  <2> DEFINE s == [next EXCEPT !.held = held]
  <2>1. Handle(s, events, published)
    BY <1>2, <1>12
  <2>2. ResponsesShape(s) /\ s.done = next.done
    <3>1. DOMAIN s = DOMAIN next /\ s.items = next.items /\ s.held = held /\ s.done = next.done
      BY <1>4
    <3> HIDE DEF s
    <3>2. IsSeq(held) /\ Range(held) \subseteq S
      <4> HIDE DEF S
      <4> QED
        BY <1>6, SeqIsSeq
    <3>3. \A e \in S : Quiet(e) \/ HeadOfItem(next, e)
      BY <1>12 DEF ResponsesShape
    <3>4. \A e : HeadOfItem(next, e) => HeadOfItem(s, e)
      BY <3>1 DEF HeadOfItem
    <3> QED
      BY <3>1, <3>2, <3>3, <3>4 DEF ResponsesShape
  <2> HIDE DEF s
  <2> QED
    BY <1>7, <1>8, <1>9, <1>12, <2>1, <2>2 DEF Handle, Reading
<1> QED
  BY <1>10, <1>11, <1>12

\* Once the provider's terminal event is accepted the validator says so; before, nothing of a
\* tool is let through.
HeldOrCompleted ==
    UNCHANGED <<proto, relay, view>> /\ HeadsAreHeld' /\ (val'.phase = "completed" \/ AllQuiet(out'))

\* An event that leaves the response open submits at most one event, and not the terminal.
LEMMA OpenStep ==
  ASSUME HeadsAreHeld, NEW next, NEW events, NEW yielded, Yield(next, events, yielded),
         ResponsesShape(next), next.held = st.held, next.done = st.done,
         events = <<>> \/ \E e : events = <<e>> /\ e.op \in Operations \ {"finished"},
         IsSeq(yielded), \A e \in Range(yielded) : Quiet(e) \/ HeadOfItem(next, e),
         proto.adapter # "codec" => AllQuiet(yielded)
  PROVE  HeldOrCompleted
<1>1. /\ UNCHANGED <<proto, relay, view>> /\ ~st.done
      /\ val' = ApplyAll(val, events)
      /\ ResponsesShape(st') /\ ~st'.done /\ AllQuiet(out')
  BY YieldQuiet DEF HeadsAreHeld
<1>2. DOMAIN val = DOMAIN NewValidator /\ val.phase # "completed"
  BY <1>1 DEF HeadsAreHeld
<1>3. DOMAIN val' = DOMAIN NewValidator /\ val'.phase # "completed"
  <2>1. CASE events = <<>>
    BY <1>1, <1>2, <2>1, ApplyShort
  <2>2. ASSUME NEW e, events = <<e>>, e.op \in Operations \ {"finished"} 
        PROVE  DOMAIN val' = DOMAIN NewValidator /\ val'.phase # "completed"
    <3>1. val' = Apply(val, e)
      BY <1>1, <2>2, ApplyShort
    <3>2. DOMAIN Apply(val, e) = DOMAIN val /\ Apply(val, e).phase \in {val.phase, "open"}
      BY <1>2, <2>2, ApplyFacts
    <3> QED
      BY <1>2, <3>1, <3>2
  <2> QED
    BY <2>1, <2>2
<1>4. (DOMAIN NewValidator)' = DOMAIN NewValidator
  OBVIOUS
<1> QED
  BY <1>1, <1>3 DEF HeldOrCompleted, HeadsAreHeld, ResponsesShape, HeadOfItem

\* An item grows, but stays what it is.
LEMMA ItemChanges ==
  ASSUME ResponsesShape(st), NEW i \in DOMAIN st.items, NEW x, NEW next,
         next = [st EXCEPT !.items[i] = x],
         "wire" \in DOMAIN x, x.wire = st.items[i].wire
  PROVE  ResponsesShape(next) /\ next.held = st.held /\ next.done = st.done
<1>1. DOMAIN st = {"started", "progressed", "items", "held", "done"}
  BY DEF ResponsesShape, ResponsesInit
<1>2. /\ DOMAIN next = DOMAIN st /\ next.held = st.held /\ next.done = st.done
      /\ next.items = [st.items EXCEPT ![i] = x]
  BY <1>1
<1>3. /\ DOMAIN next.items = DOMAIN st.items
      /\ \A j \in DOMAIN st.items : next.items[j] = IF j = i THEN x ELSE st.items[j]
  BY <1>2
<1>4. \A e : HeadOfItem(st, e) => HeadOfItem(next, e)
  BY <1>3 DEF HeadOfItem
<1> QED
  BY <1>2, <1>3, <1>4 DEF ResponsesShape

\* The shapes of what an open response submits and yields.
LEMMA Submissions ==
  /\ Started.op \in Operations \ {"finished"}
  /\ \A id, index, kind, call : ItemStarted(id, index, kind, call).op \in Operations \ {"finished"}
  /\ \A id, part : /\ PartStarted(id, part).op \in Operations \ {"finished"}
                   /\ TextDelta(id, part).op \in Operations \ {"finished"}
                   /\ PartFinished(id, part).op \in Operations \ {"finished"}
  /\ \A id, text : ArgumentsDelta(id, text).op \in Operations \ {"finished"}
  /\ \A id : ItemFinished(id).op \in Operations \ {"finished"}
  BY DEF Operations, Started, ItemStarted, PartStarted, TextDelta, PartFinished, ArgumentsDelta,
         ItemFinished

\* A step of one item that yields nothing of a tool.
LEMMA ItemStep ==
  ASSUME HeadsAreHeld, NEW i \in DOMAIN st.items, NEW x, NEW next, NEW events, NEW yielded,
         Yield(next, events, yielded), next = [st EXCEPT !.items[i] = x],
         "wire" \in DOMAIN st.items[i] => "wire" \in DOMAIN x /\ x.wire = st.items[i].wire,
         events = <<>> \/ \E e : events = <<e>> /\ e.op \in Operations \ {"finished"},
         AllQuiet(yielded)
  PROVE  HeldOrCompleted
<1>1. "wire" \in DOMAIN st.items[i] /\ ResponsesShape(st)
  BY DEF HeadsAreHeld, ResponsesShape
<1>2. ResponsesShape(next) /\ next.held = st.held /\ next.done = st.done
  BY <1>1, ItemChanges
<1>3. IsSeq(yielded) /\ \A e \in Range(yielded) : Quiet(e)
  BY DEF AllQuiet
<1> QED
  BY <1>2, <1>3, OpenStep

LEMMA ItemStepsQuiet ==
  ASSUME HeadsAreHeld, NEW i
  PROVE  /\ \A piece : ToolArguments(i, piece) => HeldOrCompleted
         /\ ToolArgumentsDone(i) => HeldOrCompleted
         /\ ContentPartAdded(i) => HeldOrCompleted
         /\ \A p, t : OutputTextDelta(i, p, t) => HeldOrCompleted
         /\ \A p : OutputTextDone(i, p) => HeldOrCompleted
         /\ \A p : ContentPartDone(i, p) => HeldOrCompleted
         /\ OutputItemDone(i) => HeldOrCompleted
<1> DEFINE item == st.items[i]
<1>1. ASSUME NEW piece, ToolArguments(i, piece) PROVE HeldOrCompleted
  <2> DEFINE x == [item EXCEPT !.arguments = @ \o piece]
             next == [st EXCEPT !.items[i] = x]
  <2>1. i \in DOMAIN st.items /\ Yield(next, <<>>, <<>>)
    BY <1>1 DEF ToolArguments, OpenItem
  <2>2. "wire" \in DOMAIN item => "wire" \in DOMAIN x /\ x.wire = item.wire
    OBVIOUS
  <2>3. next = [st EXCEPT !.items[i] = x]
    OBVIOUS
  <2> HIDE DEF x, next
  <2> QED
    BY <2>1, <2>2, <2>3, ItemStep, QuietNone
<1>2. ASSUME ToolArgumentsDone(i) PROVE HeldOrCompleted
  <2> DEFINE x == [item EXCEPT !.argumentsDone = TRUE]
             next == [st EXCEPT !.items[i] = x]
  <2>1. i \in DOMAIN st.items /\ Yield(next, <<>>, <<>>)
    BY <1>2 DEF ToolArgumentsDone, OpenItem
  <2>2. "wire" \in DOMAIN item => "wire" \in DOMAIN x /\ x.wire = item.wire
    OBVIOUS
  <2>3. next = [st EXCEPT !.items[i] = x]
    OBVIOUS
  <2> HIDE DEF x, next
  <2> QED
    BY <2>1, <2>2, <2>3, ItemStep, QuietNone
<1>3. ASSUME ContentPartAdded(i) PROVE HeldOrCompleted
  <2> DEFINE p == Len(item.parts) + 1
             x == [item EXCEPT !.parts = Append(@, [text |-> <<>>, textDone |-> FALSE, closed |-> FALSE])]
             next == [st EXCEPT !.items[i] = x]
             e == PartStarted(i, p)
  <2>1. i \in DOMAIN st.items /\ Yield(next, <<e>>, <<PartAdded(i)>>)
    BY <1>3 DEF ContentPartAdded, OpenItem
  <2>2. "wire" \in DOMAIN item => "wire" \in DOMAIN x /\ x.wire = item.wire
    OBVIOUS
  <2>3. next = [st EXCEPT !.items[i] = x]
    OBVIOUS
  <2>4. e.op \in Operations \ {"finished"}
    BY Submissions
  <2>5. AllQuiet(<<PartAdded(i)>>)
    BY QuietEvents, QuietOne
  <2> HIDE DEF x, next, e
  <2> QED
    BY <2>1, <2>2, <2>3, <2>4, <2>5, ItemStep
<1>4. ASSUME NEW p, NEW t, OutputTextDelta(i, p, t) PROVE HeldOrCompleted
  <2> DEFINE x == [item EXCEPT !.parts[p].text = @ \o t]
             next == [st EXCEPT !.items[i] = x]
             e == TextDelta(i, p)
  <2>1. i \in DOMAIN st.items /\ Yield(next, <<e>>, <<Delta(i, p, t)>>)
    BY <1>4 DEF OutputTextDelta, OpenPartOf, OpenItem
  <2>2. "wire" \in DOMAIN item => "wire" \in DOMAIN x /\ x.wire = item.wire
    OBVIOUS
  <2>3. next = [st EXCEPT !.items[i] = x]
    OBVIOUS
  <2>4. e.op \in Operations \ {"finished"}
    BY Submissions
  <2>5. AllQuiet(<<Delta(i, p, t)>>)
    BY QuietEvents, QuietOne
  <2> HIDE DEF x, next, e
  <2> QED
    BY <2>1, <2>2, <2>3, <2>4, <2>5, ItemStep
<1>5. ASSUME NEW p, OutputTextDone(i, p) PROVE HeldOrCompleted
  <2> DEFINE x == [item EXCEPT !.parts[p].textDone = TRUE]
             next == [st EXCEPT !.items[i] = x]
  <2>1. i \in DOMAIN st.items /\ Yield(next, <<>>, <<>>)
    BY <1>5 DEF OutputTextDone, OpenPartOf, OpenItem
  <2>2. "wire" \in DOMAIN item => "wire" \in DOMAIN x /\ x.wire = item.wire
    OBVIOUS
  <2>3. next = [st EXCEPT !.items[i] = x]
    OBVIOUS
  <2> HIDE DEF x, next
  <2> QED
    BY <2>1, <2>2, <2>3, ItemStep, QuietNone
<1>6. ASSUME NEW p, ContentPartDone(i, p) PROVE HeldOrCompleted
  <2> DEFINE x == [item EXCEPT !.parts[p].closed = TRUE]
             next == [st EXCEPT !.items[i] = x]
             e == PartFinished(i, p)
  <2>1. i \in DOMAIN st.items /\ Yield(next, <<e>>, <<>>)
    BY <1>6 DEF ContentPartDone, OpenPartOf, OpenItem
  <2>2. "wire" \in DOMAIN item => "wire" \in DOMAIN x /\ x.wire = item.wire
    OBVIOUS
  <2>3. next = [st EXCEPT !.items[i] = x]
    OBVIOUS
  <2>4. e.op \in Operations \ {"finished"}
    BY Submissions
  <2> HIDE DEF x, next, e
  <2> QED
    BY <2>1, <2>2, <2>3, <2>4, ItemStep, QuietNone
<1>7. ASSUME OutputItemDone(i) PROVE HeldOrCompleted
  <2> DEFINE tool == item.wire \in WireTools
             x == [item EXCEPT !.done = TRUE]
             next == [st EXCEPT !.items[i] = x]
             e == ItemFinished(i)
             events == IF tool THEN <<>> ELSE <<e>>
             yielded == IF tool THEN <<>> ELSE <<Done(i, RestoredItem(item))>>
  <2>1. i \in DOMAIN st.items /\ Yield(next, events, yielded)
    BY <1>7 DEF OutputItemDone, OpenItem
  <2>2. "wire" \in DOMAIN item => "wire" \in DOMAIN x /\ x.wire = item.wire
    OBVIOUS
  <2>3. next = [st EXCEPT !.items[i] = x]
    OBVIOUS
  <2>4. events = <<>> \/ \E d : events = <<d>> /\ d.op \in Operations \ {"finished"}
    BY Submissions
  <2>5. AllQuiet(yielded)
    <3>1. ~tool => RestoredItem(item).kind \notin ToolKinds
      BY <2>1 DEF RestoredItem, HeadsAreHeld, ResponsesShape, WireKinds, Item, ToolKinds
    <3> QED
      BY <3>1, QuietNone, QuietEvents, QuietOne
  <2> HIDE DEF x, next, events, yielded
  <2> QED
    BY <2>1, <2>2, <2>3, <2>4, <2>5, ItemStep
<1> QED
  BY <1>1, <1>2, <1>3, <1>4, <1>5, <1>6, <1>7

LEMMA ItemAddedQuiet ==
  ASSUME HeadsAreHeld, proto \in Protocols, proto.adapter \in {"responses", "codec"},
         NEW i \in 1..MaxItems, NEW wire \in WireKinds, NEW call, ItemAdded(i, wire, call)
  PROVE  HeldOrCompleted
<1> DEFINE tool == wire \in WireTools
           item == [wire |-> wire, call |-> call, parts |-> <<>>, arguments |-> <<>>,
                    argumentsDone |-> FALSE, done |-> FALSE]
           items == Put(st.items, i, item)
           next == [st EXCEPT !.items = items]
           e == ItemStarted(i, i, wire, call)
           head == Added(i, PublicKind(wire), call, TRUE)
           events == IF tool THEN <<>> ELSE <<e>>
           yielded == IF tool /\ ~proto.order THEN <<>> ELSE <<head>>
<1>1. i \notin DOMAIN st.items /\ Yield(next, events, yielded)
  BY DEF ItemAdded
<1>2. ResponsesShape(st) /\ DOMAIN st = {"started", "progressed", "items", "held", "done"}
  BY DEF HeadsAreHeld, ResponsesShape, ResponsesInit
<1>3. "wire" \in DOMAIN item /\ item.wire = wire
  OBVIOUS
<1> HIDE DEF item
<1>4. /\ DOMAIN items = (DOMAIN st.items) \cup {i}
      /\ \A j \in DOMAIN items : items[j] = IF j = i THEN item ELSE st.items[j]
  BY DEF Put
<1> HIDE DEF items
<1>5. DOMAIN next = DOMAIN st /\ next.items = items /\ next.held = st.held /\ next.done = st.done
  BY <1>2
<1> HIDE DEF next
<1>6. ResponsesShape(next)
  <2>1. \A d : HeadOfItem(st, d) => HeadOfItem(next, d)
    BY <1>1, <1>4, <1>5 DEF HeadOfItem
  <2> QED
    BY <1>2, <1>3, <1>4, <1>5, <2>1 DEF ResponsesShape
<1>7. events = <<>> \/ \E d : events = <<d>> /\ d.op \in Operations \ {"finished"}
  BY Submissions
<1>8. ~tool => Quiet(head)
  <2>1. ~tool => PublicKind(wire) \notin ToolKinds
    BY DEF PublicKind, WireKinds, WireTools, ToolKinds
  <2> QED
    BY <2>1, QuietEvents
<1>9. tool => HeadOfItem(next, head)
  BY <1>3, <1>4, <1>5 DEF HeadOfItem, Added
<1>10. proto.adapter # "codec" => ~proto.order
  BY DEF Protocols
<1> HIDE DEF head, tool
<1>11. IsSeq(yielded) /\ \A d \in Range(yielded) : d = head
  <2> DEFINE S == {head}
  <2>0. <<>> \in Seq(S) /\ <<head>> \in Seq(S) /\ \A d \in S : d = head
    OBVIOUS
  <2>1. yielded \in Seq(S) /\ \A d \in S : d = head
    BY <2>0, Zenon
  <2> HIDE DEF S, yielded
  <2> QED
    BY <2>1, SeqIsSeq
<1>12. proto.adapter # "codec" => AllQuiet(yielded)
  BY <1>8, <1>10, QuietNone, QuietOne
<1> HIDE DEF events, yielded
<1>13. \A d \in Range(yielded) : Quiet(d) \/ HeadOfItem(next, d)
  BY <1>8, <1>9, <1>11
<1> QED
  BY <1>1, <1>5, <1>6, <1>7, <1>11, <1>12, <1>13, OpenStep

LEMMA StartQuiet ==
  ASSUME HeadsAreHeld
  PROVE  (ResponseCreated => HeldOrCompleted) /\ (ResponseInProgress => HeldOrCompleted)
<1>0. ResponsesShape(st) /\ DOMAIN st = {"started", "progressed", "items", "held", "done"}
  BY DEF HeadsAreHeld, ResponsesShape, ResponsesInit
<1>1. ASSUME NEW next, DOMAIN next = DOMAIN st, next.items = st.items, next.held = st.held
      PROVE  ResponsesShape(next)
  BY <1>0, <1>1 DEF ResponsesShape, HeadOfItem
<1>2. ASSUME ResponseCreated PROVE HeldOrCompleted
  <2> DEFINE next == [st EXCEPT !.started = TRUE]
             e == Started
  <2>1. Yield(next, <<e>>, <<Created>>)
    BY <1>2 DEF ResponseCreated
  <2>2. DOMAIN next = DOMAIN st /\ next.items = st.items /\ next.held = st.held /\ next.done = st.done
    BY <1>0
  <2>3. e.op \in Operations \ {"finished"}
    BY Submissions
  <2> DEFINE yielded == <<Created>>
  <2>4. AllQuiet(yielded)
    BY QuietEvents, QuietOne
  <2> HIDE DEF next, e, yielded
  <2>5. IsSeq(yielded) /\ \A d \in Range(yielded) : Quiet(d)
    BY <2>4 DEF AllQuiet
  <2> QED
    BY <1>1, <2>1, <2>2, <2>3, <2>4, <2>5, OpenStep DEF yielded
<1>3. ASSUME ResponseInProgress PROVE HeldOrCompleted
  <2> DEFINE next == [st EXCEPT !.progressed = TRUE]
             yielded == <<>>
  <2>1. Yield(next, <<>>, yielded)
    BY <1>3 DEF ResponseInProgress
  <2>2. DOMAIN next = DOMAIN st /\ next.items = st.items /\ next.held = st.held /\ next.done = st.done
    BY <1>0
  <2>4. AllQuiet(yielded)
    BY QuietNone
  <2> HIDE DEF next, yielded
  <2>5. IsSeq(yielded) /\ \A d \in Range(yielded) : Quiet(d)
    BY <2>4 DEF AllQuiet
  <2> QED
    BY <1>1, <2>1, <2>2, <2>4, <2>5, OpenStep
<1> QED
  BY <1>2, <1>3

\* Flattening keeps sequences, whatever they hold.
LEMMA FlattenIsSeq ==
  ASSUME NEW n \in Nat, NEW seqs, seqs = [i \in 1..n |-> seqs[i]], \A i \in 1..n : IsSeq(seqs[i])
  PROVE  IsSeq(FlattenSeq(seqs))
<1> DEFINE S == UNION {Range(seqs[i]) : i \in 1..n}
<1>1. \A i \in 1..n : seqs[i] \in Seq(S)
  <2> SUFFICES ASSUME NEW i \in 1..n PROVE seqs[i] \in Seq(S)
    OBVIOUS
  <2>1. seqs[i] \in Seq(Range(seqs[i])) /\ Range(seqs[i]) \subseteq S
    BY DEF IsSeq
  <2> HIDE DEF S
  <2> QED
    BY <2>1
<1> HIDE DEF S
<1>2. FlattenSeq(seqs) \in Seq(S)
  BY <1>1, FlattenSeqType
<1> QED
  BY <1>2, SeqIsSeq

LEMMA ConcatIsSeq ==
  ASSUME NEW s, NEW x, IsSeq(s)
  PROVE  IsSeq(s \o <<x>>)
<1> DEFINE S == Range(s) \cup {x}
<1>1. s \in Seq(S) /\ x \in S
  BY DEF IsSeq
<1> HIDE DEF S
<1>2. s \o <<x>> \in Seq(S)
  BY <1>1
<1> QED
  BY <1>2, SeqIsSeq

\* The terminal response: completed and accepted, or without a tool.
LEMMA ResponseEndQuiet ==
  ASSUME HeadsAreHeld, NEW status, ResponseEnd(status)
  PROVE  HeldOrCompleted
<1> DEFINE n == Cardinality(DOMAIN st.items)
           output == [i \in 1..n |-> RestoredItem(st.items[i])]
           tool(i) == output[i].kind \in ToolKinds
           next == [st EXCEPT !.done = TRUE]
           submitted == [i \in 1..n |-> IF tool(i) THEN CompleteItem(i, output[i]) ELSE <<>>]
           shown == [i \in 1..n |-> IF tool(i) THEN Emitted(i, output[i]) ELSE <<>>]
           events == FlattenSeq(submitted) \o <<Finished(status)>>
           yielded == FlattenSeq(shown) \o <<End(status, output)>>
<1>1. /\ DOMAIN st.items = 1..n
      /\ ResponsesDecodable(output, status)
      /\ Yield(next, events, yielded)
  BY DEF ResponseEnd
<1>2. ResponsesShape(st) /\ DOMAIN st = {"started", "progressed", "items", "held", "done"}
  BY DEF HeadsAreHeld, ResponsesShape, ResponsesInit
<1>3. n \in Nat
  <2>1. MaxItems \in Nat
    BY LimitsAssumption
  <2>2. IsFiniteSet(1..MaxItems)
    BY <2>1, FS_Interval
  <2>3. IsFiniteSet(DOMAIN st.items)
    BY <1>2, <2>2, FS_Subset DEF ResponsesShape
  <2> QED
    BY <2>3, FS_CardinalityType
<1> HIDE DEF n
<1>4. DOMAIN output = 1..n /\ \A i \in 1..n : output[i] = RestoredItem(st.items[i])
  OBVIOUS
<1> HIDE DEF output
<1>5. /\ DOMAIN next = DOMAIN st /\ next.items = st.items /\ next.held = st.held /\ next.done = TRUE
      /\ ResponsesShape(next)
  <2>1. DOMAIN next = DOMAIN st /\ next.items = st.items /\ next.held = st.held /\ next.done = TRUE
    BY <1>2
  <2> HIDE DEF next
  <2> QED
    BY <1>2, <2>1 DEF ResponsesShape, HeadOfItem
<1> HIDE DEF next
<1>6. submitted = [i \in 1..n |-> submitted[i]] /\ shown = [i \in 1..n |-> shown[i]]
  OBVIOUS
<1>7. IsSeq(yielded)
  <2>1. \A i, item : IsSeq(Emitted(i, item))
    <3> SUFFICES ASSUME NEW i, NEW item PROVE IsSeq(Emitted(i, item))
      OBVIOUS
    <3> DEFINE a == Added(i, item.kind, item.call, TRUE)
               b == Delta(i, 1, item.content[1])
               c == Done(i, item)
               S == {a, b, c}
    <3>1. Emitted(i, item) = <<a, b, c>> \/ Emitted(i, item) = Tail(<<a, b, c>>)
      BY DEF Emitted, ToolEvents
    <3>2. a \in S /\ b \in S /\ c \in S
      OBVIOUS
    <3> HIDE DEF a, b, c, S
    <3>3. <<a, b, c>> \in Seq(S) /\ Tail(<<a, b, c>>) \in Seq(S)
      BY <3>2
    <3>4. Emitted(i, item) \in Seq(S)
      BY <3>1, <3>3
    <3> QED
      BY <3>4, SeqIsSeq
  <2>2. \A i \in 1..n : IsSeq(shown[i])
    BY <2>1, QuietNone DEF AllQuiet
  <2> HIDE DEF shown
  <2>3. IsSeq(FlattenSeq(shown))
    BY <1>3, <1>6, <2>2, FlattenIsSeq
  <2> QED
    BY <2>3, ConcatIsSeq
<1>8. CASE status = "completed"
  <2> DEFINE S == {ItemStarted(i, i, output[i].kind, output[i].call) : i \in 1..n}
                  \cup {ArgumentsDelta(i, output[i].content[1]) : i \in 1..n}
                  \cup {ItemFinished(i) : i \in 1..n}
  <2>1. \A e \in S : e.op \in Operations
    BY Submissions
  <2>2. ASSUME NEW i \in 1..n PROVE submitted[i] \in Seq(S)
    <3> DEFINE a == ItemStarted(i, i, output[i].kind, output[i].call)
               b == ArgumentsDelta(i, output[i].content[1])
               c == ItemFinished(i)
    <3>1. tool(i) => CompleteItem(i, output[i]) = <<a>> \o <<b>> \o <<c>>
      BY DEF CompleteItem
    <3>2. a \in S /\ b \in S /\ c \in S
      OBVIOUS
    <3> HIDE DEF a, b, c, S
    <3>3. <<a>> \o <<b>> \o <<c>> \in Seq(S) /\ <<>> \in Seq(S)
      BY <3>2
    <3> QED
      BY <3>1, <3>3, Zenon
  <2> HIDE DEF S, submitted
  <2>3. FlattenSeq(submitted) \in Seq(S)
    BY <1>3, <1>6, <2>2, FlattenSeqType
  <2> HIDE DEF yielded
  <2>4. /\ UNCHANGED <<proto, relay, view>> /\ ~st.done
        /\ ApplyAll(val, events).ok /\ val' = ApplyAll(val, events)
        /\ ResponsesShape(st') /\ st'.done = TRUE
    BY <1>1, <1>2, <1>5, <1>7, YieldQuiet
  <2>5. DOMAIN val = DOMAIN NewValidator
    BY <2>4 DEF HeadsAreHeld
  <2>6. val'.phase = status
    BY <2>1, <2>3, <2>4, <2>5, ApplyTerminal
  <2> QED
    BY <1>8, <2>4, <2>6 DEF HeldOrCompleted, HeadsAreHeld, ResponsesShape, HeadOfItem
<1>9. CASE status # "completed"
  <2>1. \A i \in 1..n : ~tool(i)
    BY <1>1, <1>3, <1>4, <1>9, NoTools DEF ResponsesDecodable
  <2>2. \A i \in 1..n : shown[i] = <<>>
    BY <2>1
  <2>3. AllQuiet(FlattenSeq(shown))
    <3> HIDE DEF shown
    <3> QED
      BY <1>3, <1>6, <2>2, QuietNone, QuietFlatten
  <2>4. AllQuiet(yielded)
    BY <1>9, <2>3, QuietEvents, QuietOne, QuietConcat
  <2>5. ASSUME NEW e, HeadOfItem(st, e) PROVE FALSE
    <3>1. e.i \in 1..n /\ st.items[e.i].wire \in WireTools
      BY <1>1, <2>5 DEF HeadOfItem
    <3>2. RestoredItem(st.items[e.i]).kind \in ToolKinds
      BY <3>1 DEF RestoredItem, WireTools, Item, ToolItem, PublicKind, ToolKinds
    <3> QED
      BY <1>4, <2>1, <3>1, <3>2
  <2>6. AllQuiet(st.held)
    BY <1>2, <2>5 DEF ResponsesShape, AllQuiet
  <2> HIDE DEF yielded, events
  <2>7. /\ UNCHANGED <<proto, relay, view>>
        /\ ResponsesShape(st') /\ st'.done = TRUE /\ AllQuiet(out')
    BY <1>1, <1>2, <1>5, <1>7, <2>4, <2>6, YieldQuiet
  <2> QED
    BY <2>7 DEF HeldOrCompleted, HeadsAreHeld, ResponsesShape, HeadOfItem
<1> QED
  BY <1>8, <1>9

\* Every event of a checked Responses stream, built in or verified behind a codec.
LEMMA ResponsesQuiet ==
  ASSUME HeadsAreHeld, proto \in Protocols, proto.adapter \in {"responses", "codec"}, ResponsesNext
  PROVE  HeldOrCompleted
<1>1. ASSUME NEW i \in 1..MaxItems, NEW wire \in {"message", "reasoning"}, ItemAdded(i, wire, None)
      PROVE  HeldOrCompleted
  BY <1>1, ItemAddedQuiet DEF WireKinds
<1>2. ASSUME NEW i \in 1..MaxItems, NEW wire \in WireTools, NEW call, ItemAdded(i, wire, call)
      PROVE  HeldOrCompleted
  BY <1>2, ItemAddedQuiet DEF WireKinds
<1> QED
  BY <1>1, <1>2, StartQuiet, ItemStepsQuiet, ResponseEndQuiet DEF ResponsesNext

-----------------------------------------------------------------------------
(* The relay.                                                              *)

\* A provider event is read by an open relay, and changes neither the route nor the relay.
LEMMA ConvertReads ==
  ASSUME Convert
  PROVE  relay = "reading" /\ UNCHANGED <<proto, request, relay, view>>
<1> DEFINE Reads == relay = "reading" /\ UNCHANGED <<proto, request, relay, view>>
<1>0. \A next, events, yielded : Handle(next, events, yielded) => Reads
  BY DEF Handle, Reading
<1>a. \A next, events, yielded : Yield(next, events, yielded) => Reads
  BY <1>0 DEF Yield
<1> HIDE DEF Reads
<1>1. ChatNext => Reads
  BY <1>0, ZenonT(30) DEF ChatNext, ChatText, ChatTool, ChatFinish, ChatUsage, ChatDone
<1>2. MessagesNext => Reads
  BY <1>0, Zenon DEF MessagesNext, MessageStart, StartBlock, StopBlock, DeltaBlock, MessageDelta, MessageStop
<1>3. ResponsesNext => Reads
  BY <1>a, ZenonT(30) DEF ResponsesNext, ResponseCreated, ResponseInProgress, ItemAdded, ToolArguments,
     ToolArgumentsDone, ContentPartAdded, OutputTextDelta, OutputTextDone, ContentPartDone,
     OutputItemDone, ResponseEnd
<1>4. PluginNext => Reads
  BY <1>0, Zenon DEF PluginNext, PluginCreated, PluginItem, PluginPart, PluginText, PluginComplete, PluginFinish
<1>5. NativeChatNext => Reads
  <2>1. \A s, summaries : NativeChatChunk(s, summaries) => Reads
    BY <1>0 DEF NativeChatChunk
  <2>2. \A s : Chunk(s) => Reads
    BY <2>1 DEF Chunk
  <2>3. \A t : NativeChatText(t) \/ NativeChatFlat(t) => Reads
    BY <2>2, Zenon DEF NativeChatText, NativeChatFlat
  <2>4. \A i, type, text : NativeChatDetail(i, type, text) => Reads
    BY <2>2, SMT DEF NativeChatDetail
  <2>5. \A i, call, kind, piece : NativeChatTool(i, call, kind, piece) => Reads
    BY <2>2, ZenonT(30) DEF NativeChatTool
  <2>6. \A reason : NativeChatIdentity \/ NativeChatFinish(reason) \/ NativeChatDone => Reads
    BY <2>1, <2>2, Zenon DEF NativeChatIdentity, NativeChatFinish, NativeChatDone
  <2> QED
    BY <2>3, <2>4, <2>5, <2>6, Zenon DEF NativeChatNext
<1>6. NativeMessagesNext => Reads
  BY <1>0, Zenon DEF NativeMessagesNext, NativeMessageStart, NativeBlock, NativeDelta, NativeSignature,
     NativeStop, NativeMessageDelta, NativeMessageStop
<1>7. InteractionsNext => Reads
  BY <1>0, Zenon DEF InteractionsNext, InteractionCreated, InteractionStatus, StepStart, StepText,
     StepArguments, StepSignature, StepStop, InteractionCompleted, InteractionDone
<1> QED
  BY <1>1, <1>2, <1>3, <1>4, <1>5, <1>6, <1>7 DEF Convert, Reads

\* The verdict on a managed response is about what the adapter has kept.
LEMMA VerdictStays ==
  ASSUME UNCHANGED <<proto, request, st>>
  PROVE  ManagedDecodable' <=> ManagedDecodable
<1>1. NativeChatDecodable' <=> NativeChatDecodable
  BY DEF NativeChatDecodable, DetailsValid, ChatDecodable, ChatTerminal, CountAllowed, Resolves, ChatStatus
<1>2. NativeMessagesDecodable' <=> NativeMessagesDecodable
  BY DEF NativeMessagesDecodable, MessagesTerminal, CountAllowed, NativeMessagesOutput, MessagesStatus
<1>3. InteractionsDecodable' <=> InteractionsDecodable
  BY DEF InteractionsDecodable, CountAllowed, Resolves, InteractionsOutput
<1> QED
  BY <1>1, <1>2, <1>3 DEF ManagedDecodable

\* A decision of an adapter that is not managed does not depend on the relay.
LEMMA DecisionStays ==
  ASSUME UNCHANGED <<proto, request, st, val>>, proto \in Protocols, ToolsDecided,
         relay' = relay \/ relay' # "reading"
  PROVE  ToolsDecided'
<1>1. ManagedDecodable' <=> ManagedDecodable
  BY VerdictStays
<1> QED
  BY <1>1 DEF ToolsDecided

LEMMA HeldInit ==
  ASSUME RelayInit
  PROVE  HeldInv
<1>1. proto \in Protocols /\ relay = "reading" /\ st = AdapterInit(proto) /\ val = NewValidator
  BY DEF RelayInit
<1>2. NothingOfTools
  BY QuietNone DEF RelayInit, NothingOfTools, ViewQuiet
<1>3. proto.adapter \in {"responses", "codec"} => HeadsAreHeld
  <2> SUFFICES ASSUME proto.adapter \in {"responses", "codec"} PROVE HeadsAreHeld
    OBVIOUS
  <2>1. st = ResponsesInit
    BY <1>1 DEF AdapterInit
  <2>2. /\ DOMAIN st = DOMAIN ResponsesInit /\ st.items = <<>> /\ st.held = <<>>
    BY <2>1 DEF ResponsesInit
  <2>3. AllQuiet(st.held)
    BY <2>2, QuietNone
  <2>4. ResponsesShape(st)
    BY <2>2, <2>3 DEF ResponsesShape, AllQuiet
  <2>5. DOMAIN val = DOMAIN NewValidator /\ val.phase # "completed"
    BY <1>1 DEF NewValidator
  <2> QED
    BY <2>4, <2>5 DEF HeadsAreHeld
<1>4. proto.adapter \in {"provider", "managed_provider"} => PublishedItems
  <2> DEFINE X == [kind : {"message", "reasoning"}, parts : Seq(Seq(Tokens))]
  <2>1. proto.adapter \in {"provider", "managed_provider"} => st.items = <<>> /\ st.status = None /\ st.done = FALSE
    BY <1>1 DEF AdapterInit, PluginInit
  <2>2. <<>> \in Seq(X)
    OBVIOUS
  <2> QED
    BY <2>1, <2>2, OutcomeAssumption DEF PublishedItems
<1>5. proto.adapter = "managed_chat" => st.details = None
  BY <1>1 DEF AdapterInit, NativeChatInit
<1> QED
  BY <1>1, <1>2, <1>3, <1>4, <1>5 DEF HeldInv, AdapterShape

\* One provider event, whatever the adapter.
LEMMA ConvertHolds ==
  ASSUME HeldInv, Convert
  PROVE  HeldInv'
<1>1. relay = "reading" /\ UNCHANGED <<proto, request, relay, view>>
  BY ConvertReads
<1>2. proto \in Protocols /\ AdapterShape /\ (ToolsDecided \/ NothingOfTools)
  BY <1>1 DEF HeldInv
<1>3. proto' \in Protocols' /\ relay' \in {"reading", "finalized", "closed", "cut"}
  BY <1>1, <1>2 DEF Protocols
<1>4. SUFFICES AdapterShape' /\ (ToolsDecided' \/ NothingOfTools')
  BY <1>3 DEF HeldInv
<1>5. AllQuiet(out') /\ ViewQuiet(view) => NothingOfTools'
  BY <1>1 DEF NothingOfTools, AllQuiet, IsSeq, Quiet, ViewQuiet, Range
<1>6. CASE proto.adapter = "chat" /\ ChatNext
  <2>1. DOMAIN st = DOMAIN ChatInit
    BY <1>2, <1>6 DEF AdapterShape, AdapterInit
  <2>2. /\ DOMAIN st' = DOMAIN st
        /\ st.finish # None => st'.finish # None
        /\ st'.finish # None \/ AllQuiet(out')
    BY <1>6, <2>1, ChatQuiet
  <2>3. AdapterShape'
    BY <1>1, <1>6, <2>1, <2>2 DEF AdapterShape, AdapterInit, Managed
  <2>4. ToolsDecided' \/ NothingOfTools'
    BY <1>1, <1>2, <1>5, <1>6, <2>2 DEF ToolsDecided, NothingOfTools
  <2> QED
    BY <2>3, <2>4
<1>7. CASE proto.adapter = "messages"
  BY <1>1, <1>7 DEF AdapterShape, Managed, ToolsDecided
<1>8. CASE proto.adapter \in {"responses", "codec"} /\ ResponsesNext
  <2>1. HeadsAreHeld /\ DOMAIN st = DOMAIN ResponsesInit
    BY <1>2, <1>8 DEF AdapterShape, AdapterInit
  <2>2. HeadsAreHeld' /\ (val'.phase = "completed" \/ AllQuiet(out'))
    BY <1>2, <1>8, <2>1, ResponsesQuiet DEF HeldOrCompleted
  <2>3. DOMAIN st' = DOMAIN ResponsesInit
    BY <2>2 DEF HeadsAreHeld, ResponsesShape
  <2>4. AdapterShape'
    BY <1>1, <1>8, <2>2, <2>3 DEF AdapterShape, AdapterInit, Managed
  <2>5. ToolsDecided => ~(~st.done)
    BY <1>8, <2>1 DEF ToolsDecided, HeadsAreHeld
  <2>6. ~st.done
    <3>0. \A next, events, yielded : Handle(next, events, yielded) => ~st.done
      BY DEF Handle, Reading
    <3>a. \A next, events, yielded : Yield(next, events, yielded) => ~st.done
      BY <3>0 DEF Yield
    <3> QED
      BY <1>8, <3>a, ZenonT(30) DEF ResponsesNext, ResponseCreated, ResponseInProgress, ItemAdded,
         ToolArguments, ToolArgumentsDone, ContentPartAdded, OutputTextDelta, OutputTextDone,
         ContentPartDone, OutputItemDone, ResponseEnd
  <2>7. ToolsDecided' \/ NothingOfTools'
    BY <1>1, <1>2, <1>5, <1>8, <2>2, <2>5, <2>6 DEF ToolsDecided, NothingOfTools
  <2> QED
    BY <2>4, <2>7
<1>9. CASE proto.adapter \in {"provider", "managed_provider"} /\ PluginNext
  <2>1. DOMAIN st = DOMAIN PluginInit
    BY <1>2, <1>9 DEF AdapterShape, AdapterInit
  <2>2. /\ DOMAIN st' = DOMAIN st
        /\ proto.adapter # "provider" => AllQuiet(out')
        /\ PublishedItems =>
              PublishedItems' /\ (proto.adapter = "provider" => st'.status = "completed" \/ AllQuiet(out'))
    BY <1>9, <2>1, PluginQuiet
  <2>3. AdapterShape'
    BY <1>1, <1>2, <1>9, <2>1, <2>2 DEF AdapterShape, AdapterInit, Managed
  <2>4. ~st.done
    BY <1>9, Zenon DEF PluginNext, PluginCreated, PluginItem, PluginPart, PluginText, PluginComplete,
       PluginFinish, Handle, Reading
  <2>5. ToolsDecided' \/ NothingOfTools'
    BY <1>1, <1>2, <1>5, <1>9, <2>2, <2>4 DEF ToolsDecided, NothingOfTools, AdapterShape, PublishedItems
  <2> QED
    BY <2>3, <2>5
<1>10. CASE proto.adapter = "managed_chat" /\ NativeChatNext
  <2>1. NativeChatShape(st)
    BY <1>2, <1>10 DEF AdapterShape, AdapterInit, NativeChatShape
  <2>2. NativeChatShape(st') /\ AllQuiet(out')
    BY <1>10, <2>1, NativeChatQuiet
  <2>3. AdapterShape'
    BY <1>1, <1>10, <2>2 DEF AdapterShape, AdapterInit, Managed, NativeChatShape, IsSeq, Range
  <2>4. NothingOfTools'
    BY <1>1, <1>2, <1>5, <1>10, <2>2 DEF ToolsDecided, NothingOfTools
  <2> QED
    BY <2>3, <2>4
<1>11. CASE proto.adapter = "managed_messages" /\ NativeMessagesNext
  <2>1. DOMAIN st = DOMAIN NativeMessagesInit
    BY <1>2, <1>11 DEF AdapterShape, AdapterInit
  <2>2. DOMAIN st' = DOMAIN st /\ AllQuiet(out')
    BY <1>11, <2>1, NativeMessagesQuiet
  <2>3. AdapterShape'
    BY <1>1, <1>11, <2>1, <2>2 DEF AdapterShape, AdapterInit, Managed
  <2>4. NothingOfTools'
    BY <1>1, <1>2, <1>5, <1>11, <2>2 DEF ToolsDecided, NothingOfTools
  <2> QED
    BY <2>3, <2>4
<1>12. CASE proto.adapter = "interactions" /\ InteractionsNext
  <2>1. DOMAIN st = DOMAIN InteractionsInit
    BY <1>2, <1>12 DEF AdapterShape, AdapterInit
  <2>2. DOMAIN st' = DOMAIN st /\ AllQuiet(out')
    BY <1>12, <2>1, InteractionsQuiet
  <2>3. AdapterShape'
    BY <1>1, <1>12, <2>1, <2>2 DEF AdapterShape, AdapterInit, Managed
  <2>4. NothingOfTools'
    BY <1>1, <1>2, <1>5, <1>12, <2>2 DEF ToolsDecided, NothingOfTools
  <2> QED
    BY <2>3, <2>4
<1> QED
  BY <1>6, <1>7, <1>8, <1>9, <1>10, <1>11, <1>12 DEF Convert

\* The steps of the relay itself leave the adapter alone.
LEMMA ShapeStays ==
  ASSUME UNCHANGED <<proto, st, val>>, AdapterShape, Managed /\ relay' # "reading" => ToolsDecided'
  PROVE  AdapterShape'
  BY DEF AdapterShape, Managed, AdapterInit, HeadsAreHeld, ResponsesShape, HeadOfItem, PublishedItems,
         IsSeq, Range, Quiet

LEMMA HeldStep ==
  ASSUME HeldInv, [RelayNext]_svars
  PROVE  HeldInv'
<1>1. CASE Convert
  BY <1>1, ConvertHolds
<1>2. CASE Deliver
  <2>1. /\ UNCHANGED <<proto, request, st, val, relay>> /\ relay # "cut" /\ out # <<>>
        /\ view' = Received(view, Head(out)) /\ out' = Tail(out)
    BY <1>2 DEF Deliver
  <2>2. proto \in Protocols /\ AdapterShape /\ (ToolsDecided \/ NothingOfTools)
    BY <2>1 DEF HeldInv
  <2>3. ToolsDecided => ToolsDecided'
    BY <2>1, <2>2, DecisionStays
  <2>4. NothingOfTools => NothingOfTools'
    <3>1. NothingOfTools => ViewQuiet(Received(view, Head(out))) /\ AllQuiet(Tail(out))
      BY <2>1, QuietSplit, ReceivedQuiet DEF NothingOfTools
    <3> QED
      BY <2>1, <3>1 DEF NothingOfTools, ViewQuiet, AllQuiet, IsSeq, Range, Quiet
  <2>5. AdapterShape'
    <3>1. Managed /\ relay' # "reading" => ToolsDecided'
      BY <2>1, <2>2, <2>3 DEF AdapterShape, Managed
    <3> QED
      BY <2>1, <2>2, <3>1, ShapeStays
  <2> QED
    BY <2>1, <2>2, <2>3, <2>4, <2>5 DEF HeldInv, Protocols
<1>3. CASE Finalize
  <2>1. /\ UNCHANGED <<proto, request, st, val, view>> /\ relay' = "finalized" /\ relay = "reading"
        /\ Managed /\ st.done /\ ManagedDecodable
    BY <1>3 DEF Finalize
  <2>2. proto \in Protocols /\ AdapterShape
    BY <2>1 DEF HeldInv
  <2>3. ToolsDecided'
    BY <2>1, <2>2, VerdictStays DEF ToolsDecided, Managed
  <2>4. AdapterShape'
    BY <2>1, <2>2, <2>3, ShapeStays
  <2> QED
    BY <2>1, <2>2, <2>3, <2>4 DEF HeldInv, Protocols
<1>4. CASE Close
  <2>1. /\ UNCHANGED <<proto, request, st, val, out, view>> /\ relay' = "closed"
        /\ relay = IF Managed THEN "finalized" ELSE "reading"
    BY <1>4 DEF Close
  <2>2. proto \in Protocols /\ AdapterShape /\ (ToolsDecided \/ NothingOfTools)
    BY <2>1 DEF HeldInv
  <2>3. Managed => ToolsDecided
    BY <2>1, <2>2 DEF AdapterShape
  <2>4. ToolsDecided => ToolsDecided'
    BY <2>1, <2>2, DecisionStays
  <2>5. NothingOfTools => NothingOfTools'
    BY <2>1 DEF NothingOfTools, ViewQuiet, AllQuiet, IsSeq, Range, Quiet
  <2>6. AdapterShape'
    BY <2>1, <2>2, <2>3, <2>4, ShapeStays
  <2> QED
    BY <2>1, <2>2, <2>4, <2>5, <2>6 DEF HeldInv, Protocols
<1>5. CASE Cut
  BY <1>5 DEF Cut, HeldInv, Protocols
<1>6. CASE UNCHANGED svars
  <2>1. UNCHANGED <<proto, request, st, val, out, relay, view>>
    BY <1>6 DEF svars
  <2>2. proto' \in Protocols /\ relay' \in {"reading", "finalized", "closed", "cut"}
    BY <2>1 DEF HeldInv
  <2>3. ASSUME relay # "cut" PROVE AdapterShape' /\ (ToolsDecided' \/ NothingOfTools')
    <3>1. proto \in Protocols /\ AdapterShape /\ (ToolsDecided \/ NothingOfTools)
      BY <2>3 DEF HeldInv
    <3>2. ToolsDecided => ToolsDecided'
      BY <2>1, <3>1, DecisionStays
    <3>3. NothingOfTools => NothingOfTools'
      BY <2>1 DEF NothingOfTools, ViewQuiet, AllQuiet, IsSeq, Range, Quiet
    <3>4. Managed /\ relay' # "reading" => ToolsDecided'
      BY <2>1, <3>1, <3>2 DEF AdapterShape
    <3>5. AdapterShape'
      BY <2>1, <3>1, <3>4, ShapeStays
    <3> QED
      BY <3>1, <3>2, <3>3, <3>5
  <2> QED
    BY <2>1, <2>2, <2>3 DEF HeldInv, Protocols
<1> QED
  BY <1>1, <1>2, <1>3, <1>4, <1>5, <1>6 DEF RelayNext

-----------------------------------------------------------------------------
(* Theorem: tools are held until they are decided.                         *)

\* A client that has not been shown a tool has nothing of one.
LEMMA HeldIsEnough ==
  ASSUME HeldInv
  PROVE  ToolsAreHeld
<1> SUFFICES ASSUME relay # "cut", NEW i \in DOMAIN view.items, ~ToolsDecided
             PROVE  i \notin DoneTools /\ view.items[i].kind \notin ToolKinds
  BY DEF ToolsAreHeld
<1>1. ViewQuiet(view)
  BY DEF HeldInv, NothingOfTools
<1> QED
  BY <1>1 DEF ViewQuiet, DoneTools

\* Whatever a provider, a codec or a plugin interleaves, on every adapter but stateless Messages
\* the client sees no argument of a tool and no finished tool before the provider's terminal event
\* has been validated: adapters/chat/stream.rs flushes calls with the finish reason,
\* adapters/responses/stream.rs emits tools with the terminal response and codecs/execution.rs holds
\* their heads until then, managed streams publish calls only from the decoded response
\* (proxy_managed.rs).  For all limits, texts, call identifiers and request rules.
THEOREM ToolsHeldUntilDecided == RelaySpec => []ToolsAreHeld
<1>1. RelayInit => HeldInv
  BY HeldInit
<1>2. HeldInv /\ [RelayNext]_svars => HeldInv'
  BY HeldStep
<1>3. HeldInv => ToolsAreHeld
  BY HeldIsEnough
<1> QED
  BY <1>1, <1>2, <1>3, PTL DEF RelaySpec

-----------------------------------------------------------------------------
(* Sequences put together, for the calls a client may execute.             *)

\* Where each element of a flattened sequence comes from: block b, place p.  Order is kept.
Placed(seqs, n, s, b, p) ==
    /\ \A x \in DOMAIN s : b[x] \in 1..n /\ p[x] \in DOMAIN seqs[b[x]] /\ s[x] = seqs[b[x]][p[x]]
    /\ \A x, y \in DOMAIN s : x < y => b[x] < b[y] \/ (b[x] = b[y] /\ p[x] < p[y])

\* The first n sequences one after the other.
Joins(seqs, n, s) ==
    /\ IsSeq(s)
    /\ \E b, p : Placed(seqs, n, s, b, p)
    /\ \A i \in 1..n : \A k \in DOMAIN seqs[i] : \E x \in DOMAIN s : s[x] = seqs[i][k]

\* How a concatenation is indexed.
LEMMA ConcatPlaces ==
  ASSUME NEW s, NEW t, IsSeq(s), IsSeq(t)
  PROVE  /\ IsSeq(s \o t) /\ DOMAIN s = 1..Len(s) /\ DOMAIN t = 1..Len(t)
         /\ Len(s) \in Nat /\ Len(t) \in Nat
         /\ DOMAIN (s \o t) = 1..(Len(s) + Len(t))
         /\ \A x \in 1..Len(s) : (s \o t)[x] = s[x]
         /\ \A x \in 1..Len(t) : (s \o t)[Len(s) + x] = t[x]
         /\ \A x \in DOMAIN (s \o t) : x \notin DOMAIN s =>
               x - Len(s) \in DOMAIN t /\ (s \o t)[x] = t[x - Len(s)]
<1> DEFINE S == Range(s) \cup Range(t)
<1>1. s \in Seq(S) /\ t \in Seq(S)
  BY DEF IsSeq
<1> HIDE DEF S
<1>2. s \o t \in Seq(S)
  BY <1>1
<1>3. IsSeq(s \o t)
  BY <1>2, SeqIsSeq
<1>4. /\ DOMAIN s = 1..Len(s) /\ DOMAIN t = 1..Len(t)
      /\ Len(s) \in Nat /\ Len(t) \in Nat
      /\ DOMAIN (s \o t) = 1..(Len(s) + Len(t))
  BY <1>1
<1>5. \A x \in 1..(Len(s) + Len(t)) : (s \o t)[x] = IF x <= Len(s) THEN s[x] ELSE t[x - Len(s)]
  BY <1>1
<1> QED
  BY <1>3, <1>4, <1>5

LEMMA JoinNext ==
  ASSUME NEW seqs, NEW n \in Nat, NEW s, Joins(seqs, n, s), IsSeq(seqs[n + 1])
  PROVE  Joins(seqs, n + 1, s \o seqs[n + 1])
<1> DEFINE t == seqs[n + 1]
           u == s \o t
<1>1. PICK b, p : Placed(seqs, n, s, b, p)
  BY DEF Joins
<1> DEFINE c == [x \in DOMAIN u |-> IF x \in DOMAIN s THEN b[x] ELSE n + 1]
           q == [x \in DOMAIN u |-> IF x \in DOMAIN s THEN p[x] ELSE x - Len(s)]
<1>0. IsSeq(s)
  BY DEF Joins
<1>2. /\ IsSeq(u) /\ DOMAIN s = 1..Len(s) /\ DOMAIN t = 1..Len(t)
      /\ Len(s) \in Nat /\ Len(t) \in Nat
      /\ DOMAIN u = 1..(Len(s) + Len(t))
      /\ \A x \in 1..Len(s) : u[x] = s[x]
      /\ \A x \in 1..Len(t) : u[Len(s) + x] = t[x]
      /\ \A x \in DOMAIN u : x \notin DOMAIN s => x - Len(s) \in DOMAIN t /\ u[x] = t[x - Len(s)]
  BY <1>0, ConcatPlaces
<1> HIDE DEF u, t
<1>3. ASSUME NEW x \in DOMAIN u
      PROVE  c[x] \in 1..(n + 1) /\ q[x] \in DOMAIN seqs[c[x]] /\ u[x] = seqs[c[x]][q[x]]
  <2>1. CASE x \in DOMAIN s
    BY <1>1, <1>2, <2>1 DEF Placed
  <2>2. CASE x \notin DOMAIN s
    BY <1>2, <2>2 DEF t
  <2> QED
    BY <2>1, <2>2
<1>4. ASSUME NEW x \in DOMAIN u, NEW y \in DOMAIN u, x < y
      PROVE  c[x] < c[y] \/ (c[x] = c[y] /\ q[x] < q[y])
  <2>1. CASE y \in DOMAIN s
    <3>1. x \in DOMAIN s
      BY <1>2, <1>4, <2>1
    <3> QED
      BY <1>1, <1>4, <2>1, <3>1 DEF Placed
  <2>2. CASE x \in DOMAIN s /\ y \notin DOMAIN s
    <3>1. b[x] \in 1..n
      BY <1>1, <2>2 DEF Placed
    <3> QED
      BY <2>2, <3>1
  <2>3. CASE x \notin DOMAIN s /\ y \notin DOMAIN s
    BY <1>2, <1>4, <2>3
  <2> QED
    BY <2>1, <2>2, <2>3
<1>5. Placed(seqs, n + 1, u, c, q)
  <2> HIDE DEF c, q
  <2> QED
    BY <1>3, <1>4 DEF Placed
<1>6. ASSUME NEW i \in 1..(n + 1), NEW k \in DOMAIN seqs[i] PROVE \E x \in DOMAIN u : u[x] = seqs[i][k]
  <2>1. CASE i \in 1..n
    <3>1. PICK x \in DOMAIN s : s[x] = seqs[i][k]
      BY <2>1 DEF Joins
    <3> QED
      BY <1>2, <3>1
  <2>2. CASE i = n + 1
    <3>1. k \in 1..Len(t)
      BY <1>2, <2>2 DEF t
    <3>2. Len(s) + k \in DOMAIN u /\ u[Len(s) + k] = t[k]
      BY <1>2, <3>1
    <3> QED
      BY <2>2, <3>2 DEF t
  <2> QED
    BY <2>1, <2>2
<1> QED
  BY <1>2, <1>5, <1>6 DEF Joins, u, t

\* FlattenSeq puts its sequences one after the other.
LEMMA FlattenJoins ==
  ASSUME NEW n \in Nat, NEW seqs, seqs = [i \in 1..n |-> seqs[i]], \A i \in 1..n : IsSeq(seqs[i])
  PROVE  Joins(seqs, n, FlattenSeq(seqs))
<1> DEFINE e == <<>>
<1>0. IsSeq(e) /\ DOMAIN e = {} /\ Len(seqs) = n
  BY DEF IsSeq, Range
<1> HIDE DEF e
<1>1. Joins(seqs, 0, e)
  <2>1. Placed(seqs, 0, e, e, e)
    BY <1>0 DEF Placed
  <2>2. \E b, p : Placed(seqs, 0, e, b, p)
    BY <2>1, Zenon
  <2>3. 1..0 = {}
    OBVIOUS
  <2> QED
    BY <1>0, <2>2, <2>3, Zenon DEF Joins
<1>2. CASE n = 0
  <2>1. seqs = <<>>
    BY <1>0, <1>2
  <2>2. FlattenSeq(seqs) = e
    BY <1>0, <1>2, <2>1 DEF FlattenSeq, e
  <2> QED
    BY <1>1, <1>2, <2>2
<1>3. CASE n # 0
  <2> DEFINE f == CHOOSE f : Flattens(seqs, n, f)
  <2>1. Flattens(seqs, n, f)
    BY FlatteningExists
  <2>2. FlattenSeq(seqs) = f[n]
    BY <1>0, <1>3 DEF FlattenSeq, Flattens
  <2> HIDE DEF f
  <2>3. \A k \in 1..n : f[k] = IF k = 1 THEN seqs[k] ELSE f[k - 1] \o seqs[k]
    BY <2>1 DEF Flattens
  <2> DEFINE Bad == {k \in 1..n : ~Joins(seqs, k, f[k])}
  <2>4. Bad = {}
    <3> SUFFICES ASSUME Bad # {} PROVE FALSE
      OBVIOUS
    <3>0. Bad \in SUBSET Nat
      OBVIOUS
    <3>1. PICK k \in Bad : \A j \in Bad : k <= j
      BY <3>0, LeastPlace
    <3>2. CASE k = 1
      <4> DEFINE z == 0
      <4>0. z \in Nat /\ z + 1 = 1 /\ IsSeq(seqs[z + 1]) /\ Joins(seqs, z, e)
        BY <1>1, <1>3
      <4> HIDE DEF z
      <4>1. Joins(seqs, z + 1, e \o seqs[z + 1])
        BY <4>0, JoinNext
      <4>2. e \o seqs[1] = seqs[1]
        BY <4>0 DEF e, IsSeq
      <4>3. f[k] = seqs[1]
        BY <2>3, <3>1, <3>2
      <4>4. Joins(seqs, k, f[k])
        BY <3>2, <4>0, <4>1, <4>2, <4>3
      <4> QED
        BY <3>1, <4>4
    <3>3. CASE k # 1
      <4>0. k \in 1..n
        BY <3>1
      <4>1. k - 1 \in 1..n /\ k - 1 \in Nat /\ k - 1 \notin Bad /\ (k - 1) + 1 = k
        <5> HIDE DEF Bad
        <5> QED
          BY <3>1, <3>3, <4>0
      <4>2. Joins(seqs, k - 1, f[k - 1])
        BY <4>1
      <4> DEFINE m == k - 1
      <4>3. Joins(seqs, m + 1, f[m] \o seqs[m + 1])
        <5>1. m \in Nat /\ Joins(seqs, m, f[m]) /\ IsSeq(seqs[m + 1])
          BY <4>1, <4>2
        <5> HIDE DEF m
        <5> QED
          BY <5>1, JoinNext
      <4> QED
        BY <2>3, <3>1, <3>3, <4>1, <4>3
    <3> QED
      BY <3>2, <3>3
  <2>5. n \in 1..n
    BY <1>3
  <2>6. Joins(seqs, n, f[n])
    BY <2>4, <2>5
  <2> QED
    BY <2>2, <2>6
<1> QED
  BY <1>2, <1>3

\* Kept keeps the order of what it picks, and all of it.
LEMMA KeptJoins ==
  ASSUME NEW s, IsSeq(s), NEW places
  PROVE  /\ IsSeq(Kept(s, places))
         /\ \E b : /\ \A x \in DOMAIN Kept(s, places) :
                         b[x] \in DOMAIN s /\ b[x] \in places /\ Kept(s, places)[x] = s[b[x]]
                   /\ \A x, y \in DOMAIN Kept(s, places) : x < y => b[x] < b[y]
         /\ \A k \in DOMAIN s : k \in places => \E x \in DOMAIN Kept(s, places) : Kept(s, places)[x] = s[k]
<1> DEFINE n == Len(s)
           seqs == [k \in DOMAIN s |-> IF k \in places THEN <<s[k]>> ELSE <<>>]
           t == Kept(s, places)
<1>1. DOMAIN s = 1..n /\ n \in Nat
  BY DEF IsSeq
<1>2. \A k \in 1..n : seqs[k] = IF k \in places THEN <<s[k]>> ELSE <<>>
  BY <1>1
<1>3. seqs = [k \in 1..n |-> seqs[k]]
  BY <1>1
<1>4. t = FlattenSeq(seqs)
  BY DEF Kept
<1> HIDE DEF n, seqs, t
<1>5. \A k \in 1..n : IsSeq(seqs[k])
  <2>1. IsSeq(<<>>) /\ \A x : IsSeq(<<x>>)
    BY DEF IsSeq, Range
  <2> QED
    BY <1>2, <2>1, Zenon
<1>6. Joins(seqs, n, t)
  BY <1>1, <1>3, <1>4, <1>5, FlattenJoins
<1>7. PICK b, p : Placed(seqs, n, t, b, p)
  BY <1>6 DEF Joins
<1>8. ASSUME NEW x \in DOMAIN t PROVE b[x] \in 1..n /\ b[x] \in places /\ p[x] = 1 /\ t[x] = s[b[x]]
  <2>1. b[x] \in 1..n /\ p[x] \in DOMAIN seqs[b[x]] /\ t[x] = seqs[b[x]][p[x]]
    BY <1>7 DEF Placed
  <2>2. DOMAIN <<>> = {} /\ \A y : DOMAIN <<y>> = {1} /\ <<y>>[1] = y
    OBVIOUS
  <2>3. CASE b[x] \in places
    <3>1. seqs[b[x]] = <<s[b[x]]>>
      BY <1>2, <2>1, <2>3
    <3> QED
      BY <2>1, <2>2, <2>3, <3>1
  <2>4. CASE b[x] \notin places
    <3>1. seqs[b[x]] = <<>>
      BY <1>2, <2>1, <2>4
    <3> QED
      BY <2>1, <2>2, <3>1
  <2> QED
    BY <2>3, <2>4
<1>9. \A x, y \in DOMAIN t : x < y => b[x] < b[y]
  BY <1>7, <1>8 DEF Placed
<1>10. ASSUME NEW k \in DOMAIN s, k \in places PROVE \E x \in DOMAIN t : t[x] = s[k]
  <2>1. seqs[k] = <<s[k]>>
    BY <1>1, <1>2, <1>10
  <2>2. 1 \in DOMAIN seqs[k] /\ seqs[k][1] = s[k]
    BY <2>1
  <2> QED
    BY <1>1, <1>6, <2>2 DEF Joins
<1> QED
  BY <1>1, <1>6, <1>8, <1>9, <1>10 DEF Joins, t

-----------------------------------------------------------------------------
(* What the client is going to be given.                                   *)

ToolItems == [kind : ToolKinds, call : CallIds, content : Seq(Seq({"{", "}", "input"}))]

ToolDone(e) == e.ev = "done" /\ e.item.kind \in ToolKinds

\* An event after which item i is no longer a finished tool.
Undoes(e, i) == e.ev \in {"added", "done"} /\ e.i = i /\ ~ToolDone(e)

Finishes(e) == e.ev = "end" /\ e.status = "completed"

ToolPlaces(O) == {i \in DOMAIN O : O[i].kind \in ToolKinds}

\* Items O that the request allows a client to execute.
Grantable(O) ==
    /\ IsFiniteSet(DOMAIN O)
    /\ request.parallel \/ \A i, j \in ToolPlaces(O) : i = j
    /\ ToolPlaces(O) # {} => Resolves
    /\ \A i, j \in ToolPlaces(O) : O[i].call = O[j].call => i = j
    /\ \A i \in ToolPlaces(O) : O[i] \in ToolItems /\ (O[i].kind = "function" => O[i].content = <<Document>>)

\* Events that finish no other tools than those of O, and finish them for good.
Follows(O, s) ==
    \A x \in DOMAIN s : ToolDone(s[x]) => s[x].i \in DOMAIN O /\ s[x].item = O[s[x].i]

Ordered(s) == \A x, y \in DOMAIN s : x < y /\ ToolDone(s[x]) => ~Undoes(s[y], s[x].i)

EventKinds == {"created", "added", "part", "delta", "done", "end"}

Events(s) == IsSeq(s) /\ \A x \in DOMAIN s : s[x].ev \in EventKinds

ViewShape(w) ==
    /\ DOMAIN w = {"created", "items", "end", "output"}
    /\ \A i \in DOMAIN w.items : DOMAIN w.items[i] = {"kind", "call", "whole", "parts", "item"}

DoneIn(w) == {i \in DOMAIN w.items : w.items[i].item # None /\ w.items[i].item.kind \in ToolKinds}

\* The client's view w and the events s still to come give it tools of O only, and one of them
\* before the response is completed when the request demands a tool.
Plan(O, w, s) ==
    /\ Events(s) /\ ViewShape(w) /\ Grantable(O)
    /\ \A i \in DoneIn(w) : i \in DOMAIN O /\ w.items[i].item = O[i]
    /\ Follows(O, s) /\ Ordered(s)
    /\ \A i \in DoneIn(w), x \in DOMAIN s : ~Undoes(s[x], i)
    /\ request.choice = "required" =>
          /\ w.end = "completed" => DoneIn(w) # {}
          /\ \A x \in DOMAIN s : Finishes(s[x]) =>
                DoneIn(w) # {} \/ \E y \in DOMAIN s : y < x /\ ToolDone(s[y])

\* What a client has done follows such a plan only if the request allows it.
LEMMA PlanIsEnough ==
  ASSUME NEW O, Plan(O, view, out)
  PROVE  ToolsAsRequested
<1>1. DoneTools = DoneIn(view)
  BY DEF DoneTools, DoneIn
<1>2. DoneTools \subseteq ToolPlaces(O) /\ DoneTools \subseteq DOMAIN O /\ \A i \in DoneTools : view.items[i].item = O[i]
  BY <1>1 DEF Plan, DoneIn, ToolPlaces
<1>3. IsFiniteSet(DoneTools)
  BY <1>2, FS_Subset DEF Plan, Grantable
<1>4. request.parallel \/ Cardinality(DoneTools) <= 1
  <2> SUFFICES ASSUME ~request.parallel PROVE Cardinality(DoneTools) <= 1
    OBVIOUS
  <2>1. \A i, j \in DoneTools : i = j
    BY <1>2 DEF Plan, Grantable
  <2>2. CASE DoneTools = {}
    BY <2>2, FS_EmptySet
  <2>3. ASSUME NEW i \in DoneTools PROVE Cardinality(DoneTools) <= 1
    <3>1. DoneTools = {i}
      BY <2>1
    <3>2. Cardinality({i}) = 1
      BY FS_Singleton
    <3> QED
      BY <3>1, <3>2
  <2> QED
    BY <2>2, <2>3
<1>5. view.end = "completed" /\ request.choice = "required" => Cardinality(DoneTools) > 0
  <2> SUFFICES ASSUME view.end = "completed", request.choice = "required"
               PROVE  Cardinality(DoneTools) > 0
    OBVIOUS
  <2>1. DoneTools # {}
    BY <1>1 DEF Plan
  <2>2. Cardinality(DoneTools) \in Nat /\ Cardinality(DoneTools) # 0
    BY <1>3, <2>1, FS_CardinalityType, FS_EmptySet
  <2> QED
    BY <2>2
<1> QED
  BY <1>2, <1>4, <1>5 DEF ToolsAsRequested, CountAllowed, Plan, Grantable

\* The client receives an event.
LEMMA ReceivedDone ==
  ASSUME NEW w, NEW e, ViewShape(w), e.ev \in EventKinds, ToolDone(e) => e.item # None
  PROVE  /\ ViewShape(Received(w, e))
         /\ Received(w, e).end = IF e.ev = "end" THEN e.status ELSE w.end
         /\ \A i : i \in DoneIn(Received(w, e)) <=>
               IF e.ev \in {"added", "done"} /\ e.i = i THEN ToolDone(e) ELSE i \in DoneIn(w)
         /\ \A i \in DoneIn(Received(w, e)) : Received(w, e).items[i].item =
               IF e.ev \in {"added", "done"} /\ e.i = i THEN e.item ELSE w.items[i].item
<1> DEFINE v == Received(w, e)
<1>0. DOMAIN w = {"created", "items", "end", "output"}
  BY DEF ViewShape
<1>1. ASSUME DOMAIN v.items = DOMAIN w.items, \A i \in DOMAIN w.items : v.items[i].item = w.items[i].item
      PROVE  DoneIn(v) = DoneIn(w) /\ \A i \in DoneIn(v) : v.items[i].item = w.items[i].item
  BY <1>1 DEF DoneIn
<1>2. CASE e.ev = "created"
  <2>1. v = [w EXCEPT !.created = TRUE]
    BY <1>2 DEF Received
  <2>2. DOMAIN v = DOMAIN w /\ v.items = w.items /\ v.end = w.end
    BY <1>0, <2>1
  <2> HIDE DEF v
  <2> QED
    BY <1>1, <1>2, <2>2 DEF ViewShape, v
<1>3. CASE e.ev = "added"
  <2> DEFINE r == [kind |-> e.kind, call |-> e.call, whole |-> e.whole, parts |-> Unfilled(e.kind), item |-> None]
             items == Put(w.items, e.i, r)
  <2>1. v = [w EXCEPT !.items = items]
    BY <1>3 DEF Received
  <2>2. DOMAIN v = DOMAIN w /\ v.items = items /\ v.end = w.end
    BY <1>0, <2>1
  <2>3. DOMAIN r = {"kind", "call", "whole", "parts", "item"} /\ r.item = None
    OBVIOUS
  <2> HIDE DEF r, v
  <2>4. /\ DOMAIN v.items = (DOMAIN w.items) \cup {e.i}
        /\ \A i \in DOMAIN v.items : v.items[i] = IF i = e.i THEN r ELSE w.items[i]
    BY <2>2 DEF Put
  <2>5. ~ToolDone(e)
    BY <1>3 DEF ToolDone
  <2> QED
    BY <1>3, <2>2, <2>3, <2>4, <2>5 DEF ViewShape, DoneIn, v
<1>4. CASE e.ev = "part"
  <2> DEFINE r == [w.items[e.i] EXCEPT !.parts = Append(@, <<>>)]
  <2>1. v = [w EXCEPT !.items[e.i] = r]
    BY <1>4 DEF Received
  <2>2. e.i \in DOMAIN w.items => DOMAIN r = DOMAIN w.items[e.i] /\ r.item = w.items[e.i].item
    BY DEF ViewShape
  <2> HIDE DEF r, v
  <2>3. DOMAIN v = DOMAIN w /\ v.items = [w.items EXCEPT ![e.i] = r] /\ v.end = w.end
    BY <1>0, <2>1
  <2> QED
    BY <1>1, <1>4, <2>2, <2>3 DEF ViewShape, v
<1>5. CASE e.ev = "delta"
  <2> DEFINE r == [w.items[e.i] EXCEPT !.parts[e.p] = @ \o e.text]
  <2>1. v = [w EXCEPT !.items[e.i] = r]
    BY <1>5 DEF Received
  <2>2. e.i \in DOMAIN w.items => DOMAIN r = DOMAIN w.items[e.i] /\ r.item = w.items[e.i].item
    BY DEF ViewShape
  <2> HIDE DEF r, v
  <2>3. DOMAIN v = DOMAIN w /\ v.items = [w.items EXCEPT ![e.i] = r] /\ v.end = w.end
    BY <1>0, <2>1
  <2> QED
    BY <1>1, <1>5, <2>2, <2>3 DEF ViewShape, v
<1>6. CASE e.ev = "done"
  <2> DEFINE r == IF e.i \in DOMAIN w.items THEN [w.items[e.i] EXCEPT !.item = e.item]
                  ELSE [kind |-> e.item.kind, call |-> e.item.call, whole |-> TRUE,
                        parts |-> e.item.content, item |-> e.item]
             items == Put(w.items, e.i, r)
  <2>1. v = [w EXCEPT !.items = items]
    BY <1>6 DEF Received
  <2>2. DOMAIN v = DOMAIN w /\ v.items = items /\ v.end = w.end
    BY <1>0, <2>1
  <2>3. DOMAIN r = {"kind", "call", "whole", "parts", "item"} /\ r.item = e.item
    BY DEF ViewShape
  <2> HIDE DEF r, v
  <2>4. /\ DOMAIN v.items = (DOMAIN w.items) \cup {e.i}
        /\ \A i \in DOMAIN v.items : v.items[i] = IF i = e.i THEN r ELSE w.items[i]
    BY <2>2 DEF Put
  <2>5. ToolDone(e) <=> e.item.kind \in ToolKinds
    BY <1>6 DEF ToolDone
  <2> QED
    BY <1>6, <2>2, <2>3, <2>4, <2>5 DEF ViewShape, DoneIn, v
<1>7. CASE e.ev = "end"
  <2>1. v = [w EXCEPT !.end = e.status, !.output = e.output]
    BY <1>7 DEF Received
  <2>2. DOMAIN v = DOMAIN w /\ v.items = w.items /\ v.end = e.status
    BY <1>0, <2>1
  <2> HIDE DEF v
  <2> QED
    BY <1>1, <1>7, <2>2 DEF ViewShape, v
<1> QED
  BY <1>2, <1>3, <1>4, <1>5, <1>6, <1>7 DEF EventKinds

\* The plan goes on as the client receives the next event.
LEMMA PlanDelivered ==
  ASSUME NEW O, NEW w, NEW s, Plan(O, w, s), s # <<>>
  PROVE  Plan(O, Received(w, Head(s)), Tail(s))
<1> DEFINE e == Head(s)
           t == Tail(s)
           v == Received(w, e)
<1>0. IsSeq(s)
  BY DEF Plan, Events
<1>1. /\ IsSeq(t) /\ 1 \in DOMAIN s /\ e = s[1]
      /\ \A x \in DOMAIN t : x \in Nat /\ x >= 1 /\ x + 1 \in DOMAIN s /\ t[x] = s[x + 1]
      /\ \A x \in DOMAIN s : x \in Nat /\ x >= 1 /\ (x # 1 => x - 1 \in DOMAIN t)
  <2> DEFINE S == Range(s)
  <2>1. s \in Seq(S)
    BY <1>0 DEF IsSeq
  <2> HIDE DEF S
  <2>2. t \in Seq(S)
    BY <2>1
  <2>3. IsSeq(t)
    BY <2>2, SeqIsSeq
  <2> QED
    BY <2>1, <2>3
<1> HIDE DEF e, t
<1>2. e.ev \in EventKinds /\ (ToolDone(e) => e.i \in ToolPlaces(O) /\ e.item = O[e.i] /\ e.item # None)
  <2>1. e.ev \in EventKinds /\ (ToolDone(e) => e.i \in DOMAIN O /\ e.item = O[e.i])
    BY <1>1 DEF Plan, Events, Follows
  <2>2. ToolDone(e) => e.i \in ToolPlaces(O)
    BY <2>1 DEF ToolDone, ToolPlaces
  <2>3. ToolDone(e) => e.item \in ToolItems
    BY <2>1, <2>2 DEF Plan, Grantable
  <2> QED
    BY <2>1, <2>2, <2>3, AbsentAssumption DEF ToolItems
<1>3. /\ ViewShape(v)
      /\ v.end = IF e.ev = "end" THEN e.status ELSE w.end
      /\ \A i : i \in DoneIn(v) <=>
            IF e.ev \in {"added", "done"} /\ e.i = i THEN ToolDone(e) ELSE i \in DoneIn(w)
      /\ \A i \in DoneIn(v) : v.items[i].item =
            IF e.ev \in {"added", "done"} /\ e.i = i THEN e.item ELSE w.items[i].item
  <2>1. ViewShape(w)
    BY DEF Plan
  <2> QED
    BY <1>2, <2>1, ReceivedDone
<1> HIDE DEF v
<1>4. DoneIn(w) \subseteq DoneIn(v) /\ (ToolDone(e) => e.i \in DoneIn(v))
  <2>1. \A i \in DoneIn(w) : ~Undoes(e, i)
    BY <1>1 DEF Plan
  <2> QED
    BY <1>3, <2>1 DEF Undoes, ToolDone
<1>5. \A i \in DoneIn(v) : i \in DOMAIN O /\ v.items[i].item = O[i]
  BY <1>2, <1>3 DEF Plan, ToolPlaces
<1>6. Events(t) /\ Follows(O, t)
  BY <1>1 DEF Plan, Events, Follows
<1>7. Ordered(t)
  BY <1>1 DEF Plan, Ordered
<1>8. \A i \in DoneIn(v), x \in DOMAIN t : ~Undoes(t[x], i)
  <2> SUFFICES ASSUME NEW i \in DoneIn(v), NEW x \in DOMAIN t PROVE ~Undoes(t[x], i)
    OBVIOUS
  <2>1. x + 1 \in DOMAIN s /\ t[x] = s[x + 1] /\ 1 < x + 1
    BY <1>1
  <2>2. CASE i \in DoneIn(w)
    BY <2>1, <2>2 DEF Plan
  <2>3. CASE ToolDone(e) /\ e.i = i
    BY <1>1, <2>1, <2>3 DEF Plan, Ordered
  <2> QED
    BY <1>3, <2>2, <2>3
<1>9. ASSUME request.choice = "required", v.end = "completed" PROVE DoneIn(v) # {}
  <2>1. CASE e.ev = "end"
    <3>1. Finishes(s[1])
      BY <1>1, <1>3, <1>9, <2>1 DEF Finishes
    <3>2. DoneIn(w) # {}
      BY <1>1, <1>9, <3>1 DEF Plan
    <3> QED
      BY <1>4, <3>2
  <2>2. CASE e.ev # "end"
    BY <1>3, <1>4, <1>9, <2>2 DEF Plan
  <2> QED
    BY <2>1, <2>2
<1>10. ASSUME request.choice = "required", NEW x \in DOMAIN t, Finishes(t[x])
       PROVE  DoneIn(v) # {} \/ \E y \in DOMAIN t : y < x /\ ToolDone(t[y])
  <2>1. x + 1 \in DOMAIN s /\ t[x] = s[x + 1]
    BY <1>1
  <2>2. DoneIn(w) # {} \/ \E y \in DOMAIN s : y < x + 1 /\ ToolDone(s[y])
    BY <1>10, <2>1 DEF Plan
  <2>3. ASSUME NEW y \in DOMAIN s, y < x + 1, ToolDone(s[y])
        PROVE  DoneIn(v) # {} \/ \E z \in DOMAIN t : z < x /\ ToolDone(t[z])
    <3>1. CASE y = 1
      BY <1>1, <1>4, <2>3, <3>1
    <3>2. CASE y # 1
      <4>1. y - 1 \in DOMAIN t /\ y - 1 < x /\ t[y - 1] = s[(y - 1) + 1] /\ (y - 1) + 1 = y
        BY <1>1, <2>3, <3>2
      <4> QED
        BY <2>3, <4>1
    <3> QED
      BY <3>1, <3>2
  <2> QED
    BY <1>4, <2>2, <2>3
<1>11. Grantable(O)
  BY DEF Plan
<1> QED
  BY <1>3, <1>5, <1>6, <1>7, <1>8, <1>9, <1>10, <1>11 DEF Plan, v, e, t

\* A client that knows of no tool.
LEMMA ViewQuietShape ==
  ASSUME NEW w, ViewQuiet(w)
  PROVE  ViewShape(w) /\ DoneIn(w) = {} /\ w.end # "completed"
  BY DEF ViewQuiet, ViewShape, DoneIn

EndsAfterTool(s) ==
    \A x \in DOMAIN s : Finishes(s[x]) => \E y \in DOMAIN s : y < x /\ ToolDone(s[y])

\* The events that decide about the tools.
LEMMA PlanMade ==
  ASSUME NEW O, NEW w, NEW s, ViewQuiet(w), Events(s), Grantable(O), Follows(O, s), Ordered(s),
         request.choice = "required" => EndsAfterTool(s)
  PROVE  Plan(O, w, s)
  BY ViewQuietShape DEF Plan, EndsAfterTool

LEMMA GrantNothing == Grantable(<<>>)
<1> DEFINE O == <<>>
<1>1. DOMAIN O = {}
  OBVIOUS
<1> HIDE DEF O
<1>2. Grantable(O)
  BY <1>1, FS_EmptySet DEF Grantable, ToolPlaces
<1> QED
  BY <1>2 DEF O

LEMMA QuietPlan ==
  ASSUME NEW w, NEW s, ViewQuiet(w), AllQuiet(s)
  PROVE  Plan(<<>>, w, s)
<1>1. \A x \in DOMAIN s : Quiet(s[x]) /\ s[x].ev \in EventKinds /\ ~ToolDone(s[x]) /\ ~Finishes(s[x])
  BY DEF AllQuiet, Range, Quiet, EventKinds, ToolDone, Finishes
<1>2. Events(s) /\ Follows(<<>>, s) /\ Ordered(s) /\ EndsAfterTool(s)
  BY <1>1 DEF AllQuiet, Events, Follows, Ordered, EndsAfterTool
<1> QED
  BY <1>2, GrantNothing, PlanMade

\* Blocks of events, one for each item, one after the other.
LEMMA OrderedBlocks ==
  ASSUME NEW n \in Nat, NEW seqs, seqs = [i \in 1..n |-> seqs[i]],
         \A b \in 1..n : /\ Events(seqs[b]) /\ Ordered(seqs[b])
                         /\ \A k \in DOMAIN seqs[b] : seqs[b][k].ev \in {"added", "done"} => seqs[b][k].i = b
  PROVE  Events(FlattenSeq(seqs)) /\ Ordered(FlattenSeq(seqs))
<1> DEFINE s == FlattenSeq(seqs)
<1>1. Joins(seqs, n, s)
  BY FlattenJoins DEF Events
<1> HIDE DEF s
<1>2. PICK b, p : Placed(seqs, n, s, b, p)
  BY <1>1 DEF Joins
<1>3. \A x \in DOMAIN s : b[x] \in 1..n /\ p[x] \in DOMAIN seqs[b[x]] /\ s[x] = seqs[b[x]][p[x]]
  BY <1>2 DEF Placed
<1>4. Events(s)
  BY <1>1, <1>3 DEF Joins, Events
<1>5. ASSUME NEW x \in DOMAIN s, NEW y \in DOMAIN s, x < y, ToolDone(s[x]), Undoes(s[y], s[x].i) PROVE FALSE
  <2>a. s[x].ev \in {"added", "done"} /\ s[y].ev \in {"added", "done"} /\ s[y].i = s[x].i
    BY <1>5 DEF ToolDone, Undoes
  <2>1. s[x].i = b[x] /\ s[y].i = b[y] /\ s[y].i = s[x].i
    BY <1>3, <2>a
  <2>2. b[x] < b[y] \/ (b[x] = b[y] /\ p[x] < p[y])
    BY <1>2, <1>5 DEF Placed
  <2>3. b[x] \in 1..n /\ b[x] = b[y] /\ p[x] < p[y]
    BY <1>3, <2>1, <2>2
  <2> QED
    BY <1>3, <1>5, <2>3 DEF Ordered
<1> QED
  BY <1>4, <1>5 DEF Ordered, s

\* Everything in a flattened sequence comes from a block, and the other way round.
LEMMA FlattenFrom ==
  ASSUME NEW n \in Nat, NEW seqs, seqs = [i \in 1..n |-> seqs[i]], \A i \in 1..n : IsSeq(seqs[i])
  PROVE  /\ \A x \in DOMAIN FlattenSeq(seqs) : \E i \in 1..n : \E k \in DOMAIN seqs[i] : FlattenSeq(seqs)[x] = seqs[i][k]
         /\ \A i \in 1..n : \A k \in DOMAIN seqs[i] : \E x \in DOMAIN FlattenSeq(seqs) : FlattenSeq(seqs)[x] = seqs[i][k]
<1> DEFINE s == FlattenSeq(seqs)
<1>1. Joins(seqs, n, s)
  BY FlattenJoins
<1> HIDE DEF s
<1> QED
  BY <1>1 DEF Joins, Placed, s

LEMMA OrderedConcat ==
  ASSUME NEW s, NEW t, Events(s), Events(t), Ordered(s), Ordered(t),
         \A x \in DOMAIN s, y \in DOMAIN t : ToolDone(s[x]) => ~Undoes(t[y], s[x].i)
  PROVE  Events(s \o t) /\ Ordered(s \o t)
<1> DEFINE u == s \o t
<1>1. /\ IsSeq(u) /\ DOMAIN s = 1..Len(s) /\ DOMAIN t = 1..Len(t)
      /\ Len(s) \in Nat /\ Len(t) \in Nat
      /\ DOMAIN u = 1..(Len(s) + Len(t))
      /\ \A x \in 1..Len(s) : u[x] = s[x]
      /\ \A x \in DOMAIN u : x \notin DOMAIN s => x - Len(s) \in DOMAIN t /\ u[x] = t[x - Len(s)]
  BY ConcatPlaces DEF Events
<1> HIDE DEF u
<1>2. Events(u)
  BY <1>1 DEF Events
<1>3. ASSUME NEW x \in DOMAIN u, NEW y \in DOMAIN u, x < y, ToolDone(u[x]), Undoes(u[y], u[x].i) PROVE FALSE
  <2>1. CASE y \in DOMAIN s
    BY <1>1, <1>3, <2>1 DEF Ordered
  <2>2. CASE x \in DOMAIN s /\ y \notin DOMAIN s
    BY <1>1, <1>3, <2>2
  <2>3. CASE x \notin DOMAIN s /\ y \notin DOMAIN s
    <3>1. x - Len(s) \in DOMAIN t /\ y - Len(s) \in DOMAIN t /\ x - Len(s) < y - Len(s)
      BY <1>1, <1>3, <2>3
    <3> QED
      BY <1>1, <1>3, <2>3, <3>1 DEF Ordered
  <2> QED
    BY <1>1, <1>3, <2>1, <2>2, <2>3
<1> QED
  BY <1>2, <1>3 DEF Ordered, u

-----------------------------------------------------------------------------
(* What an accepted run of the validator says of the calls.                *)

ItemsShape(v) == \A i \in DOMAIN v.items : "call" \in DOMAIN v.items[i]

KeepsCalls(v, w) ==
    \A i \in DOMAIN v.items : i \in DOMAIN w.items /\ w.items[i].call = v.items[i].call

NewCall(v, e) == e.kind \in ToolKinds => \A i \in DOMAIN v.items : v.items[i].call # e.call

LEMMA ApplyCalls ==
  ASSUME NEW v, NEW e, DOMAIN v = DOMAIN NewValidator, ItemsShape(v), e.op \in Operations, Apply(v, e).ok
  PROVE  /\ v.ok /\ ItemsShape(Apply(v, e)) /\ KeepsCalls(v, Apply(v, e))
         /\ e.op = "item" => /\ NewCall(v, e) /\ e.id \in DOMAIN Apply(v, e).items
                             /\ Apply(v, e).items[e.id].call = e.call
<1> DEFINE w == Apply(v, e)
<1>0. DOMAIN v = {"ok", "phase", "items", "usage"}
  BY DEF NewValidator
<1>1. v.ok /\ Accepts(v, e)
  <2> SUFFICES ASSUME ~(v.ok /\ Accepts(v, e)) PROVE FALSE
    OBVIOUS
  <2>1. w = [v EXCEPT !.ok = FALSE]
    BY DEF Apply
  <2>2. w.ok = FALSE
    BY <1>0, <2>1
  <2> QED
    BY <2>2
<1>2. w = Accepted(v, e)
  BY <1>1 DEF Apply
<1> HIDE DEF w
<1>3. CASE e.op \in {"started", "text", "usage", "finished"}
  <2>1. w.items = v.items
    BY <1>0, <1>2, <1>3 DEF Accepted
  <2> QED
    BY <1>1, <1>3, <2>1 DEF ItemsShape, KeepsCalls, w
<1>4. CASE e.op = "item"
  <2> DEFINE r == [index |-> e.index, kind |-> e.kind, call |-> e.call,
                   open |-> TRUE, parts |-> <<>>, arguments |-> <<>>]
  <2>1. w.items = Put(v.items, e.id, r)
    BY <1>0, <1>2, <1>4 DEF Accepted
  <2>2. "call" \in DOMAIN r /\ r.call = e.call
    OBVIOUS
  <2> HIDE DEF r
  <2>3. CanStartItem(v, e)
    BY <1>1, <1>4 DEF Accepts
  <2>4. e.id \notin DOMAIN v.items /\ NewCall(v, e)
    BY <2>3 DEF CanStartItem, NewCall
  <2>5. /\ DOMAIN w.items = (DOMAIN v.items) \cup {e.id}
        /\ \A i \in DOMAIN w.items : w.items[i] = IF i = e.id THEN r ELSE v.items[i]
    BY <2>1 DEF Put
  <2> QED
    BY <1>1, <2>2, <2>4, <2>5 DEF ItemsShape, KeepsCalls, w
<1>5. CASE e.op \in {"part", "part_end", "arguments", "item_end"}
  <2>1. e.id \in DOMAIN v.items
    BY <1>1, <1>5 DEF Accepts, CanStartPart, OpenPart, CanAppendArguments, CanFinishItem, Open
  <2>2. "call" \in DOMAIN v.items[e.id]
    BY <2>1 DEF ItemsShape
  <2>3. \E r : w.items = [v.items EXCEPT ![e.id] = r] /\ "call" \in DOMAIN r /\ r.call = v.items[e.id].call
    <3>1. CASE e.op = "part"
      <4> DEFINE r == [v.items[e.id] EXCEPT !.parts = Put(@, e.part, TRUE)]
      <4>1. w = [v EXCEPT !.items[e.id] = r]
        BY <1>2, <3>1 DEF Accepted
      <4>2. "call" \in DOMAIN r /\ r.call = v.items[e.id].call
        BY <2>2
      <4> HIDE DEF r
      <4>3. w.items = [v.items EXCEPT ![e.id] = r]
        BY <1>0, <4>1
      <4> QED
        BY <4>2, <4>3
    <3>2. CASE e.op = "part_end"
      <4> DEFINE r == [v.items[e.id] EXCEPT !.parts[e.part] = FALSE]
      <4>1. w = [v EXCEPT !.items[e.id] = r]
        BY <1>2, <3>2 DEF Accepted
      <4>2. "call" \in DOMAIN r /\ r.call = v.items[e.id].call
        BY <2>2
      <4> HIDE DEF r
      <4>3. w.items = [v.items EXCEPT ![e.id] = r]
        BY <1>0, <4>1
      <4> QED
        BY <4>2, <4>3
    <3>3. CASE e.op = "arguments"
      <4> DEFINE r == [v.items[e.id] EXCEPT !.arguments = @ \o e.text]
      <4>1. w = [v EXCEPT !.items[e.id] = r]
        BY <1>2, <3>3 DEF Accepted
      <4>2. "call" \in DOMAIN r /\ r.call = v.items[e.id].call
        BY <2>2
      <4> HIDE DEF r
      <4>3. w.items = [v.items EXCEPT ![e.id] = r]
        BY <1>0, <4>1
      <4> QED
        BY <4>2, <4>3
    <3>4. CASE e.op = "item_end"
      <4> DEFINE r == [v.items[e.id] EXCEPT !.open = FALSE]
      <4>1. w = [v EXCEPT !.items[e.id] = r]
        BY <1>2, <3>4 DEF Accepted
      <4>2. "call" \in DOMAIN r /\ r.call = v.items[e.id].call
        BY <2>2
      <4> HIDE DEF r
      <4>3. w.items = [v.items EXCEPT ![e.id] = r]
        BY <1>0, <4>1
      <4> QED
        BY <4>2, <4>3
    <3> QED
      BY <1>5, <3>1, <3>2, <3>3, <3>4
  <2> QED
    BY <1>1, <1>5, <2>1, <2>3 DEF ItemsShape, KeepsCalls, w
<1> QED
  BY <1>3, <1>4, <1>5 DEF Operations

\* The first k events of a run.
CallsAfter(v, events, w, k) ==
    /\ ItemsShape(w) /\ KeepsCalls(v, w)
    /\ \A x \in 1..k : events[x].op = "item" =>
          /\ NewCall(v, events[x])
          /\ events[x].id \in DOMAIN w.items /\ w.items[events[x].id].call = events[x].call
    /\ \A x, y \in 1..k : x < y /\ events[x].op = "item" /\ events[y].op = "item" /\ events[y].kind \in ToolKinds
          => events[x].call # events[y].call

LEMMA CallsNext ==
  ASSUME NEW v, NEW events, NEW w, NEW k \in Nat, DOMAIN w = DOMAIN NewValidator,
         CallsAfter(v, events, w, k), events[k + 1].op \in Operations, Apply(w, events[k + 1]).ok
  PROVE  CallsAfter(v, events, Apply(w, events[k + 1]), k + 1)
<1> DEFINE e == events[k + 1]
           u == Apply(w, e)
<1>1. ItemsShape(w)
  BY DEF CallsAfter
<1>2. /\ ItemsShape(u) /\ KeepsCalls(w, u)
      /\ e.op = "item" => NewCall(w, e) /\ e.id \in DOMAIN u.items /\ u.items[e.id].call = e.call
  BY <1>1, ApplyCalls
<1> HIDE DEF u
<1>3. KeepsCalls(v, u)
  BY <1>2 DEF CallsAfter, KeepsCalls
<1>4. ASSUME NEW x \in 1..(k + 1), events[x].op = "item"
      PROVE  /\ NewCall(v, events[x])
             /\ events[x].id \in DOMAIN u.items /\ u.items[events[x].id].call = events[x].call
  <2>1. CASE x \in 1..k
    BY <1>2, <1>4, <2>1 DEF CallsAfter, KeepsCalls
  <2>2. CASE x = k + 1
    BY <1>2, <1>4, <2>2 DEF CallsAfter, KeepsCalls, NewCall
  <2> QED
    BY <2>1, <2>2
<1>5. ASSUME NEW x \in 1..(k + 1), NEW y \in 1..(k + 1), x < y, events[x].op = "item",
             events[y].op = "item", events[y].kind \in ToolKinds
      PROVE  events[x].call # events[y].call
  <2>0. x \in 1..k
    BY <1>5
  <2>1. CASE y \in 1..k
    BY <1>5, <2>0, <2>1 DEF CallsAfter
  <2>2. CASE y = k + 1
    <3>1. events[x].id \in DOMAIN w.items /\ w.items[events[x].id].call = events[x].call
      BY <1>5, <2>0 DEF CallsAfter
    <3> QED
      BY <1>2, <1>5, <2>2, <3>1 DEF NewCall
  <2> QED
    BY <2>1, <2>2
<1> HIDE DEF e
<1>6. CallsAfter(v, events, u, k + 1)
  BY <1>2, <1>3, <1>4, <1>5 DEF CallsAfter
<1> QED
  BY <1>6 DEF u, e

\* A run that is accepted starts every call once.
LEMMA RunCalls ==
  ASSUME NEW v, DOMAIN v = DOMAIN NewValidator, ItemsShape(v), NEW S, NEW events \in Seq(S),
         \A e \in S : e.op \in Operations, ApplyAll(v, events).ok
  PROVE  /\ CallsAfter(v, events, ApplyAll(v, events), Len(events))
         /\ DOMAIN ApplyAll(v, events) = DOMAIN NewValidator
<1> DEFINE n == Len(events)
<1>1. n \in Nat /\ \A k \in 1..n : events[k].op \in Operations
  OBVIOUS
<1> HIDE DEF n
<1>2. PICK f : Runs(v, events, n, f) /\ ApplyAll(v, events) = f[n]
  BY <1>1, ApplyAllRuns DEF n
<1>3. f[0] = v /\ \A k \in 1..n : f[k] = Apply(f[k - 1], events[k])
  BY <1>1, <1>2 DEF Runs
<1> DEFINE Bad == {k \in 0..n : ~(/\ DOMAIN f[k] = DOMAIN NewValidator
                                  /\ f[k].ok => CallsAfter(v, events, f[k], k))}
<1>4. Bad = {}
  <2> SUFFICES ASSUME Bad # {} PROVE FALSE
    OBVIOUS
  <2>1. Bad \in SUBSET Nat
    BY <1>1
  <2>2. PICK k \in Bad : \A j \in Bad : k <= j
    BY <2>1, LeastPlace
  <2>a. k \in 0..n
    BY <2>2
  <2>3. k # 0
    <3>1. 1..0 = {}
      OBVIOUS
    <3>2. CallsAfter(v, events, f[0], 0)
      BY <1>3, <3>1 DEF CallsAfter, KeepsCalls
    <3>3. 0 \notin Bad
      BY <1>3, <3>2
    <3> QED
      BY <2>2, <3>3
  <2> DEFINE m == k - 1
  <2>4. k \in 1..n /\ m \in 0..n /\ m \in Nat /\ m \notin Bad /\ m + 1 = k
    <3> HIDE DEF Bad
    <3> QED
      BY <1>1, <2>2, <2>3, <2>a
  <2>5. DOMAIN f[m] = DOMAIN NewValidator /\ (f[m].ok => CallsAfter(v, events, f[m], m))
    BY <2>4
  <2>6. f[k] = Apply(f[m], events[m + 1]) /\ events[m + 1].op \in Operations
    BY <1>1, <1>3, <2>4
  <2> HIDE DEF m, Bad
  <2>7. DOMAIN f[k] = DOMAIN NewValidator
    BY <2>5, <2>6, ApplyFacts
  <2>8. ASSUME f[k].ok PROVE CallsAfter(v, events, f[k], k)
    <3>1. f[m].ok
      <4> SUFFICES ASSUME ~f[m].ok PROVE FALSE
        OBVIOUS
      <4>1. f[k] = [f[m] EXCEPT !.ok = FALSE]
        BY <2>6 DEF Apply
      <4>2. f[k].ok = FALSE
        BY <2>5, <4>1 DEF NewValidator
      <4> QED
        BY <2>8, <4>2
    <3> QED
      BY <2>4, <2>5, <2>6, <2>8, <3>1, CallsNext
  <2> QED
    BY <2>2, <2>7, <2>8 DEF Bad
<1>5. n \in 0..n
  BY <1>1
<1>6. DOMAIN f[n] = DOMAIN NewValidator /\ (f[n].ok => CallsAfter(v, events, f[n], n))
  BY <1>4, <1>5
<1> QED
  BY <1>2, <1>6 DEF n

\* The equation of a list that grows block by block, as the decoders build theirs.
Grows(a, g, n, f) == f = [i \in 0..n |-> IF i = 0 THEN a ELSE f[i - 1] \o g[i]]

LEMMA GrowthExists ==
  ASSUME NEW a, NEW g, NEW n \in Nat
  PROVE  \E f : Grows(a, g, n, f)
<1> DEFINE Bad == {k \in Nat : ~\E f : Grows(a, g, k, f)}
<1> SUFFICES ASSUME Bad # {} PROVE FALSE
  OBVIOUS
<1>1. PICK k \in Bad : \A j \in Bad : k <= j
  BY LeastPlace
<1>2. k # 0
  <2>1. Grows(a, g, 0, [i \in 0..0 |-> a])
    BY DEF Grows
  <2> QED
    BY <2>1
<1>3. k - 1 \in Nat /\ k - 1 \notin Bad
  BY <1>1, <1>2
<1>4. PICK p : Grows(a, g, k - 1, p)
  BY <1>3
<1> DEFINE last == p[k - 1] \o g[k]
           h == [i \in 0..k |-> IF i = k THEN last ELSE p[i]]
           next(f, i) == IF i = 0 THEN a ELSE f[i - 1] \o g[i]
<1>5. ASSUME NEW i \in 0..k PROVE h[i] = next(h, i)
  <2>1. CASE i = k
    <3>1. i # 0 /\ h[i] = last /\ h[i - 1] = p[k - 1]
      BY <1>2, <1>3, <2>1
    <3> QED
      BY <2>1, <3>1
  <2>2. CASE i # k
    <3>1. i \in 0..(k - 1) /\ h[i] = p[i] /\ (i # 0 => h[i - 1] = p[i - 1])
      BY <1>3, <2>2
    <3>2. p[i] = next(p, i)
      BY <1>4, <3>1 DEF Grows
    <3> QED
      BY <3>1, <3>2
  <2> QED
    BY <2>1, <2>2
<1>6. h = [i \in 0..k |-> next(h, i)]
  BY <1>5
<1>7. Grows(a, g, k, h)
  BY <1>6 DEF Grows
<1> QED
  BY <1>7

\* The first elements of the blocks come in the order of the blocks.
GrownTo(S, g, t, k) ==
    /\ t \in Seq(S)
    /\ \A i \in 1..k : \E x \in DOMAIN t : t[x] = g[i][1]
    /\ \A i, j \in 1..k : i < j => \E x, y \in DOMAIN t : x < y /\ t[x] = g[i][1] /\ t[y] = g[j][1]

LEMMA GrowsOne ==
  ASSUME NEW S, NEW g, NEW t, NEW k \in Nat, GrownTo(S, g, t, k), g[k + 1] \in Seq(S), g[k + 1] # <<>>
  PROVE  GrownTo(S, g, t \o g[k + 1], k + 1)
<1> DEFINE b == g[k + 1]
           u == t \o b
           z == Len(t) + 1
<1>0. t \in Seq(S) /\ b \in Seq(S) /\ b # <<>>
  BY DEF GrownTo
<1>1. /\ u \in Seq(S) /\ z \in DOMAIN u /\ u[z] = b[1]
      /\ \A x \in DOMAIN t : x \in DOMAIN u /\ x < z /\ u[x] = t[x]
  <2> HIDE DEF b
  <2> QED
    BY <1>0
<1> HIDE DEF u, z, b
<1>2. ASSUME NEW i \in 1..(k + 1) PROVE \E x \in DOMAIN u : u[x] = g[i][1]
  <2>1. CASE i \in 1..k
    BY <1>1, <2>1 DEF GrownTo
  <2>2. CASE i = k + 1
    BY <1>1, <2>2 DEF b
  <2> QED
    BY <2>1, <2>2
<1>3. ASSUME NEW i \in 1..(k + 1), NEW j \in 1..(k + 1), i < j
      PROVE  \E x, y \in DOMAIN u : x < y /\ u[x] = g[i][1] /\ u[y] = g[j][1]
  <2>0. i \in 1..k
    BY <1>3
  <2>1. CASE j \in 1..k
    <3>1. PICK x, y \in DOMAIN t : x < y /\ t[x] = g[i][1] /\ t[y] = g[j][1]
      BY <1>3, <2>0, <2>1 DEF GrownTo
    <3> QED
      BY <1>1, <3>1
  <2>2. CASE j = k + 1
    <3>1. PICK x \in DOMAIN t : t[x] = g[i][1]
      BY <2>0 DEF GrownTo
    <3>2. x \in DOMAIN u /\ z \in DOMAIN u /\ x < z /\ u[x] = g[i][1] /\ u[z] = g[j][1]
      BY <1>1, <2>2, <3>1 DEF b
    <3> QED
      BY <3>2
  <2> QED
    BY <2>1, <2>2
<1>4. GrownTo(S, g, u, k + 1)
  BY <1>1, <1>2, <1>3 DEF GrownTo
<1> QED
  BY <1>4 DEF u, b

LEMMA GrowthIsOrdered ==
  ASSUME NEW S, NEW a \in Seq(S), NEW g, NEW n \in Nat, NEW f, Grows(a, g, n, f),
         \A i \in 1..n : g[i] \in Seq(S) /\ g[i] # <<>>
  PROVE  GrownTo(S, g, f[n], n)
<1>1. f[0] = a /\ \A k \in 1..n : f[k] = f[k - 1] \o g[k]
  <2>1. 0 \in 0..n /\ \A k \in 1..n : k \in 0..n /\ k # 0
    OBVIOUS
  <2>2. \A i \in 0..n : f[i] = IF i = 0 THEN a ELSE f[i - 1] \o g[i]
    BY Zenon DEF Grows
  <2> QED
    BY <2>1, <2>2, Zenon
<1> DEFINE Bad == {k \in 0..n : ~GrownTo(S, g, f[k], k)}
<1>2. Bad = {}
  <2> SUFFICES ASSUME Bad # {} PROVE FALSE
    OBVIOUS
  <2>1. Bad \in SUBSET Nat
    OBVIOUS
  <2>2. PICK k \in Bad : \A j \in Bad : k <= j
    BY <2>1, LeastPlace
  <2>a. k \in 0..n
    BY <2>2
  <2>3. k # 0
    <3>1. 1..0 = {}
      OBVIOUS
    <3>2. GrownTo(S, g, f[0], 0)
      BY <1>1, <3>1 DEF GrownTo
    <3> QED
      BY <2>2, <3>2
  <2> DEFINE m == k - 1
  <2>4. k \in 1..n /\ m \in 0..n /\ m \in Nat /\ m \notin Bad /\ m + 1 = k
    <3> HIDE DEF Bad
    <3> QED
      BY <2>2, <2>3, <2>a
  <2>5. GrownTo(S, g, f[m], m)
    BY <2>4
  <2>6. f[k] = f[m] \o g[m + 1] /\ g[m + 1] \in Seq(S) /\ g[m + 1] # <<>>
    BY <1>1, <2>4
  <2> HIDE DEF m, Bad
  <2>7. GrownTo(S, g, f[k], k)
    BY <2>4, <2>5, <2>6, GrowsOne
  <2> QED
    BY <2>2, <2>7 DEF Bad
<1>3. n \in 0..n
  OBVIOUS
<1> QED
  BY <1>2, <1>3

\* What a decoder submits for an item starts with its start.
LEMMA CompleteItemShape ==
  ASSUME NEW i, NEW item, item.kind \notin ToolKinds => Len(item.content) \in Nat
  PROVE  \E S : /\ \A e \in S : e.op \in Operations
                /\ CompleteItem(i, item) \in Seq(S) /\ CompleteItem(i, item) # <<>>
                /\ CompleteItem(i, item)[1] = ItemStarted(i, i, item.kind, item.call)
<1> DEFINE a == ItemStarted(i, i, item.kind, item.call)
           c == ItemFinished(i)
           n == Len(item.content)
<1>0. a.op \in Operations /\ c.op \in Operations
  BY Submissions
<1>1. ASSUME NEW T, NEW m \in Seq(T), \A e \in T : e.op \in Operations, CompleteItem(i, item) = <<a>> \o m \o <<c>>
      PROVE  \E S : /\ \A e \in S : e.op \in Operations
                    /\ CompleteItem(i, item) \in Seq(S) /\ CompleteItem(i, item) # <<>>
                    /\ CompleteItem(i, item)[1] = a
  <2> HIDE DEF a, c
  <2> DEFINE S == T \cup {a, c}
  <2>1. \A e \in S : e.op \in Operations
    BY <1>0, <1>1
  <2>2. m \in Seq(S) /\ a \in S /\ c \in S
    OBVIOUS
  <2> HIDE DEF S
  <2>3. <<a>> \o m \o <<c>> \in Seq(S) /\ <<a>> \o m \o <<c>> # <<>> /\ (<<a>> \o m \o <<c>>)[1] = a
    BY <2>2
  <2> QED
    BY <1>1, <2>1, <2>3
<1>2. CASE item.kind \in ToolKinds
  <2> DEFINE b == ArgumentsDelta(i, item.content[1])
             T == {b}
  <2>1. CompleteItem(i, item) = <<a>> \o <<b>> \o <<c>>
    BY <1>2 DEF CompleteItem
  <2>2. b.op \in Operations
    BY Submissions
  <2> HIDE DEF a, b, c
  <2>3. <<b>> \in Seq(T) /\ \A e \in T : e.op \in Operations
    BY <2>2
  <2> HIDE DEF T
  <2> QED
    BY <1>1, <2>1, <2>3 DEF a
<1>3. CASE item.kind \notin ToolKinds
  <2> DEFINE part(p) == <<PartStarted(i, p), TextDelta(i, p), PartFinished(i, p)>>
             f == CHOOSE f : f = [p \in 0..n |-> IF p = 0 THEN <<>> ELSE f[p - 1] \o part(p)]
             g == [p \in 1..n |-> part(p)]
             T == UNION {{PartStarted(i, p), TextDelta(i, p), PartFinished(i, p)} : p \in 1..n}
  <2>0. n \in Nat
    BY <1>3
  <2>1. CompleteItem(i, item) = <<a>> \o f[n] \o <<c>>
    BY <1>3 DEF CompleteItem
  <2>2. Grows(<<>>, g, n, f)
    <3>1. PICK h : Grows(<<>>, g, n, h)
      BY <2>0, GrowthExists
    <3>2. h = [p \in 0..n |-> IF p = 0 THEN <<>> ELSE h[p - 1] \o part(p)]
      <4>1. \A p \in 0..n : p # 0 => g[p] = part(p)
        BY <2>0
      <4> HIDE DEF part, g
      <4> QED
        BY <2>0, <3>1, <4>1 DEF Grows
    <3>3. f = [p \in 0..n |-> IF p = 0 THEN <<>> ELSE f[p - 1] \o part(p)]
      <4> HIDE DEF part
      <4> QED
        BY <3>2
    <3>4. \A p \in 0..n : p # 0 => g[p] = part(p)
      BY <2>0
    <3> HIDE DEF part, g, f
    <3> QED
      BY <2>0, <3>3, <3>4 DEF Grows
  <2>3. \A e \in T : e.op \in Operations
    BY Submissions
  <2>4. \A p \in 1..n : g[p] \in Seq(T) /\ g[p] # <<>>
    <3> SUFFICES ASSUME NEW p \in 1..n PROVE g[p] \in Seq(T) /\ g[p] # <<>>
      OBVIOUS
    <3>1. g[p] = part(p)
      OBVIOUS
    <3> DEFINE x == PartStarted(i, p)
               y == TextDelta(i, p)
               z == PartFinished(i, p)
    <3>2. x \in T /\ y \in T /\ z \in T /\ g[p] = <<x, y, z>>
      BY <3>1
    <3> HIDE DEF x, y, z, T, g
    <3> QED
      BY <3>2
  <2> HIDE DEF f, g, T
  <2>5. <<>> \in Seq(T)
    OBVIOUS
  <2>6. GrownTo(T, g, f[n], n)
    BY <2>0, <2>2, <2>4, <2>5, GrowthIsOrdered
  <2>7. f[n] \in Seq(T)
    BY <2>6 DEF GrownTo
  <2> HIDE DEF a, c
  <2> QED
    BY <1>1, <2>1, <2>3, <2>7 DEF a
<1> QED
  BY <1>2, <1>3

\* A response that decodes makes no call twice.
LEMMA DecodesDistinct ==
  ASSUME NEW O, NEW status, IsSeq(O), Decodes(O, status),
         \A i \in DOMAIN O : O[i].kind \notin ToolKinds => Len(O[i].content) \in Nat
  PROVE  \A i, j \in ToolPlaces(O) : O[i].call = O[j].call => i = j
<1> DEFINE n == Len(O)
           f == CHOOSE f : f = [k \in 0..n |-> IF k = 0 THEN <<Started>> ELSE f[k - 1] \o CompleteItem(k, O[k])]
           g == [k \in 1..n |-> CompleteItem(k, O[k])]
           a == <<Started>>
           all == f[n] \o <<Finished(status)>>
           S == {e \in UNION {Range(g[k]) : k \in 1..n} : e.op \in Operations} \cup {Started, Finished(status)}
<1>0. n \in Nat /\ DOMAIN O = 1..n
  BY DEF IsSeq
<1>1. ApplyAll(NewValidator, all).ok
  BY DEF Decodes
<1>2. Grows(a, g, n, f)
  <2>1. PICK h : Grows(a, g, n, h)
    BY <1>0, GrowthExists
  <2>2. \A k \in 0..n : k # 0 => g[k] = CompleteItem(k, O[k])
    BY <1>0
  <2> HIDE DEF g, n
  <2>3. h = [k \in 0..n |-> IF k = 0 THEN <<Started>> ELSE h[k - 1] \o CompleteItem(k, O[k])]
    BY <1>0, <2>1, <2>2 DEF Grows
  <2>4. f = [k \in 0..n |-> IF k = 0 THEN <<Started>> ELSE f[k - 1] \o CompleteItem(k, O[k])]
    BY <2>3
  <2> HIDE DEF f
  <2> QED
    BY <1>0, <2>2, <2>4 DEF Grows
<1> HIDE DEF f
<1>3. \A e \in S : e.op \in Operations
  <2>1. Started.op \in Operations /\ Finished(status).op \in Operations
    BY DEF Started, Finished, Operations
  <2> QED
    BY <2>1
<1>4. ASSUME NEW k \in 1..n
      PROVE  g[k] \in Seq(S) /\ g[k] # <<>> /\ g[k][1] = ItemStarted(k, k, O[k].kind, O[k].call)
  <2>1. g[k] = CompleteItem(k, O[k])
    OBVIOUS
  <2>2. PICK T : /\ \A e \in T : e.op \in Operations
                 /\ g[k] \in Seq(T) /\ g[k] # <<>> /\ g[k][1] = ItemStarted(k, k, O[k].kind, O[k].call)
    BY <1>0, <2>1, CompleteItemShape
  <2>3. IsSeq(g[k]) /\ Range(g[k]) \subseteq T
    BY <2>2, SeqIsSeq
  <2>4. Range(g[k]) \subseteq S
    <3> HIDE DEF g
    <3> QED
      BY <2>2, <2>3
  <2> HIDE DEF S, g
  <2> QED
    BY <2>2, <2>3, <2>4 DEF IsSeq
<1>5. a \in Seq(S) /\ Finished(status) \in S
  <2>1. Started \in S /\ Finished(status) \in S
    OBVIOUS
  <2> HIDE DEF S
  <2> QED
    BY <2>1
<1> HIDE DEF S, g, a
<1>6. GrownTo(S, g, f[n], n)
  BY <1>0, <1>2, <1>4, <1>5, GrowthIsOrdered
<1>7. all \in Seq(S) /\ \A x \in DOMAIN f[n] : x \in 1..Len(all) /\ all[x] = f[n][x]
  BY <1>5, <1>6 DEF GrownTo
<1> HIDE DEF all
<1>8. CallsAfter(NewValidator, all, ApplyAll(NewValidator, all), Len(all))
  <2>1. ItemsShape(NewValidator)
    <3>1. NewValidator.items = <<>>
      BY DEF NewValidator
    <3> QED
      BY <3>1 DEF ItemsShape
  <2> QED
    BY <1>1, <1>3, <1>7, <2>1, RunCalls
<1>9. ASSUME NEW i \in ToolPlaces(O), NEW j \in ToolPlaces(O), O[i].call = O[j].call, i < j PROVE FALSE
  <2>1. i \in 1..n /\ j \in 1..n /\ O[i].kind \in ToolKinds /\ O[j].kind \in ToolKinds
    BY <1>0 DEF ToolPlaces
  <2>2. PICK x, y \in DOMAIN f[n] : x < y /\ f[n][x] = g[i][1] /\ f[n][y] = g[j][1]
    BY <1>6, <1>9, <2>1 DEF GrownTo
  <2>3. /\ x \in 1..Len(all) /\ y \in 1..Len(all)
        /\ all[x] = ItemStarted(i, i, O[i].kind, O[i].call) /\ all[y] = ItemStarted(j, j, O[j].kind, O[j].call)
    BY <1>4, <1>7, <2>1, <2>2
  <2>4. all[x].op = "item" /\ all[y].op = "item" /\ all[y].kind = O[j].kind /\ all[x].call = all[y].call
    BY <1>9, <2>3 DEF ItemStarted
  <2> QED
    BY <1>8, <2>1, <2>2, <2>3, <2>4 DEF CallsAfter
<1>10. \A i, j \in ToolPlaces(O) : i \in Nat /\ j \in Nat
  BY <1>0 DEF ToolPlaces
<1> QED
  BY <1>9, <1>10

-----------------------------------------------------------------------------
(* What the request grants, and batches of events that give it.            *)

LEMMA AtMostOne ==
  ASSUME NEW S, IsFiniteSet(S)
  PROVE  /\ Cardinality(S) <= 1 => \A i, j \in S : i = j
         /\ Cardinality(S) > 0 => S # {}
         /\ Cardinality(S) \in Nat
<1>1. Cardinality(S) \in Nat
  BY FS_CardinalityType
<1>2. ASSUME NEW i \in S, NEW j \in S, i # j PROVE Cardinality(S) > 1
  <2>1. IsFiniteSet({j}) /\ Cardinality({j}) = 1
    BY FS_Singleton
  <2>2. Cardinality({j} \cup {i}) = 2 /\ IsFiniteSet({j} \cup {i})
    BY <1>2, <2>1, FS_AddElement
  <2>3. Cardinality({j} \cup {i}) <= Cardinality(S)
    BY FS_Subset
  <2> QED
    BY <1>1, <2>2, <2>3
<1>3. Cardinality({}) = 0
  BY FS_EmptySet
<1> QED
  BY <1>1, <1>2, <1>3

\* The request's rule for the number of calls.
LEMMA CountGrants ==
  ASSUME NEW S, IsFiniteSet(S), NEW completed, CountAllowed(Cardinality(S), completed)
  PROVE  /\ request.parallel \/ \A i, j \in S : i = j
         /\ completed /\ request.choice = "required" => S # {}
  BY AtMostOne DEF CountAllowed

\* A tool whose arguments are whole.
LEMMA RestoredTool ==
  ASSUME NEW kind \in ToolKinds, NEW call \in CallIds, NEW raw, Restorable(raw)
  PROVE  /\ ToolItem(kind, call, raw) \in ToolItems
         /\ ToolItem(kind, call, raw).kind = kind /\ ToolItem(kind, call, raw).call = call
         /\ kind = "function" => ToolItem(kind, call, raw).content = <<Document>>
<1> DEFINE C == {"{", "}", "input"}
           d == Document
           r == Restored(kind, raw)
<1>1. d \in Seq(C) /\ <<"input">> \in Seq(C)
  BY DEF Document
<1>2. r \in Seq(C) /\ (kind = "function" => r = d)
  BY <1>1 DEF Restored, Restorable
<1> HIDE DEF C, r, d
<1>3. <<r>> \in Seq(Seq(C))
  BY <1>2
<1>4. ToolItem(kind, call, raw) = [kind |-> kind, call |-> call, content |-> <<r>>]
  BY DEF ToolItem, Item, r
<1>5. ToolItems = [kind : ToolKinds, call : CallIds, content : Seq(Seq(C))]
  BY DEF ToolItems, C
<1>6. kind = "function" => ToolItem(kind, call, raw).content = <<d>>
  BY <1>2, <1>4
<1> QED
  BY <1>3, <1>4, <1>5, <1>6 DEF d

LEMMA GrantMade ==
  ASSUME NEW O, NEW status, IsSeq(O), Decodes(O, status),
         \A i \in DOMAIN O : O[i].kind \notin ToolKinds => Len(O[i].content) \in Nat,
         \A i \in ToolPlaces(O) : O[i] \in ToolItems /\ (O[i].kind = "function" => O[i].content = <<Document>>),
         request.parallel \/ \A i, j \in ToolPlaces(O) : i = j,
         ToolPlaces(O) # {} => Resolves
  PROVE  Grantable(O)
<1>1. IsFiniteSet(DOMAIN O)
  <2> DEFINE n == Len(O)
  <2>1. DOMAIN O = 1..n /\ n \in Int /\ 1 \in Int
    BY DEF IsSeq
  <2> HIDE DEF n
  <2> QED
    BY <2>1, FS_Interval
<1>2. \A i, j \in ToolPlaces(O) : O[i].call = O[j].call => i = j
  BY DecodesDistinct
<1> QED
  BY <1>1, <1>2 DEF Grantable

\* Events that finish no tool and no response.
Silent(s) == Events(s) /\ \A x \in DOMAIN s : ~ToolDone(s[x]) /\ ~Finishes(s[x])

\* Events that finish the tools of O, and not the response.
Gives(O, s) ==
    /\ Events(s) /\ Ordered(s) /\ Follows(O, s)
    /\ \A x \in DOMAIN s : ~Finishes(s[x])
    /\ \A i \in ToolPlaces(O) : \E x \in DOMAIN s : ToolDone(s[x]) /\ s[x].i = i

\* The events of one item at place b.
ItemBlock(b, item, s) ==
    /\ Events(s) /\ Ordered(s)
    /\ \A x \in DOMAIN s : /\ s[x].ev \in {"added", "done"} => s[x].i = b
                           /\ ToolDone(s[x]) => s[x].item = item
                           /\ ~Finishes(s[x])
    /\ item.kind \in ToolKinds => \E x \in DOMAIN s : ToolDone(s[x])

LEMMA SilentQuiet ==
  ASSUME NEW s, AllQuiet(s)
  PROVE  Silent(s)
  BY DEF AllQuiet, Range, Quiet, Silent, Events, EventKinds, ToolDone, Finishes

LEMMA BlocksGive ==
  ASSUME NEW n \in Nat, NEW O, DOMAIN O = 1..n, NEW seqs, seqs = [i \in 1..n |-> seqs[i]],
         \A b \in 1..n : ItemBlock(b, O[b], seqs[b])
  PROVE  Gives(O, FlattenSeq(seqs))
<1> DEFINE s == FlattenSeq(seqs)
<1>1. Events(s) /\ Ordered(s)
  BY OrderedBlocks DEF ItemBlock
<1>2. /\ \A x \in DOMAIN s : \E i \in 1..n : \E k \in DOMAIN seqs[i] : s[x] = seqs[i][k]
      /\ \A i \in 1..n : \A k \in DOMAIN seqs[i] : \E x \in DOMAIN s : s[x] = seqs[i][k]
  <2>1. \A i \in 1..n : IsSeq(seqs[i])
    BY DEF ItemBlock, Events
  <2>2. Joins(seqs, n, s)
    BY <2>1, FlattenJoins
  <2> HIDE DEF s
  <2> QED
    BY <2>2 DEF Joins, Placed
<1> HIDE DEF s
<1>3. ASSUME NEW x \in DOMAIN s PROVE ~Finishes(s[x]) /\ (ToolDone(s[x]) => s[x].i \in DOMAIN O /\ s[x].item = O[s[x].i])
  <2>1. PICK i \in 1..n : \E k \in DOMAIN seqs[i] : s[x] = seqs[i][k]
    BY <1>2
  <2>2. s[x].ev \in {"added", "done"} => s[x].i = i
    BY <2>1 DEF ItemBlock
  <2>3. ToolDone(s[x]) => s[x].ev = "done"
    BY DEF ToolDone
  <2> QED
    BY <2>1, <2>2, <2>3 DEF ItemBlock
<1>4. ASSUME NEW i \in ToolPlaces(O) PROVE \E x \in DOMAIN s : ToolDone(s[x]) /\ s[x].i = i
  <2>1. i \in 1..n /\ O[i].kind \in ToolKinds
    BY DEF ToolPlaces
  <2>2. PICK k \in DOMAIN seqs[i] : ToolDone(seqs[i][k])
    BY <2>1 DEF ItemBlock
  <2>3. seqs[i][k].i = i
    BY <2>1, <2>2 DEF ItemBlock, ToolDone
  <2> QED
    BY <1>2, <2>1, <2>2, <2>3
<1> QED
  BY <1>1, <1>3, <1>4 DEF Gives, Follows, s

LEMMA SilentThenGives ==
  ASSUME NEW O, NEW q, NEW s, Silent(q), Gives(O, s)
  PROVE  Gives(O, q \o s)
<1> DEFINE u == q \o s
<1>1. /\ DOMAIN q = 1..Len(q) /\ DOMAIN s = 1..Len(s) /\ Len(q) \in Nat /\ Len(s) \in Nat
      /\ DOMAIN u = 1..(Len(q) + Len(s))
      /\ \A x \in 1..Len(q) : u[x] = q[x]
      /\ \A x \in 1..Len(s) : u[Len(q) + x] = s[x]
      /\ \A x \in DOMAIN u : x \notin DOMAIN q => x - Len(q) \in DOMAIN s /\ u[x] = s[x - Len(q)]
  BY ConcatPlaces DEF Silent, Gives, Events
<1>2. Events(u) /\ Ordered(u)
  <2>1. Ordered(q)
    BY DEF Silent, Ordered
  <2> QED
    BY <2>1, OrderedConcat DEF Silent, Gives
<1> HIDE DEF u
<1>3. ASSUME NEW x \in DOMAIN u PROVE ~Finishes(u[x]) /\ (ToolDone(u[x]) => u[x].i \in DOMAIN O /\ u[x].item = O[u[x].i])
  <2>1. CASE x \in DOMAIN q
    BY <1>1, <2>1 DEF Silent
  <2>2. CASE x \notin DOMAIN q
    BY <1>1, <2>2 DEF Gives, Follows
  <2> QED
    BY <2>1, <2>2
<1>4. ASSUME NEW i \in ToolPlaces(O) PROVE \E x \in DOMAIN u : ToolDone(u[x]) /\ u[x].i = i
  <2>1. PICK x \in DOMAIN s : ToolDone(s[x]) /\ s[x].i = i
    BY DEF Gives
  <2>2. Len(q) + x \in DOMAIN u /\ u[Len(q) + x] = s[x]
    BY <1>1
  <2> QED
    BY <2>1, <2>2
<1> QED
  BY <1>2, <1>3, <1>4 DEF Gives, Follows, u

LEMMA GivesThenSilent ==
  ASSUME NEW O, NEW s, NEW q, Gives(O, s), Silent(q),
         \A y \in DOMAIN q, i \in ToolPlaces(O) : ~Undoes(q[y], i)
  PROVE  Gives(O, s \o q)
<1> DEFINE u == s \o q
<1>1. /\ DOMAIN s = 1..Len(s) /\ DOMAIN q = 1..Len(q) /\ Len(s) \in Nat /\ Len(q) \in Nat
      /\ DOMAIN u = 1..(Len(s) + Len(q))
      /\ \A x \in 1..Len(s) : u[x] = s[x]
      /\ \A x \in DOMAIN u : x \notin DOMAIN s => x - Len(s) \in DOMAIN q /\ u[x] = q[x - Len(s)]
  BY ConcatPlaces DEF Silent, Gives, Events
<1>2. Events(u) /\ Ordered(u)
  <2>1. Ordered(q)
    BY DEF Silent, Ordered
  <2>2. \A x \in DOMAIN s : ToolDone(s[x]) => s[x].i \in ToolPlaces(O)
    BY DEF Gives, Follows, ToolDone, ToolPlaces
  <2> QED
    BY <2>1, <2>2, OrderedConcat DEF Silent, Gives
<1> HIDE DEF u
<1>3. ASSUME NEW x \in DOMAIN u PROVE ~Finishes(u[x]) /\ (ToolDone(u[x]) => u[x].i \in DOMAIN O /\ u[x].item = O[u[x].i])
  <2>1. CASE x \in DOMAIN s
    BY <1>1, <2>1 DEF Gives, Follows
  <2>2. CASE x \notin DOMAIN s
    BY <1>1, <2>2 DEF Silent
  <2> QED
    BY <2>1, <2>2
<1>4. ASSUME NEW i \in ToolPlaces(O) PROVE \E x \in DOMAIN u : ToolDone(u[x]) /\ u[x].i = i
  <2>1. PICK x \in DOMAIN s : ToolDone(s[x]) /\ s[x].i = i
    BY DEF Gives
  <2>2. x \in DOMAIN u /\ u[x] = s[x]
    BY <1>1
  <2> QED
    BY <2>1, <2>2
<1> QED
  BY <1>2, <1>3, <1>4 DEF Gives, Follows, u

\* A client that knows of no tool is given those of O, and then perhaps the end.
LEMMA GivesPlan ==
  ASSUME NEW O, NEW w, NEW s, ViewQuiet(w), Grantable(O), Gives(O, s)
  PROVE  Plan(O, w, s)
  BY PlanMade DEF Gives, EndsAfterTool

LEMMA EndIsLast ==
  ASSUME NEW O, NEW w, NEW s, NEW status, NEW output, ViewQuiet(w), Grantable(O), Gives(O, s),
         status = "completed" /\ request.choice = "required" => ToolPlaces(O) # {}
  PROVE  Plan(O, w, s \o <<End(status, output)>>)
<1> DEFINE e == End(status, output)
           u == s \o <<e>>
           q == <<e>>
<1>0. e.ev = "end" /\ e.status = status
  BY DEF End
<1> HIDE DEF e
<1>a. IsSeq(q) /\ DOMAIN q = {1} /\ q[1] = e /\ Len(q) = 1
  BY DEF IsSeq, Range
<1>b. u = s \o q
  OBVIOUS
<1> HIDE DEF q
<1>1. /\ DOMAIN s = 1..Len(s) /\ Len(s) \in Nat
      /\ DOMAIN u = 1..(Len(s) + 1)
      /\ \A x \in 1..Len(s) : u[x] = s[x]
      /\ u[Len(s) + 1] = e
  <2>1. IsSeq(s)
    BY DEF Gives, Events
  <2>2. 1 \in 1..Len(q)
    BY <1>a
  <2> QED
    BY <1>a, <1>b, <2>1, <2>2, ConcatPlaces
<1>2. Events(u) /\ Ordered(u)
  <2>1. Events(q) /\ Ordered(q) /\ \A x \in DOMAIN q : \A i : ~Undoes(q[x], i)
    BY <1>0, <1>a DEF Events, EventKinds, Ordered, ToolDone, Undoes
  <2> QED
    BY <1>b, <2>1, OrderedConcat DEF Gives
<1> HIDE DEF u
<1>3. Follows(O, u)
  BY <1>0, <1>1 DEF Gives, Follows, ToolDone
<1>4. ASSUME request.choice = "required" PROVE EndsAfterTool(u)
  <2> SUFFICES ASSUME NEW x \in DOMAIN u, Finishes(u[x]) PROVE \E y \in DOMAIN u : y < x /\ ToolDone(u[y])
    BY DEF EndsAfterTool
  <2>1. x = Len(s) + 1
    BY <1>1 DEF Gives
  <2>2. status = "completed"
    BY <1>0, <1>1, <2>1 DEF Finishes
  <2>3. PICK i \in ToolPlaces(O) : TRUE
    BY <1>4, <2>2
  <2>4. PICK y \in DOMAIN s : ToolDone(s[y])
    BY <2>3 DEF Gives
  <2> QED
    BY <1>1, <2>1, <2>4
<1>5. Plan(O, w, u)
  BY <1>2, <1>3, <1>4, PlanMade
<1> QED
  BY <1>5 DEF u, e

LEMMA FunIsSeq ==
  ASSUME NEW n \in Nat, NEW t, t = [i \in 1..n |-> t[i]]
  PROVE  IsSeq(t) /\ Len(t) = n /\ DOMAIN t = 1..n
<1> DEFINE S == Range(t)
<1>1. DOMAIN t = 1..n /\ \A i \in 1..n : t[i] \in S
  BY DEF Range
<1> HIDE DEF S
<1>2. t \in [1..n -> S]
  BY <1>1
<1>3. t \in Seq(S) /\ Len(t) = n
  BY <1>2
<1> QED
  BY <1>1, <1>3 DEF IsSeq, S

\* The events of an item.
LEMMA ItemBlocks ==
  ASSUME NEW i, NEW item
  PROVE  /\ ItemBlock(i, item, <<Done(i, item)>>)
         /\ item.kind \in ToolKinds => ItemBlock(i, item, ToolEvents(i, item)) /\ ItemBlock(i, item, Tail(ToolEvents(i, item)))
         /\ item.kind \notin ToolKinds => ItemBlock(i, item, <<>>)
<1> DEFINE a == Added(i, item.kind, item.call, TRUE)
           b == Delta(i, 1, item.content[1])
           c == Done(i, item)
<1>1. /\ a.ev = "added" /\ a.i = i /\ b.ev = "delta" /\ c.ev = "done" /\ c.i = i /\ c.item = item
  BY DEF Added, Delta, Done
<1>2. ToolEvents(i, item) = <<a, b, c>>
  BY DEF ToolEvents
<1> HIDE DEF a, b, c
<1>3. /\ ~ToolDone(a) /\ ~ToolDone(b) /\ (ToolDone(c) <=> item.kind \in ToolKinds)
      /\ ~Finishes(a) /\ ~Finishes(b) /\ ~Finishes(c)
      /\ a.ev \in EventKinds /\ b.ev \in EventKinds /\ c.ev \in EventKinds
  BY <1>1 DEF ToolDone, Finishes, EventKinds
<1>4. ASSUME NEW s, IsSeq(s), NEW n \in {0, 1, 2, 3}, DOMAIN s = 1..n, \A x \in 1..n : s[x] \in {a, b, c} /\ (s[x] = c => x = n),
             item.kind \in ToolKinds => n # 0 /\ s[n] = c
      PROVE  ItemBlock(i, item, s)
  <2>1. Events(s)
    BY <1>3, <1>4 DEF Events
  <2>2. \A x \in DOMAIN s : ToolDone(s[x]) => s[x] = c
    BY <1>3, <1>4
  <2>3. Ordered(s)
    BY <1>4, <2>2 DEF Ordered
  <2> QED
    BY <1>1, <1>3, <1>4, <2>1, <2>2, <2>3 DEF ItemBlock
<1>5. a # c /\ b # c
  BY <1>1
<1>6. ItemBlock(i, item, <<c>>)
  <2> DEFINE s == <<c>>
  <2>1. IsSeq(s) /\ DOMAIN s = 1..1 /\ s[1] = c
    BY DEF IsSeq, Range
  <2> HIDE DEF s
  <2>2. ItemBlock(i, item, s)
    BY <1>4, <2>1
  <2> QED
    BY <2>2 DEF s
<1>7. ASSUME item.kind \in ToolKinds PROVE ItemBlock(i, item, <<a, b, c>>) /\ ItemBlock(i, item, Tail(<<a, b, c>>))
  <2> DEFINE s == <<a, b, c>>
             t == Tail(s)
             S == {a, b, c}
  <2>1. s \in Seq(S) /\ DOMAIN s = 1..3 /\ s[1] = a /\ s[2] = b /\ s[3] = c
    OBVIOUS
  <2>2. t \in Seq(S) /\ DOMAIN t = 1..2 /\ t[1] = b /\ t[2] = c
    OBVIOUS
  <2> HIDE DEF s, t, S
  <2>3. IsSeq(s) /\ IsSeq(t)
    BY <2>1, <2>2, SeqIsSeq
  <2>4. ItemBlock(i, item, s)
    <3>1. \A x \in 1..3 : s[x] \in {a, b, c} /\ (s[x] = c => x = 3)
      BY <1>5, <2>1
    <3> QED
      BY <1>4, <2>1, <2>3, <3>1
  <2>5. ItemBlock(i, item, t)
    <3>1. \A x \in 1..2 : t[x] \in {a, b, c} /\ (t[x] = c => x = 2)
      BY <1>5, <2>2
    <3> QED
      BY <1>4, <2>2, <2>3, <3>1
  <2> QED
    BY <2>4, <2>5 DEF s, t
<1>8. ASSUME item.kind \notin ToolKinds PROVE ItemBlock(i, item, <<>>)
  <2> DEFINE s == <<>>
  <2>1. IsSeq(s) /\ DOMAIN s = 1..0
    BY DEF IsSeq, Range
  <2> HIDE DEF s
  <2>2. ItemBlock(i, item, s)
    BY <1>4, <1>8, <2>1
  <2> QED
    BY <2>2 DEF s
<1> QED
  BY <1>2, <1>6, <1>7, <1>8 DEF c

-----------------------------------------------------------------------------
(* Chat Completions.                                                       *)

CallShape(c) == DOMAIN c = {"call", "kind", "raw"} /\ c.call \in CallIds /\ c.kind \in ToolKinds

CallsReady(calls) == IsFiniteSet(DOMAIN calls) /\ \A i \in DOMAIN calls : CallShape(calls[i])

\* What a decoded chat completion looks like.
LEMMA ChatOutputShape ==
  ASSUME NEW text, NEW calls, CallsReady(calls), DOMAIN calls = 1..Cardinality(DOMAIN calls)
  PROVE  \E off \in {0, 1}, n \in Nat :
            /\ n = Cardinality(DOMAIN calls) /\ IsSeq(ChatOutput(text, calls))
            /\ DOMAIN ChatOutput(text, calls) = 1..(off + n)
            /\ off = 1 => ChatOutput(text, calls)[1] = Message(<<text>>)
            /\ \A k \in 1..n : ChatOutput(text, calls)[off + k] = ToolItem(calls[k].kind, calls[k].call, calls[k].raw)
<1> DEFINE n == Cardinality(DOMAIN calls)
           s == IF text = None THEN <<>> ELSE <<Message(<<text>>)>>
           t == [i \in 1..n |-> ToolItem(calls[i].kind, calls[i].call, calls[i].raw)]
           O == ChatOutput(text, calls)
<1>1. n \in Nat
  BY FS_CardinalityType DEF CallsReady
<1> HIDE DEF n
<1>2. O = s \o t
  BY DEF ChatOutput, n
<1>3. IsSeq(t) /\ Len(t) = n /\ \A i \in 1..n : t[i] = ToolItem(calls[i].kind, calls[i].call, calls[i].raw)
  <2>1. t = [i \in 1..n |-> t[i]] /\ \A i \in 1..n : t[i] = ToolItem(calls[i].kind, calls[i].call, calls[i].raw)
    OBVIOUS
  <2> HIDE DEF t
  <2> QED
    BY <1>1, <2>1, FunIsSeq
<1>4. IsSeq(s) /\ Len(s) \in {0, 1} /\ (Len(s) = 1 => s[1] = Message(<<text>>))
  <2> DEFINE m == Message(<<text>>)
  <2> HIDE DEF m
  <2>1. IsSeq(<<>>) /\ Len(<<>>) = 0 /\ IsSeq(<<m>>) /\ Len(<<m>>) = 1 /\ <<m>>[1] = m
    BY DEF IsSeq, Range
  <2>2. s = <<>> \/ s = <<m>>
    BY DEF m
  <2> HIDE DEF s
  <2> QED
    BY <2>1, <2>2 DEF m
<1> HIDE DEF s, t, O
<1>5. /\ IsSeq(O) /\ DOMAIN O = 1..(Len(s) + n) /\ DOMAIN s = 1..Len(s)
      /\ \A x \in 1..Len(s) : O[x] = s[x]
      /\ \A x \in 1..n : O[Len(s) + x] = t[x]
  BY <1>2, <1>3, <1>4, ConcatPlaces
<1>6. Len(s) = 1 => O[1] = Message(<<text>>)
  BY <1>4, <1>5
<1> QED
  BY <1>1, <1>3, <1>4, <1>5, <1>6 DEF O, n

LEMMA ChatGrants ==
  ASSUME NEW text, NEW calls, NEW reason, CallsReady(calls), ChatDecodable(text, calls, reason)
  PROVE  /\ Grantable(ChatOutput(text, calls)) /\ IsSeq(ChatOutput(text, calls))
         /\ \A i \in DOMAIN ChatOutput(text, calls) : ChatOutput(text, calls)[i].kind \in ToolKinds \cup {"message"}
         /\ ChatStatus(reason) = "completed" /\ request.choice = "required" => ToolPlaces(ChatOutput(text, calls)) # {}
<1> DEFINE O == ChatOutput(text, calls)
<1>1. PICK off \in {0, 1}, n \in Nat :
            /\ n = Cardinality(DOMAIN calls) /\ IsSeq(O)
            /\ DOMAIN O = 1..(off + n)
            /\ off = 1 => O[1] = Message(<<text>>)
            /\ \A k \in 1..n : O[off + k] = ToolItem(calls[k].kind, calls[k].call, calls[k].raw)
  BY ChatOutputShape DEF ChatDecodable
<1>2. /\ DOMAIN calls = 1..n /\ \A i \in 1..n : Restorable(calls[i].raw) /\ Resolves
      /\ CountAllowed(n, ChatStatus(reason) = "completed") /\ Decodes(O, ChatStatus(reason))
  BY <1>1 DEF ChatDecodable, ChatTerminal
<1> HIDE DEF O
<1>3. ASSUME NEW k \in 1..n
      PROVE  /\ O[off + k].kind \in ToolKinds /\ O[off + k] \in ToolItems
             /\ O[off + k].kind = "function" => O[off + k].content = <<Document>>
  <2>1. calls[k].call \in CallIds /\ calls[k].kind \in ToolKinds /\ Restorable(calls[k].raw)
    BY <1>2 DEF CallsReady, CallShape
  <2> QED
    BY <1>1, <2>1, RestoredTool
<1>4. off = 1 => O[1].kind = "message" /\ Len(O[1].content) = 1
  BY <1>1 DEF Message, Item
<1>5. ASSUME NEW x \in DOMAIN O
      PROVE  (x = 1 /\ off = 1) \/ (x - off \in 1..n /\ x = off + (x - off))
  BY <1>1
<1>6. \A x \in ToolPlaces(O) : x - off \in 1..n /\ x = off + (x - off)
  BY <1>4, <1>5 DEF ToolPlaces, ToolKinds
<1>7. \A x \in DOMAIN O : O[x].kind \in ToolKinds \/ (O[x].kind = "message" /\ Len(O[x].content) = 1)
  BY <1>3, <1>4, <1>5
<1>8. ToolPlaces(O) # {} => Resolves
  BY <1>2, <1>6
<1>9. request.parallel \/ \A x, y \in ToolPlaces(O) : x = y
  <2> SUFFICES ASSUME n <= 1, NEW x \in ToolPlaces(O), NEW y \in ToolPlaces(O) PROVE x = y
    BY <1>2 DEF CountAllowed
  <2> QED
    BY <1>1, <1>6
<1>10. \A x \in ToolPlaces(O) : O[x] \in ToolItems /\ (O[x].kind = "function" => O[x].content = <<Document>>)
  BY <1>3, <1>6
<1>11. Grantable(O)
  BY <1>1, <1>2, <1>7, <1>8, <1>9, <1>10, GrantMade
<1>12. ASSUME ChatStatus(reason) = "completed", request.choice = "required" PROVE ToolPlaces(O) # {}
  <2>1. n > 0
    BY <1>2, <1>12 DEF CountAllowed
  <2>2. 1 \in 1..n /\ off + 1 \in DOMAIN O
    BY <1>1, <2>1
  <2>3. off + 1 \in ToolPlaces(O)
    BY <1>3, <2>2 DEF ToolPlaces
  <2> QED
    BY <2>3
<1> QED
  BY <1>1, <1>7, <1>11, <1>12 DEF O

-----------------------------------------------------------------------------
(* The adapters one by one: what they keep, and what they plan.            *)

\* Every tool of O has been given to the client or is on its way.
Given(O, w, s) ==
    \A i \in ToolPlaces(O) : i \in DoneIn(w) \/ \E x \in DOMAIN s : ToolDone(s[x]) /\ s[x].i = i

LEMMA GivenDelivered ==
  ASSUME NEW O, NEW w, NEW s, Plan(O, w, s), Given(O, w, s), s # <<>>
  PROVE  Given(O, Received(w, Head(s)), Tail(s))
<1> DEFINE e == Head(s)
           t == Tail(s)
           v == Received(w, e)
<1>0. IsSeq(s)
  BY DEF Plan, Events
<1>1. /\ 1 \in DOMAIN s /\ e = s[1]
      /\ \A x \in DOMAIN s : x # 1 => x - 1 \in DOMAIN t /\ t[x - 1] = s[x]
  <2> DEFINE S == Range(s)
  <2>1. s \in Seq(S)
    BY <1>0 DEF IsSeq
  <2> HIDE DEF S
  <2> QED
    BY <2>1
<1> HIDE DEF e, t
<1>2. ViewShape(w) /\ e.ev \in EventKinds /\ (ToolDone(e) => e.item # None)
  <2>1. ViewShape(w) /\ e.ev \in EventKinds /\ (ToolDone(e) => e.i \in DOMAIN O /\ e.item = O[e.i])
    BY <1>1 DEF Plan, Events, Follows
  <2>2. ToolDone(e) => e.item \in ToolItems
    BY <2>1 DEF Plan, Grantable, ToolDone, ToolPlaces
  <2> QED
    BY <2>1, <2>2, AbsentAssumption DEF ToolItems
<1>3. \A i : i \in DoneIn(v) <=> IF e.ev \in {"added", "done"} /\ e.i = i THEN ToolDone(e) ELSE i \in DoneIn(w)
  BY <1>2, ReceivedDone
<1> HIDE DEF v
<1>4. DoneIn(w) \subseteq DoneIn(v) /\ (ToolDone(e) => e.i \in DoneIn(v))
  <2>1. \A i \in DoneIn(w) : ~Undoes(e, i)
    BY <1>1 DEF Plan
  <2> QED
    BY <1>3, <2>1 DEF Undoes, ToolDone
<1>5. Given(O, v, t)
  <2> SUFFICES ASSUME NEW i \in ToolPlaces(O), i \notin DoneIn(v)
               PROVE  \E x \in DOMAIN t : ToolDone(t[x]) /\ t[x].i = i
    BY DEF Given
  <2>1. PICK x \in DOMAIN s : ToolDone(s[x]) /\ s[x].i = i
    BY <1>4 DEF Given
  <2>2. x # 1
    BY <1>1, <1>4, <2>1
  <2> QED
    BY <1>1, <2>1, <2>2
<1> QED
  BY <1>5 DEF v, e, t

\* Once everything is given, what follows touches no tool.
LEMMA LaterPlan ==
  ASSUME NEW O, NEW w, NEW t, Plan(O, w, <<>>), Given(O, w, <<>>), Events(t),
         \A x \in DOMAIN t : ~ToolDone(t[x]) /\ \A i \in DoneIn(w) : ~Undoes(t[x], i),
         \A x \in DOMAIN t : Finishes(t[x]) /\ request.choice = "required" => ToolPlaces(O) # {}
  PROVE  Plan(O, w, t) /\ Given(O, w, t)
<1>1. ToolPlaces(O) \subseteq DoneIn(w)
  <2> DEFINE e == <<>>
  <2>1. DOMAIN e = {}
    OBVIOUS
  <2> HIDE DEF e
  <2>2. Given(O, w, e)
    BY DEF e
  <2> QED
    BY <2>1, <2>2 DEF Given
<1>2. Given(O, w, t)
  BY <1>1 DEF Given
<1>3. Follows(O, t) /\ Ordered(t)
  BY DEF Follows, Ordered
<1>4. /\ ViewShape(w) /\ Grantable(O) /\ \A i \in DoneIn(w) : i \in DOMAIN O /\ w.items[i].item = O[i]
      /\ request.choice = "required" /\ w.end = "completed" => DoneIn(w) # {}
  BY DEF Plan
<1>5. ASSUME request.choice = "required", NEW x \in DOMAIN t, Finishes(t[x]) PROVE DoneIn(w) # {}
  BY <1>1, <1>5
<1> QED
  BY <1>2, <1>3, <1>4, <1>5 DEF Plan

ChatReady(s, w, o) ==
    /\ DOMAIN s.calls \subseteq 1..MaxItems /\ \A i \in DOMAIN s.calls : CallShape(s.calls[i])
    /\ s.finish # None =>
          /\ Plan(s.final, w, o) /\ Given(s.final, w, o)
          /\ ChatStatus(s.finish) = "completed" /\ request.choice = "required" => ToolPlaces(s.final) # {}

LEMMA UpToMaxItems ==
  ASSUME NEW S, S \subseteq 1..MaxItems
  PROVE  IsFiniteSet(S)
<1>1. MaxItems \in Nat
  BY LimitsAssumption
<1>2. IsFiniteSet(1..MaxItems)
  BY <1>1, FS_Interval
<1> QED
  BY <1>2, FS_Subset

\* A chunk of the stateless stream.
LEMMA ChatPlans ==
  ASSUME DOMAIN st = DOMAIN ChatInit, ChatReady(st, view, out), st.finish = None => ViewQuiet(view), ChatNext
  PROVE  ChatReady(st', view, out')
<1>0. DOMAIN st = {"started", "text", "calls", "finish", "final", "done"}
  BY DEF ChatInit
<1>1. Silent(FirstOut) /\ \A x \in DOMAIN FirstOut : \A i : ~Undoes(FirstOut[x], i)
  <2> DEFINE s == <<>>
             t == <<Created>>
  <2>1. AllQuiet(FirstOut)
    BY QuietNone, QuietOne, QuietEvents DEF FirstOut
  <2>2. DOMAIN s = {} /\ DOMAIN t = {1} /\ t[1].ev = "created"
    BY DEF Created
  <2>3. FirstOut = s \/ FirstOut = t
    BY DEF FirstOut
  <2> HIDE DEF s, t
  <2>4. \A x \in DOMAIN FirstOut : FirstOut[x].ev = "created"
    BY <2>2, <2>3
  <2> QED
    BY <2>1, <2>4, SilentQuiet DEF Undoes
<1>2. ASSUME NEW t \in Fragments, ChatText(t) PROVE ChatReady(st', view, out')
  <2>1. st.finish = None /\ st'.finish = st.finish /\ st'.calls = st.calls
    BY <1>0, <1>2 DEF ChatText, Handle
  <2> QED
    BY <2>1 DEF ChatReady
<1>3. ASSUME NEW i \in 1..MaxItems, NEW call \in CallIds, NEW kind \in ToolKinds, NEW piece \in Pieces,
             ChatTool(i, call, kind, piece)
      PROVE  ChatReady(st', view, out')
  <2> DEFINE old == IF i \in DOMAIN st.calls THEN st.calls[i] ELSE ChatCall(call, kind)
             new == [old EXCEPT !.raw = @ \o piece]
             calls == Put(st.calls, i, new)
  <2>1. st.finish = None /\ st' = [st EXCEPT !.started = TRUE, !.calls = calls]
    BY <1>3 DEF ChatTool, Handle
  <2>2. CallShape(old)
    BY DEF ChatReady, CallShape, ChatCall
  <2> HIDE DEF old
  <2>3. CallShape(new)
    BY <2>2 DEF CallShape
  <2> HIDE DEF new
  <2>4. DOMAIN calls = (DOMAIN st.calls) \cup {i} /\ \A j \in DOMAIN calls : calls[j] = IF j = i THEN new ELSE st.calls[j]
    BY DEF Put
  <2> HIDE DEF calls
  <2>5. st'.finish = None /\ st'.calls = calls
    BY <1>0, <2>1
  <2> QED
    BY <2>3, <2>4, <2>5 DEF ChatReady
<1>4. ASSUME NEW reason \in FinishReasons, ChatFinish(reason) PROVE ChatReady(st', view, out')
  <2> DEFINE O == ChatOutput(st.text, st.calls)
             seqs == [i \in DOMAIN O |-> ChatReleased(i, O[i])]
  <2>1. /\ st.finish = None /\ ChatDecodable(st.text, st.calls, reason)
        /\ st' = [st EXCEPT !.started = TRUE, !.finish = reason, !.final = O]
        /\ out' = FirstOut \o FlattenSeq(seqs)
    BY <1>4 DEF ChatFinish, Handle
  <2>2. CallsReady(st.calls)
    BY UpToMaxItems DEF ChatReady, CallsReady
  <2>3. /\ Grantable(O) /\ IsSeq(O)
        /\ \A i \in DOMAIN O : O[i].kind \in ToolKinds \cup {"message"}
        /\ ChatStatus(reason) = "completed" /\ request.choice = "required" => ToolPlaces(O) # {}
    BY <2>1, <2>2, ChatGrants
  <2> HIDE DEF O
  <2>4. DOMAIN O = 1..Len(O) /\ Len(O) \in Nat
    BY <2>3 DEF IsSeq
  <2>5. \A i \in 1..Len(O) : ItemBlock(i, O[i], seqs[i])
    <3> SUFFICES ASSUME NEW i \in 1..Len(O) PROVE ItemBlock(i, O[i], seqs[i])
      OBVIOUS
    <3>1. seqs[i] = ChatReleased(i, O[i])
      BY <2>4
    <3>2. CASE O[i].kind = "message"
      BY <3>1, <3>2, ItemBlocks DEF ChatReleased
    <3>3. CASE O[i].kind # "message"
      BY <2>3, <2>4, <3>1, <3>3, ItemBlocks DEF ChatReleased
    <3> QED
      BY <3>2, <3>3
  <2>6. seqs = [i \in 1..Len(O) |-> seqs[i]]
    BY <2>4
  <2> HIDE DEF seqs
  <2>7. Gives(O, FlattenSeq(seqs))
    BY <2>4, <2>5, <2>6, BlocksGive
  <2>8. Gives(O, out')
    BY <1>1, <2>1, <2>7, SilentThenGives
  <2>9. Plan(O, view, out') /\ Given(O, view, out')
    BY <2>1, <2>3, <2>8, GivesPlan DEF Given, Gives
  <2>10. st'.finish = reason /\ st'.final = O /\ st'.calls = st.calls
    BY <1>0, <2>1
  <2> QED
    BY <2>3, <2>9, <2>10 DEF ChatReady
<1>5. ASSUME NEW count, ChatUsage(count) PROVE ChatReady(st', view, out')
  <2>1. st'.finish = st.finish /\ st'.final = st.final /\ st'.calls = st.calls /\ out' = FirstOut /\ out = <<>>
    BY <1>0, <1>5 DEF ChatUsage, Handle, Reading
  <2>2. ASSUME st.finish # None PROVE Plan(st.final, view, FirstOut) /\ Given(st.final, view, FirstOut)
    <3>1. Plan(st.final, view, <<>>) /\ Given(st.final, view, <<>>)
      BY <2>1, <2>2 DEF ChatReady
    <3> QED
      BY <1>1, <3>1, LaterPlan DEF Silent
  <2> QED
    BY <2>1, <2>2 DEF ChatReady
<1>6. ASSUME ChatDone PROVE ChatReady(st', view, out')
  <2> DEFINE e == End(ChatStatus(st.finish), st.final)
             s == <<e>>
  <2>1. st.finish # None /\ st' = [st EXCEPT !.done = TRUE] /\ out' = s /\ out = <<>>
    BY <1>6 DEF ChatDone, Handle, Reading
  <2>2. st'.finish = st.finish /\ st'.final = st.final /\ st'.calls = st.calls
    BY <1>0, <2>1
  <2>3. e.ev = "end" /\ e.status = ChatStatus(st.finish)
    BY DEF End
  <2> HIDE DEF e
  <2>4. IsSeq(s) /\ DOMAIN s = {1} /\ s[1] = e
    BY DEF IsSeq, Range
  <2> HIDE DEF s
  <2>5. Events(s) /\ \A x \in DOMAIN s : ~ToolDone(s[x]) /\ \A i : ~Undoes(s[x], i)
    BY <2>3, <2>4 DEF Events, EventKinds, ToolDone, Undoes
  <2>6. Plan(st.final, view, <<>>) /\ Given(st.final, view, <<>>)
    BY <2>1 DEF ChatReady
  <2>7. \A x \in DOMAIN s : Finishes(s[x]) /\ request.choice = "required" => ToolPlaces(st.final) # {}
    BY <2>1, <2>3, <2>4 DEF Finishes, ChatReady
  <2>8. Plan(st.final, view, s) /\ Given(st.final, view, s)
    BY <2>5, <2>6, <2>7, LaterPlan
  <2> QED
    BY <2>1, <2>2, <2>8 DEF ChatReady
<1> QED
  BY <1>2, <1>3, <1>4, <1>5, <1>6 DEF ChatNext

-----------------------------------------------------------------------------
(* Managed streams: the whole response is decoded before any tool is sent. *)

\* An item that is no tool in front changes nothing.
LEMMA ShiftGrant ==
  ASSUME NEW C, IsSeq(C), Grantable(C), NEW r, r.kind \notin ToolKinds
  PROVE  /\ Grantable(<<r>> \o C) /\ IsSeq(<<r>> \o C)
         /\ ToolPlaces(C) # {} => ToolPlaces(<<r>> \o C) # {}
<1> DEFINE s == <<r>>
           O == s \o C
<1>0. IsSeq(s) /\ Len(s) = 1 /\ s[1] = r
  BY DEF IsSeq, Range
<1> HIDE DEF s
<1>1. /\ IsSeq(O) /\ DOMAIN s = 1..1 /\ DOMAIN C = 1..Len(C) /\ Len(C) \in Nat /\ DOMAIN O = 1..(1 + Len(C))
      /\ O[1] = r
      /\ \A x \in 1..Len(C) : O[1 + x] = C[x]
      /\ \A x \in DOMAIN O : x \notin DOMAIN s => x - 1 \in DOMAIN C /\ O[x] = C[x - 1]
  <2>1. /\ IsSeq(O) /\ DOMAIN s = 1..Len(s) /\ DOMAIN C = 1..Len(C) /\ Len(C) \in Nat /\ DOMAIN O = 1..(Len(s) + Len(C))
        /\ \A x \in 1..Len(s) : O[x] = s[x]
        /\ \A x \in 1..Len(C) : O[Len(s) + x] = C[x]
        /\ \A x \in DOMAIN O : x \notin DOMAIN s => x - Len(s) \in DOMAIN C /\ O[x] = C[x - Len(s)]
    <3>1. IsSeq(s) /\ IsSeq(C)
      BY <1>0
    <3> QED
      BY <3>1, ConcatPlaces
  <2> HIDE DEF O
  <2>2. 1 \in 1..Len(s)
    BY <1>0
  <2>3. \A x \in 1..Len(C) : O[1 + x] = C[x]
    BY <1>0, <2>1
  <2>4. \A x \in DOMAIN O : x \notin DOMAIN s => x - 1 \in DOMAIN C /\ O[x] = C[x - 1]
    BY <1>0, <2>1
  <2> QED
    BY <1>0, <2>1, <2>2, <2>3, <2>4
<1> HIDE DEF O
<1>2. \A x \in ToolPlaces(O) : x \in Nat /\ x - 1 \in ToolPlaces(C) /\ O[x] = C[x - 1]
  BY <1>1 DEF ToolPlaces
<1>3. \A x \in ToolPlaces(C) : 1 + x \in ToolPlaces(O)
  BY <1>1 DEF ToolPlaces
<1>4. IsFiniteSet(DOMAIN O)
  <2>1. 1 + Len(C) \in Nat
    BY <1>1
  <2> QED
    BY <1>1, <2>1, FS_Interval
<1>5. Grantable(O)
  <2>1. request.parallel \/ \A i, j \in ToolPlaces(O) : i = j
    <3> SUFFICES ASSUME ~request.parallel, NEW i \in ToolPlaces(O), NEW j \in ToolPlaces(O) PROVE i = j
      OBVIOUS
    <3>1. i - 1 = j - 1 /\ i \in Nat /\ j \in Nat
      BY <1>2 DEF Grantable
    <3> QED
      BY <3>1
  <2>2. \A i, j \in ToolPlaces(O) : O[i].call = O[j].call => i = j
    <3> SUFFICES ASSUME NEW i \in ToolPlaces(O), NEW j \in ToolPlaces(O), O[i].call = O[j].call PROVE i = j
      OBVIOUS
    <3>1. i - 1 = j - 1 /\ i \in Nat /\ j \in Nat
      BY <1>2 DEF Grantable
    <3> QED
      BY <3>1
  <2>3. ToolPlaces(O) # {} => Resolves
    BY <1>2 DEF Grantable
  <2>4. \A i \in ToolPlaces(O) : O[i] \in ToolItems /\ (O[i].kind = "function" => O[i].content = <<Document>>)
    BY <1>2 DEF Grantable
  <2> QED
    BY <1>4, <2>1, <2>2, <2>3, <2>4 DEF Grantable
<1> QED
  BY <1>1, <1>3, <1>5 DEF O, s

\* Parts of a list are public: what the rule says of the list it says of them.
LEMMA KeptCounts ==
  ASSUME NEW B, IsSeq(B), NEW P, NEW O, DOMAIN O = DOMAIN Kept(B, P),
         \A i \in DOMAIN O : O[i].kind \in ToolKinds <=> Kept(B, P)[i].kind \in ToolKinds,
         ToolPlaces(B) \subseteq P, CountAllowed(ToolCount(B), TRUE)
  PROVE  /\ request.parallel \/ \A i, j \in ToolPlaces(O) : i = j
         /\ request.choice = "required" => ToolPlaces(O) # {}
         /\ ToolPlaces(O) # {} => ToolPlaces(B) # {} /\ ToolCount(B) > 0
<1> DEFINE t == Kept(B, P)
<1>1. /\ IsSeq(t)
      /\ \E b : /\ \A x \in DOMAIN t : b[x] \in DOMAIN B /\ b[x] \in P /\ t[x] = B[b[x]]
                /\ \A x, y \in DOMAIN t : x < y => b[x] < b[y]
      /\ \A k \in DOMAIN B : k \in P => \E x \in DOMAIN t : t[x] = B[k]
  BY KeptJoins
<1> HIDE DEF t
<1>2. PICK b : /\ \A x \in DOMAIN t : b[x] \in DOMAIN B /\ b[x] \in P /\ t[x] = B[b[x]]
               /\ \A x, y \in DOMAIN t : x < y => b[x] < b[y]
  BY <1>1
<1>3. DOMAIN B = 1..Len(B) /\ Len(B) \in Nat /\ DOMAIN t = 1..Len(t) /\ Len(t) \in Nat /\ DOMAIN O = DOMAIN t
  BY <1>1 DEF IsSeq, t
<1>4. IsFiniteSet(ToolPlaces(B))
  <2>1. IsFiniteSet(1..Len(B))
    BY <1>3, FS_Interval
  <2>2. ToolPlaces(B) \subseteq 1..Len(B)
    BY <1>3 DEF ToolPlaces
  <2> QED
    BY <2>1, <2>2, FS_Subset
<1>5. ToolCount(B) = Cardinality(ToolPlaces(B))
  BY DEF ToolCount, ToolPlaces
<1>6. /\ request.parallel \/ \A i, j \in ToolPlaces(B) : i = j
      /\ request.choice = "required" => ToolPlaces(B) # {}
  BY <1>4, <1>5, CountGrants
<1>7. \A x \in ToolPlaces(O) : x \in DOMAIN t /\ b[x] \in ToolPlaces(B)
  BY <1>2, <1>3 DEF ToolPlaces, t
<1>8. \A x, y \in ToolPlaces(O) : b[x] = b[y] => x = y
  <2> SUFFICES ASSUME NEW x \in ToolPlaces(O), NEW y \in ToolPlaces(O), b[x] = b[y], x # y PROVE FALSE
    OBVIOUS
  <2>1. x \in DOMAIN t /\ y \in DOMAIN t /\ b[x] \in Nat /\ b[y] \in Nat /\ (x < y \/ y < x)
    BY <1>2, <1>3, <1>7
  <2> QED
    BY <1>2, <2>1
<1>9. ASSUME NEW k \in ToolPlaces(B) PROVE ToolPlaces(O) # {}
  <2>1. k \in DOMAIN B /\ B[k].kind \in ToolKinds /\ k \in P
    BY DEF ToolPlaces
  <2>2. PICK x \in DOMAIN t : t[x] = B[k]
    BY <1>1, <2>1
  <2>3. x \in ToolPlaces(O)
    BY <1>3, <2>1, <2>2 DEF ToolPlaces, t
  <2> QED
    BY <2>3
<1>10. ToolPlaces(B) # {} => ToolCount(B) > 0
  <2>1. Cardinality(ToolPlaces(B)) \in Nat
    BY <1>4, FS_CardinalityType
  <2> QED
    BY <1>4, <1>5, <2>1, FS_EmptySet
<1> QED
  BY <1>6, <1>7, <1>8, <1>9, <1>10

\* The item that carries the envelope is no tool.
LEMMA EnvelopeShape ==
  ASSUME NEW O, IsSeq(O)
  PROVE  /\ IsSeq(WithEnvelope(O)) /\ Len(WithEnvelope(O)) \in {Len(O), Len(O) + 1}
         /\ \A i \in DOMAIN O : i \in DOMAIN WithEnvelope(O) /\ WithEnvelope(O)[i] = O[i]
         /\ \A i \in DOMAIN WithEnvelope(O) : i \notin DOMAIN O => WithEnvelope(O)[i].kind = "reasoning" /\ i = Len(O) + 1
<1> DEFINE r == Reasoning(<<>>)
           S == Range(O) \cup {r}
           E == WithEnvelope(O)
<1>1. r.kind = "reasoning"
  BY DEF Reasoning, Item
<1> HIDE DEF r
<1>2. O \in Seq(S) /\ r \in S
  BY DEF IsSeq
<1> HIDE DEF S
<1>3. E = O \/ E = Append(O, r)
  BY DEF WithEnvelope, r
<1> HIDE DEF E
<1>4. E \in Seq(S)
  BY <1>2, <1>3
<1>5. /\ Len(E) \in {Len(O), Len(O) + 1}
      /\ \A i \in DOMAIN O : i \in DOMAIN E /\ E[i] = O[i]
      /\ \A i \in DOMAIN E : i \notin DOMAIN O => E[i] = r /\ i = Len(O) + 1
  BY <1>2, <1>3
<1> QED
  BY <1>1, <1>4, <1>5, SeqIsSeq DEF E

\* The final events of the built-in adapters.
LEMMA FinalPlan ==
  ASSUME NEW O, IsSeq(O), Grantable(O), ViewQuiet(view), proto.adapter # "managed_provider",
         request.choice = "required" => ToolPlaces(O) # {}
  PROVE  Plan(O, view, FinalEvents(WithEnvelope(O)))
<1> DEFINE E == WithEnvelope(O)
           s == [i \in DOMAIN E |-> Done(i, E[i])]
<1>1. /\ IsSeq(E) /\ \A i \in DOMAIN O : i \in DOMAIN E /\ E[i] = O[i]
      /\ \A i \in DOMAIN E : i \notin DOMAIN O => E[i].kind = "reasoning"
  BY EnvelopeShape
<1>2. FinalEvents(E) = s \o <<End("completed", E)>>
  BY DEF FinalEvents
<1> HIDE DEF E
<1>3. DOMAIN E = 1..Len(E) /\ Len(E) \in Nat
  BY <1>1 DEF IsSeq
<1>4. DOMAIN s = DOMAIN E /\ \A i \in DOMAIN E : s[i].ev = "done" /\ s[i].i = i /\ s[i].item = E[i]
  BY DEF Done
<1>5. IsSeq(s)
  <2>1. s = [i \in 1..Len(E) |-> s[i]]
    BY <1>3
  <2> HIDE DEF s
  <2> QED
    BY <1>3, <2>1, FunIsSeq
<1> HIDE DEF s
<1>6. \A x \in DOMAIN s : (ToolDone(s[x]) <=> x \in ToolPlaces(O)) /\ ~Finishes(s[x])
  <2>1. "reasoning" \notin ToolKinds
    BY DEF ToolKinds
  <2> QED
    BY <1>1, <1>4, <2>1 DEF ToolDone, Finishes, ToolPlaces
<1>7. Events(s) /\ Ordered(s)
  BY <1>3, <1>4, <1>5 DEF Events, EventKinds, Ordered, Undoes
<1>8. Follows(O, s)
  BY <1>1, <1>4, <1>6 DEF Follows, ToolPlaces
<1>9. \A i \in ToolPlaces(O) : \E x \in DOMAIN s : ToolDone(s[x]) /\ s[x].i = i
  BY <1>1, <1>4, <1>6 DEF ToolPlaces
<1>10. Gives(O, s)
  BY <1>6, <1>7, <1>8, <1>9 DEF Gives
<1>11. Plan(O, view, s \o <<End("completed", E)>>)
  BY <1>10, EndIsLast
<1> QED
  BY <1>2, <1>11 DEF E

NativeChatReady(s) == IsSeq(s.calls) /\ \A i \in DOMAIN s.calls : CallShape(s.calls[i])

LEMMA NativeChunkCalls ==
  ASSUME NEW s, NEW summaries, DOMAIN s = DOMAIN NativeChatInit, NativeChatChunk(s, summaries)
  PROVE  st'.calls = s.calls
<1>0. DOMAIN s = {"identity", "text", "flat", "details", "calls", "finish", "started", "shown", "shownText", "done"}
  BY DEF NativeChatInit
<1>1. CASE s.identity
  <2>1. st' = Published(s, summaries)
    BY <1>1 DEF NativeChatChunk, Handle
  <2> DEFINE a == summaries \o Rest(summaries, s.shown)
             b == IF s.shownText = None /\ s.text = <<>> THEN None ELSE s.text
  <2>2. st' = [s EXCEPT !.started = TRUE, !.shown = a, !.shownText = b]
    BY <2>1 DEF Published
  <2> HIDE DEF a, b
  <2> QED
    BY <1>0, <2>2
<1>2. CASE ~s.identity
  BY <1>2 DEF NativeChatChunk, Handle
<1> QED
  BY <1>1, <1>2

LEMMA NativeChatKeeps ==
  ASSUME DOMAIN st = DOMAIN NativeChatInit, NativeChatReady(st), NativeChatNext
  PROVE  NativeChatReady(st')
<1>0. DOMAIN st = {"identity", "text", "flat", "details", "calls", "finish", "started", "shown", "shownText", "done"}
  BY DEF NativeChatInit
<1>1. ASSUME NEW s, Chunk(s), DOMAIN s = DOMAIN st, NativeChatReady(s) PROVE NativeChatReady(st')
  <2>1. st'.calls = s.calls
    BY <1>1, NativeChunkCalls DEF Chunk
  <2> QED
    BY <1>1, <2>1 DEF NativeChatReady
<1>2. ASSUME NEW s, DOMAIN s = DOMAIN st, s.calls = st.calls PROVE NativeChatReady(s)
  BY <1>2 DEF NativeChatReady
<1>3. ASSUME NEW t, NativeChatText(t) PROVE NativeChatReady(st')
  <2> DEFINE s == [st EXCEPT !.text = @ \o t]
  <2>1. Chunk(s)
    BY <1>3 DEF NativeChatText
  <2>2. DOMAIN s = DOMAIN st /\ s.calls = st.calls
    BY <1>0
  <2> HIDE DEF s
  <2> QED
    BY <1>1, <1>2, <2>1, <2>2
<1>4. ASSUME NEW t, NativeChatFlat(t) PROVE NativeChatReady(st')
  <2> DEFINE s == [st EXCEPT !.flat = @ \o t]
  <2>1. Chunk(s)
    BY <1>4 DEF NativeChatFlat
  <2>2. DOMAIN s = DOMAIN st /\ s.calls = st.calls
    BY <1>0
  <2> HIDE DEF s
  <2> QED
    BY <1>1, <1>2, <2>1, <2>2
<1>5. ASSUME NEW i, NEW type, NEW text, NativeChatDetail(i, type, text) PROVE NativeChatReady(st')
  <2> DEFINE d == IF st.details = None THEN <<>> ELSE st.details
             old == IF i \in DOMAIN d THEN d[i] ELSE NoDetail
             new == [type |-> IF type = None THEN old.type ELSE type,
                     text |-> IF text = None THEN old.text
                              ELSE (IF old.text = None THEN <<>> ELSE old.text) \o text]
             e == IF i > Len(d) THEN Append(d, new) ELSE [d EXCEPT ![i] = new]
             s == [st EXCEPT !.details = e]
  <2>1. Chunk(s)
    BY <1>5 DEF NativeChatDetail
  <2> HIDE DEF e
  <2>3. DOMAIN s = DOMAIN st /\ s.calls = st.calls /\ Chunk(s)
    BY <1>0, <2>1
  <2> HIDE DEF s
  <2> QED
    BY <1>1, <1>2, <2>3
<1>6. ASSUME NEW i \in 1..MaxItems, NEW call \in CallIds, NEW kind \in ToolKinds, NEW piece,
             NativeChatTool(i, call, kind, piece)
      PROVE  NativeChatReady(st')
  <2> DEFINE old == IF i \in DOMAIN st.calls THEN st.calls[i] ELSE ChatCall(call, kind)
             new == [old EXCEPT !.raw = piece]
             more == [st.calls[i] EXCEPT !.raw = old.raw \o piece]
             calls == IF i > Len(st.calls) THEN Append(st.calls, new) ELSE [st.calls EXCEPT ![i] = more]
             s == [st EXCEPT !.calls = calls]
  <2>1. Chunk(s)
    BY <1>6 DEF NativeChatTool
  <2>2. CallShape(old)
    BY DEF NativeChatReady, CallShape, ChatCall
  <2> HIDE DEF old
  <2>3. CallShape(new)
    BY <2>2 DEF CallShape
  <2>4. i \in DOMAIN st.calls => CallShape(more)
    BY DEF NativeChatReady, CallShape
  <2> HIDE DEF new, more
  <2>5. IsSeq(calls) /\ \A j \in DOMAIN calls : CallShape(calls[j])
    <3> DEFINE S == Range(st.calls) \cup {new, more}
    <3>1. st.calls \in Seq(S) /\ new \in S /\ more \in S
      BY DEF NativeChatReady, IsSeq
    <3> HIDE DEF S
    <3>2. CASE i > Len(st.calls)
      <4>1. calls = Append(st.calls, new)
        BY <3>2
      <4> HIDE DEF calls
      <4>2. calls \in Seq(S) /\ \A j \in DOMAIN calls : calls[j] = new \/ (j \in DOMAIN st.calls /\ calls[j] = st.calls[j])
        BY <3>1, <4>1
      <4> QED
        BY <2>3, <4>2, SeqIsSeq DEF NativeChatReady
    <3>3. CASE ~(i > Len(st.calls))
      <4>1. calls = [st.calls EXCEPT ![i] = more]
        BY <3>3
      <4> HIDE DEF calls
      <4>2. i \in DOMAIN st.calls
        BY <3>1, <3>3
      <4>a. DOMAIN calls = DOMAIN st.calls /\ \A j \in DOMAIN calls : calls[j] = more \/ calls[j] = st.calls[j]
        BY <4>1
      <4>b. st.calls \in [1..Len(st.calls) -> S] /\ Len(st.calls) \in Nat
        BY <3>1
      <4>c. calls \in [1..Len(st.calls) -> S]
        BY <3>1, <4>1, <4>b
      <4>3. calls \in Seq(S) /\ \A j \in DOMAIN calls : j \in DOMAIN st.calls /\ (calls[j] = more \/ calls[j] = st.calls[j])
        BY <4>a, <4>b, <4>c
      <4> QED
        BY <2>4, <4>2, <4>3, SeqIsSeq DEF NativeChatReady
    <3> QED
      BY <3>2, <3>3
  <2> HIDE DEF calls
  <2>6. DOMAIN s = DOMAIN st /\ s.calls = calls
    BY <1>0
  <2> HIDE DEF s
  <2>7. NativeChatReady(s)
    BY <2>5, <2>6 DEF NativeChatReady
  <2> QED
    BY <1>1, <2>1, <2>6, <2>7
<1>7. ASSUME NativeChatIdentity PROVE NativeChatReady(st')
  <2> DEFINE s == [st EXCEPT !.identity = TRUE]
  <2>1. Chunk(s)
    BY <1>7 DEF NativeChatIdentity
  <2>2. DOMAIN s = DOMAIN st /\ s.calls = st.calls
    BY <1>0
  <2> HIDE DEF s
  <2> QED
    BY <1>1, <1>2, <2>1, <2>2
<1>8. ASSUME NEW reason, NativeChatFinish(reason) PROVE NativeChatReady(st')
  <2> DEFINE s == [st EXCEPT !.finish = reason]
  <2>1. Chunk(s)
    BY <1>8 DEF NativeChatFinish
  <2>2. DOMAIN s = DOMAIN st /\ s.calls = st.calls
    BY <1>0
  <2> HIDE DEF s
  <2> QED
    BY <1>1, <1>2, <2>1, <2>2
<1>9. ASSUME NativeChatDone PROVE NativeChatReady(st')
  <2> DEFINE s == [st EXCEPT !.done = TRUE]
  <2>1. NativeChatChunk(s, Summaries(st))
    BY <1>9 DEF NativeChatDone
  <2>2. DOMAIN s = DOMAIN st /\ s.calls = st.calls
    BY <1>0
  <2> HIDE DEF s
  <2>3. st'.calls = s.calls
    BY <2>1, <2>2, NativeChunkCalls
  <2> QED
    BY <2>2, <2>3 DEF NativeChatReady
<1> QED
  BY <1>3, <1>4, <1>5, <1>6, <1>7, <1>8, <1>9 DEF NativeChatNext

LEMMA NativeChatGrants ==
  ASSUME NativeChatReady(st), NativeChatDecodable
  PROVE  /\ Grantable(NativeChatOutput) /\ IsSeq(NativeChatOutput)
         /\ request.choice = "required" => ToolPlaces(NativeChatOutput) # {}
<1> DEFINE text == IF st.text = <<>> THEN None ELSE st.text
           C == ChatOutput(text, st.calls)
           r == Reasoning(Summaries(st))
<1>1. ChatDecodable(text, st.calls, st.finish) /\ ChatStatus(st.finish) = "completed"
  BY DEF NativeChatDecodable
<1>2. CallsReady(st.calls)
  <2>1. DOMAIN st.calls = 1..Len(st.calls) /\ Len(st.calls) \in Nat
    BY DEF NativeChatReady, IsSeq
  <2>2. IsFiniteSet(DOMAIN st.calls)
    BY <2>1, FS_Interval
  <2> QED
    BY <2>2 DEF NativeChatReady, CallsReady
<1> HIDE DEF text
<1>3. Grantable(C) /\ IsSeq(C) /\ (request.choice = "required" => ToolPlaces(C) # {})
  BY <1>1, <1>2, ChatGrants
<1>4. NativeChatOutput = <<r>> \o C
  BY DEF NativeChatOutput, text
<1>5. r.kind \notin ToolKinds
  BY DEF Reasoning, Item, ToolKinds
<1> HIDE DEF C, r
<1> QED
  BY <1>3, <1>4, <1>5, ShiftGrant

\* A list stays a list as its elements change.
LEMMA ListChanges ==
  ASSUME NEW s, IsSeq(s), NEW x, NEW i
  PROVE  /\ IsSeq(Append(s, x)) /\ \A j \in DOMAIN Append(s, x) : Append(s, x)[j] = x \/ (j \in DOMAIN s /\ Append(s, x)[j] = s[j])
         /\ IsSeq([s EXCEPT ![i] = x]) /\ DOMAIN [s EXCEPT ![i] = x] = DOMAIN s
         /\ \A j \in DOMAIN s : [s EXCEPT ![i] = x][j] = IF j = i THEN x ELSE s[j]
<1> DEFINE S == Range(s) \cup {x}
<1>1. s \in Seq(S) /\ x \in S
  BY DEF IsSeq
<1> HIDE DEF S
<1>2. Append(s, x) \in Seq(S) /\ \A j \in DOMAIN Append(s, x) : Append(s, x)[j] = x \/ (j \in DOMAIN s /\ Append(s, x)[j] = s[j])
  BY <1>1
<1>3. s \in [1..Len(s) -> S] /\ Len(s) \in Nat
  BY <1>1
<1> DEFINE t == [s EXCEPT ![i] = x]
<1>4. DOMAIN t = DOMAIN s /\ \A j \in DOMAIN s : t[j] = IF j = i THEN x ELSE s[j]
  OBVIOUS
<1>5. t \in [1..Len(s) -> S]
  BY <1>1, <1>3
<1> HIDE DEF t
<1>6. t \in Seq(S)
  BY <1>3, <1>5
<1> QED
  BY <1>2, <1>4, <1>6, SeqIsSeq DEF t

\* The managed Messages stream: tools have been resolved.
NativeBlockShape(b) ==
    /\ DOMAIN b = {"kind", "call", "text", "signed"}
    /\ b.kind \in ToolKinds => b.call \in CallIds /\ Resolves

NativeMessagesReady(s) == IsSeq(s.blocks) /\ \A i \in DOMAIN s.blocks : NativeBlockShape(s.blocks[i])

LEMMA NativeMessagesKeeps ==
  ASSUME DOMAIN st = DOMAIN NativeMessagesInit, NativeMessagesReady(st), NativeMessagesNext
  PROVE  NativeMessagesReady(st')
<1>0. DOMAIN st = {"started", "blocks", "open", "active", "count", "stop", "done"}
  BY DEF NativeMessagesInit
<1>1. ASSUME st'.blocks = st.blocks PROVE NativeMessagesReady(st')
  BY <1>1 DEF NativeMessagesReady
<1>2. ASSUME NEW i, NEW b, st'.blocks = [st.blocks EXCEPT ![i] = b], i \in DOMAIN st.blocks => NativeBlockShape(b)
      PROVE  NativeMessagesReady(st')
  <2>1. IsSeq(st.blocks)
    BY DEF NativeMessagesReady
  <2> QED
    BY <1>2, <2>1, ListChanges DEF NativeMessagesReady
<1>3. ASSUME NEW b, st'.blocks = Append(st.blocks, b), NativeBlockShape(b) PROVE NativeMessagesReady(st')
  <2>1. IsSeq(st.blocks)
    BY DEF NativeMessagesReady
  <2> DEFINE t == Append(st.blocks, b)
  <2>2. IsSeq(t) /\ \A j \in DOMAIN t : t[j] = b \/ (j \in DOMAIN st.blocks /\ t[j] = st.blocks[j])
    BY <2>1, ListChanges
  <2>3. st'.blocks = t
    BY <1>3
  <2> HIDE DEF t
  <2> QED
    BY <1>3, <2>2, <2>3 DEF NativeMessagesReady
<1>4. ASSUME NativeMessageStart PROVE NativeMessagesReady(st')
  BY <1>0, <1>1, <1>4 DEF NativeMessageStart, Handle
<1>5. ASSUME NEW kind, NEW call, NEW t, kind \in ToolKinds => call \in CallIds, NativeBlock(kind, call, t)
      PROVE  NativeMessagesReady(st')
  <2> DEFINE b == [kind |-> kind, call |-> call, text |-> t, signed |-> FALSE]
             shows == kind = "message" \/ (kind = "reasoning" /\ t # <<>>)
             active == IF shows THEN st.count + 1 ELSE None
             counts == shows \/ kind \in ToolKinds
             count == IF counts THEN st.count + 1 ELSE st.count
             blocks == Append(st.blocks, b)
  <2>1. st' = [st EXCEPT !.blocks = blocks, !.open = TRUE, !.active = active, !.count = count]
    BY <1>5 DEF NativeBlock, Handle
  <2>2. kind \in ToolKinds => Resolves
    BY <1>5 DEF NativeBlock
  <2>3. NativeBlockShape(b)
    BY <1>5, <2>2 DEF NativeBlockShape
  <2> HIDE DEF active, count, b
  <2>4. st'.blocks = blocks
    <3> HIDE DEF blocks
    <3> QED
      BY <1>0, <2>1
  <2> QED
    BY <1>3, <2>3, <2>4
<1>6. ASSUME NEW t, NativeDelta(t) PROVE NativeMessagesReady(st')
  <2> DEFINE n == Len(st.blocks)
             shows == st.blocks[n].kind \in {"message", "reasoning"} /\ t # <<>>
             new == shows /\ st.active = None
             i == IF new THEN st.count + 1 ELSE st.active
             active == IF new THEN i ELSE st.active
             count == IF new THEN i ELSE st.count
             b == [st.blocks[n] EXCEPT !.text = @ \o t]
             blocks == [st.blocks EXCEPT ![n] = b]
  <2>1. st' = [st EXCEPT !.blocks = blocks, !.active = active, !.count = count]
    BY <1>6 DEF NativeDelta, Handle
  <2>2. n \in DOMAIN st.blocks => NativeBlockShape(b)
    BY DEF NativeMessagesReady, NativeBlockShape
  <2> HIDE DEF active, count, b, n
  <2>3. st'.blocks = blocks
    <3> HIDE DEF blocks
    <3> QED
      BY <1>0, <2>1
  <2> QED
    BY <1>2, <2>2, <2>3
<1>7. ASSUME NativeSignature PROVE NativeMessagesReady(st')
  <2> DEFINE n == Len(st.blocks)
             b == [st.blocks[n] EXCEPT !.signed = TRUE]
             blocks == [st.blocks EXCEPT ![n] = b]
  <2>1. st' = [st EXCEPT !.blocks = blocks]
    BY <1>7 DEF NativeSignature, Handle
  <2>2. n \in DOMAIN st.blocks => NativeBlockShape(b)
    BY DEF NativeMessagesReady, NativeBlockShape
  <2> HIDE DEF b, n
  <2>3. st'.blocks = blocks
    <3> HIDE DEF blocks
    <3> QED
      BY <1>0, <2>1
  <2> QED
    BY <1>2, <2>2, <2>3
<1>8. ASSUME NativeStop PROVE NativeMessagesReady(st')
  BY <1>0, <1>1, <1>8 DEF NativeStop, Handle
<1>9. ASSUME NEW stop, NativeMessageDelta(stop) PROVE NativeMessagesReady(st')
  BY <1>0, <1>1, <1>9 DEF NativeMessageDelta, Handle
<1>10. ASSUME NativeMessageStop PROVE NativeMessagesReady(st')
  BY <1>0, <1>1, <1>10 DEF NativeMessageStop, Handle
<1>11. "message" \notin ToolKinds /\ "reasoning" \notin ToolKinds /\ "redacted" \notin ToolKinds
  BY DEF ToolKinds
<1>12. ASSUME NEW kind \in {"message", "reasoning"}, NEW t, NativeBlock(kind, None, t) PROVE NativeMessagesReady(st')
  BY <1>5, <1>11, <1>12
<1>13. ASSUME NativeBlock("redacted", None, <<>>) PROVE NativeMessagesReady(st')
  BY <1>5, <1>11, <1>13
<1>14. ASSUME NEW kind \in ToolKinds, NEW call \in CallIds, NativeBlock(kind, call, <<>>) PROVE NativeMessagesReady(st')
  BY <1>5, <1>14
<1> QED
  BY <1>4, <1>6, <1>7, <1>8, <1>9, <1>10, <1>12, <1>13, <1>14 DEF NativeMessagesNext

LEMMA NativeMessagesGrants ==
  ASSUME NativeMessagesReady(st), NativeMessagesDecodable
  PROVE  /\ Grantable(NativeMessagesOutput) /\ IsSeq(NativeMessagesOutput)
         /\ request.choice = "required" => ToolPlaces(NativeMessagesOutput) # {}
<1> DEFINE B == st.blocks
           hidden(b) == b.kind = "redacted" \/ (b.kind = "reasoning" /\ b.text = <<>>)
           P == {i \in DOMAIN B : ~hidden(B[i])}
           public == Kept(B, P)
           O == [i \in DOMAIN public |-> BlockItem(public[i])]
<1>1. /\ \A i \in DOMAIN B : B[i].kind \in ToolKinds => Restorable(ToolRaw(B[i].kind, B[i].text))
      /\ CountAllowed(ToolCount(B), TRUE) /\ Decodes(O, "completed") /\ NativeMessagesOutput = O
  BY DEF NativeMessagesDecodable, MessagesTerminal, NativeMessagesOutput
<1>2. IsSeq(B) /\ \A i \in DOMAIN B : NativeBlockShape(B[i])
  BY DEF NativeMessagesReady
<1>3. ToolPlaces(B) \subseteq P
  BY DEF ToolPlaces, ToolKinds
<1> HIDE DEF B, P
<1>4. /\ IsSeq(public)
      /\ \E b : \A x \in DOMAIN public : b[x] \in DOMAIN B /\ public[x] = B[b[x]]
  BY <1>2, KeptJoins
<1>5. DOMAIN O = DOMAIN public /\ \A i \in DOMAIN public : O[i] = BlockItem(public[i])
  OBVIOUS
<1>6. IsSeq(O)
  <2>1. DOMAIN public = 1..Len(public) /\ Len(public) \in Nat
    BY <1>4 DEF IsSeq
  <2>2. O = [i \in 1..Len(public) |-> O[i]]
    BY <2>1
  <2> HIDE DEF O
  <2> QED
    BY <2>1, <2>2, FunIsSeq
<1> HIDE DEF O, public
<1>7. ASSUME NEW i \in DOMAIN O
      PROVE  /\ O[i].kind = public[i].kind
             /\ O[i].kind \notin ToolKinds => Len(O[i].content) \in Nat
             /\ O[i].kind \in ToolKinds => /\ Resolves /\ O[i] \in ToolItems
                                           /\ O[i].kind = "function" => O[i].content = <<Document>>
  <2>1. PICK k \in DOMAIN B : public[i] = B[k]
    BY <1>4, <1>5
  <2>2. O[i] = BlockItem(B[k])
    BY <1>5, <2>1
  <2>3. CASE B[k].kind \in ToolKinds
    <3> DEFINE raw == ToolRaw(B[k].kind, B[k].text)
    <3>1. O[i] = ToolItem(B[k].kind, B[k].call, raw) /\ Restorable(raw) /\ B[k].call \in CallIds /\ Resolves
      BY <1>1, <1>2, <2>2, <2>3 DEF BlockItem, NativeBlockShape
    <3> HIDE DEF raw
    <3> QED
      BY <2>1, <2>3, <3>1, RestoredTool
  <2>4. CASE B[k].kind \notin ToolKinds
    <3>1. O[i] = Item(B[k].kind, None, <<B[k].text>>)
      BY <2>2, <2>4 DEF BlockItem
    <3>2. O[i].kind = B[k].kind /\ O[i].content = <<B[k].text>> /\ Len(<<B[k].text>>) = 1
      BY <3>1 DEF Item
    <3> QED
      BY <2>1, <2>4, <3>2
  <2> QED
    BY <2>3, <2>4
<1>8. /\ request.parallel \/ \A i, j \in ToolPlaces(O) : i = j
      /\ request.choice = "required" => ToolPlaces(O) # {}
  <2>1. DOMAIN O = DOMAIN Kept(B, P) /\ \A i \in DOMAIN O : O[i].kind \in ToolKinds <=> Kept(B, P)[i].kind \in ToolKinds
    BY <1>5, <1>7 DEF public
  <2> QED
    BY <1>1, <1>2, <1>3, <2>1, KeptCounts
<1>9. /\ \A i \in ToolPlaces(O) : O[i] \in ToolItems /\ (O[i].kind = "function" => O[i].content = <<Document>>)
      /\ ToolPlaces(O) # {} => Resolves
  BY <1>7 DEF ToolPlaces
<1>10. Grantable(O)
  BY <1>1, <1>6, <1>7, <1>8, <1>9, GrantMade
<1> QED
  BY <1>1, <1>6, <1>8, <1>10

\* The steps of an interaction: the arguments of a call are whole, or have not come.
StepShape(b) ==
    /\ DOMAIN b = {"kind", "call", "content"}
    /\ b.kind \in ToolKinds \cup {"message", "thought"}
    /\ b.kind \in ToolKinds => b.call \in CallIds /\ b.content \in {None, <<Document>>}
    /\ b.kind = "message" => b.content = None \/ IsSeq(b.content)

InteractionsReady(s) == IsSeq(s.steps) /\ \A i \in DOMAIN s.steps : StepShape(s.steps[i])

LEMMA InteractionsKeeps ==
  ASSUME DOMAIN st = DOMAIN InteractionsInit, InteractionsReady(st), InteractionsNext
  PROVE  InteractionsReady(st')
<1>0. DOMAIN st = {"started", "steps", "active", "arguments", "status", "done"}
  BY DEF InteractionsInit
<1>a. IsSeq(st.steps)
  BY DEF InteractionsReady
<1>b. IsSeq(<<>>) /\ \A x : IsSeq(<<x>>)
  BY DEF IsSeq, Range
<1>c. \A x, y : IsSeq(<<x, y>>)
  <2> SUFFICES ASSUME NEW x, NEW y PROVE IsSeq(<<x, y>>)
    OBVIOUS
  <2> DEFINE S == {x, y}
             s == <<x, y>>
  <2>1. s \in Seq(S)
    OBVIOUS
  <2> HIDE DEF S, s
  <2>2. IsSeq(s)
    BY <2>1, SeqIsSeq
  <2> QED
    BY <2>2 DEF s
<1>1. ASSUME st'.steps = st.steps PROVE InteractionsReady(st')
  BY <1>1 DEF InteractionsReady
<1>2. ASSUME NEW i, NEW b, st'.steps = [st.steps EXCEPT ![i] = b], i \in DOMAIN st.steps => StepShape(b)
      PROVE  InteractionsReady(st')
  BY <1>2, <1>a, ListChanges DEF InteractionsReady
<1>3. ASSUME NEW kind, NEW call, NEW content, StepStart(kind, call, content),
             StepShape([kind |-> kind, call |-> call, content |-> content])
      PROVE  InteractionsReady(st')
  <2> DEFINE b == [kind |-> kind, call |-> call, content |-> content]
             t == Append(st.steps, b)
  <2>1. st' = [st EXCEPT !.steps = t, !.active = TRUE, !.arguments = <<>>]
    BY <1>3 DEF StepStart, Handle
  <2> HIDE DEF b
  <2>2. IsSeq(t) /\ \A j \in DOMAIN t : t[j] = b \/ (j \in DOMAIN st.steps /\ t[j] = st.steps[j])
    BY <1>a, ListChanges
  <2> HIDE DEF t
  <2>3. st'.steps = t /\ StepShape(b)
    BY <1>0, <1>3, <2>1 DEF b
  <2> QED
    BY <2>2, <2>3 DEF InteractionsReady
<1>4. ASSUME InteractionCreated \/ InteractionStatus \/ StepSignature \/ InteractionDone PROVE InteractionsReady(st')
  <2>1. st'.steps = st.steps
    BY <1>0, <1>4 DEF InteractionCreated, InteractionStatus, StepSignature, InteractionDone, Handle
  <2> QED
    BY <1>1, <2>1
<1>5. ASSUME NEW status, InteractionCompleted(status) PROVE InteractionsReady(st')
  BY <1>0, <1>1, <1>5 DEF InteractionCompleted, Handle
<1>6. ASSUME NEW piece, StepArguments(piece) PROVE InteractionsReady(st')
  <2>1. st'.steps = st.steps
    BY <1>0, <1>6 DEF StepArguments, Handle
  <2> QED
    BY <1>1, <2>1
<1>7. ASSUME NEW t, StepText(t) PROVE InteractionsReady(st')
  <2> DEFINE n == Len(st.steps)
             content == IF st.steps[n].content \in {None, <<>>} THEN <<(<<>>)>> ELSE st.steps[n].content
             last == Len(content)
             new == [content EXCEPT ![last] = @ \o t]
             b == [st.steps[n] EXCEPT !.content = new]
             steps == [st.steps EXCEPT ![n] = b]
  <2>1. st' = [st EXCEPT !.steps = steps] /\ st.steps[n].kind = "message"
    BY <1>7 DEF StepText, Handle
  <2>2. n \in DOMAIN st.steps => StepShape(b)
    <3> SUFFICES ASSUME n \in DOMAIN st.steps PROVE StepShape(b)
      OBVIOUS
    <3>1. StepShape(st.steps[n])
      BY DEF InteractionsReady
    <3>2. IsSeq(content)
      BY <1>b, <2>1, <3>1 DEF StepShape
    <3> HIDE DEF content
    <3>3. IsSeq(new)
      BY <3>2, ListChanges
    <3> HIDE DEF new, n
    <3>4. DOMAIN b = {"kind", "call", "content"} /\ b.kind = "message" /\ b.content = new
      BY <2>1, <3>1 DEF StepShape
    <3> QED
      BY <3>3, <3>4 DEF StepShape, ToolKinds
  <2> HIDE DEF b, n
  <2>3. st'.steps = steps
    <3> HIDE DEF steps
    <3> QED
      BY <1>0, <2>1
  <2> QED
    BY <1>2, <2>2, <2>3
<1>8. ASSUME StepStop PROVE InteractionsReady(st')
  <2> DEFINE n == Len(st.steps)
             new == IF st.arguments = <<>> THEN st.steps[n].content ELSE <<st.arguments>>
             b == [st.steps[n] EXCEPT !.content = new]
             steps == [st.steps EXCEPT ![n] = b]
  <2>1. st' = [st EXCEPT !.active = FALSE, !.steps = steps]
    BY <1>8 DEF StepStop, Handle
  <2>2. st.arguments = <<>> \/ st.arguments = Document
    BY <1>8 DEF StepStop
  <2>3. n \in DOMAIN st.steps => StepShape(b)
    <3> SUFFICES ASSUME n \in DOMAIN st.steps PROVE StepShape(b)
      OBVIOUS
    <3>1. StepShape(st.steps[n])
      BY DEF InteractionsReady
    <3>2. new = st.steps[n].content \/ new = <<Document>>
      BY <2>2
    <3> HIDE DEF new, n
    <3>3. /\ DOMAIN b = {"kind", "call", "content"} /\ b.kind = st.steps[n].kind
          /\ b.call = st.steps[n].call /\ b.content = new
      BY <3>1 DEF StepShape
    <3>4. IsSeq(<<Document>>)
      BY <1>b
    <3> HIDE DEF b
    <3> QED
      BY <3>1, <3>2, <3>3, <3>4 DEF StepShape
  <2> HIDE DEF b, n
  <2>4. st'.steps = steps
    <3> HIDE DEF steps
    <3> QED
      BY <1>0, <2>1
  <2> QED
    BY <1>2, <2>3, <2>4
<1>9. ASSUME NEW content \in {None, <<>>} \cup {<<t>> : t \in Fragments} \cup {<<t, t>> : t \in Fragments},
             StepStart("message", None, content)
      PROVE  InteractionsReady(st')
  <2> DEFINE b == [kind |-> "message", call |-> None, content |-> content]
  <2>1. content = None \/ IsSeq(content)
    BY <1>b, <1>c
  <2>2. StepShape(b)
    BY <2>1 DEF StepShape, ToolKinds
  <2> QED
    BY <1>3, <1>9, <2>2
<1>10. ASSUME NEW kind \in ToolKinds, NEW call \in CallIds, NEW content \in {None, <<Document>>}, StepStart(kind, call, content)
       PROVE  InteractionsReady(st')
  <2> DEFINE b == [kind |-> kind, call |-> call, content |-> content]
  <2>1. kind # "message"
    BY DEF ToolKinds
  <2>2. StepShape(b)
    BY <2>1 DEF StepShape
  <2> QED
    BY <1>3, <1>10, <2>2
<1>11. ASSUME StepStart("thought", None, None) PROVE InteractionsReady(st')
  <2> DEFINE b == [kind |-> "thought", call |-> None, content |-> None]
  <2>1. StepShape(b)
    BY DEF StepShape, ToolKinds
  <2> QED
    BY <1>3, <1>11, <2>1
<1> QED
  BY <1>4, <1>5, <1>6, <1>7, <1>8, <1>9, <1>10, <1>11 DEF InteractionsNext

LEMMA InteractionsGrants ==
  ASSUME InteractionsReady(st), InteractionsDecodable
  PROVE  /\ Grantable(InteractionsOutput) /\ IsSeq(InteractionsOutput)
         /\ request.choice = "required" => ToolPlaces(InteractionsOutput) # {}
<1> DEFINE B == st.steps
           P == {n \in DOMAIN B : B[n].kind # "thought"}
           public == Kept(B, P)
           O == [i \in DOMAIN public |->
                    IF public[i].kind = "message" THEN Message(public[i].content)
                    ELSE ToolItem(public[i].kind, public[i].call, public[i].content[1])]
<1>1. /\ \A n \in DOMAIN B : B[n].kind # "thought" => B[n].content # None
      /\ ToolCount(B) > 0 => Resolves
      /\ CountAllowed(ToolCount(B), TRUE) /\ Decodes(O, "completed") /\ InteractionsOutput = O
  BY DEF InteractionsDecodable, InteractionsOutput
<1>2. IsSeq(B) /\ \A i \in DOMAIN B : StepShape(B[i])
  BY DEF InteractionsReady
<1>3. ToolPlaces(B) \subseteq P
  BY DEF ToolPlaces, ToolKinds
<1>a. \A n \in P : B[n].kind # "thought"
  OBVIOUS
<1> HIDE DEF B, P
<1>4. /\ IsSeq(public)
      /\ \E b : \A x \in DOMAIN public : b[x] \in DOMAIN B /\ b[x] \in P /\ public[x] = B[b[x]]
  BY <1>2, KeptJoins
<1>5. /\ DOMAIN O = DOMAIN public
      /\ \A i \in DOMAIN public : O[i] = IF public[i].kind = "message" THEN Message(public[i].content)
                                         ELSE ToolItem(public[i].kind, public[i].call, public[i].content[1])
  OBVIOUS
<1>6. IsSeq(O)
  <2>1. DOMAIN public = 1..Len(public) /\ Len(public) \in Nat
    BY <1>4 DEF IsSeq
  <2>2. O = [i \in 1..Len(public) |-> O[i]]
    BY <2>1
  <2> HIDE DEF O
  <2> QED
    BY <2>1, <2>2, FunIsSeq
<1> HIDE DEF O, public
<1>7. ASSUME NEW i \in DOMAIN O
      PROVE  /\ O[i].kind = public[i].kind
             /\ O[i].kind \notin ToolKinds => Len(O[i].content) \in Nat
             /\ O[i].kind \in ToolKinds => /\ O[i] \in ToolItems
                                           /\ O[i].kind = "function" => O[i].content = <<Document>>
  <2>1. PICK k \in DOMAIN B : k \in P /\ public[i] = B[k]
    BY <1>4, <1>5
  <2>2. B[k].kind # "thought" /\ B[k].content # None /\ StepShape(B[k])
    BY <1>1, <1>2, <1>a, <2>1
  <2>3. CASE B[k].kind \in ToolKinds
    <3> DEFINE raw == B[k].content[1]
    <3>0. B[k].kind # "message"
      BY <2>3 DEF ToolKinds
    <3>1. O[i] = ToolItem(B[k].kind, B[k].call, raw) /\ B[k].call \in CallIds /\ B[k].content = <<Document>>
      BY <1>5, <2>1, <2>2, <2>3, <3>0 DEF StepShape
    <3>2. Restorable(raw)
      BY <3>1 DEF Restorable
    <3> HIDE DEF raw
    <3> QED
      BY <2>1, <2>3, <3>1, <3>2, RestoredTool
  <2>4. CASE B[k].kind \notin ToolKinds
    <3>1. B[k].kind = "message" /\ IsSeq(B[k].content)
      BY <2>2, <2>4 DEF StepShape
    <3>2. O[i] = Message(B[k].content)
      BY <1>5, <2>1, <3>1
    <3>3. O[i].kind = "message" /\ O[i].content = B[k].content
      BY <3>2 DEF Message, Item
    <3>4. Len(B[k].content) \in Nat
      BY <3>1 DEF IsSeq
    <3> QED
      BY <2>1, <2>4, <3>1, <3>3, <3>4
  <2> QED
    BY <2>3, <2>4
<1>8. /\ request.parallel \/ \A i, j \in ToolPlaces(O) : i = j
      /\ request.choice = "required" => ToolPlaces(O) # {}
      /\ ToolPlaces(O) # {} => ToolCount(B) > 0
  <2>1. DOMAIN O = DOMAIN Kept(B, P) /\ \A i \in DOMAIN O : O[i].kind \in ToolKinds <=> Kept(B, P)[i].kind \in ToolKinds
    BY <1>5, <1>7 DEF public
  <2> QED
    BY <1>1, <1>2, <1>3, <2>1, KeptCounts
<1>9. /\ \A i \in ToolPlaces(O) : O[i] \in ToolItems /\ (O[i].kind = "function" => O[i].content = <<Document>>)
      /\ ToolPlaces(O) # {} => Resolves
  BY <1>1, <1>7, <1>8 DEF ToolPlaces
<1>10. Grantable(O)
  BY <1>1, <1>6, <1>7, <1>8, <1>9, GrantMade
<1> QED
  BY <1>1, <1>6, <1>8, <1>10

-----------------------------------------------------------------------------
(* Checked Responses, built in or behind a codec.                          *)

\* What follows the tools and only ends the response.
LEMMA EndsAreLast ==
  ASSUME NEW O, NEW w, NEW s, NEW t, ViewQuiet(w), Grantable(O), Gives(O, s), IsSeq(t),
         \A x \in DOMAIN t : t[x].ev = "end",
         request.choice = "required" /\ (\E x \in DOMAIN t : Finishes(t[x])) => ToolPlaces(O) # {}
  PROVE  Plan(O, w, s \o t)
<1> DEFINE u == s \o t
<1>0. Events(t) /\ Ordered(t) /\ \A x \in DOMAIN t : ~ToolDone(t[x]) /\ \A i : ~Undoes(t[x], i)
  BY DEF Events, EventKinds, Ordered, ToolDone, Undoes
<1>1. /\ DOMAIN s = 1..Len(s) /\ Len(s) \in Nat /\ DOMAIN t = 1..Len(t) /\ Len(t) \in Nat
      /\ DOMAIN u = 1..(Len(s) + Len(t))
      /\ \A x \in 1..Len(s) : u[x] = s[x]
      /\ \A x \in DOMAIN u : x \notin DOMAIN s => x - Len(s) \in DOMAIN t /\ u[x] = t[x - Len(s)]
  <2>1. IsSeq(s)
    BY DEF Gives, Events
  <2> QED
    BY <2>1, ConcatPlaces
<1>2. Events(u) /\ Ordered(u)
  BY <1>0, OrderedConcat DEF Gives
<1> HIDE DEF u
<1>3. Follows(O, u)
  BY <1>0, <1>1 DEF Gives, Follows
<1>4. ASSUME request.choice = "required" PROVE EndsAfterTool(u)
  <2> SUFFICES ASSUME NEW x \in DOMAIN u, Finishes(u[x]) PROVE \E y \in DOMAIN u : y < x /\ ToolDone(u[y])
    BY DEF EndsAfterTool
  <2>1. x \notin DOMAIN s
    BY <1>1 DEF Gives
  <2>2. x - Len(s) \in DOMAIN t /\ Finishes(t[x - Len(s)])
    BY <1>1, <2>1
  <2>3. PICK i \in ToolPlaces(O) : TRUE
    BY <1>4, <2>2
  <2>4. PICK y \in DOMAIN s : ToolDone(s[y])
    BY <2>3 DEF Gives
  <2> QED
    BY <1>1, <2>1, <2>4
<1>5. Plan(O, w, u)
  BY <1>2, <1>3, <1>4, PlanMade
<1> QED
  BY <1>5 DEF u

\* Held events leave by output index: nothing is lost of a tool, and its order is kept.
LEMMA OutputOrderPlan ==
  ASSUME NEW O, NEW w, NEW all, ViewQuiet(w), Grantable(O), DOMAIN O \subseteq 1..MaxItems,
         Events(all), Ordered(all), Follows(O, all),
         \A i \in ToolPlaces(O) : \E k \in DOMAIN all : ToolDone(all[k]) /\ all[k].i = i,
         request.choice = "required" /\ (\E k \in DOMAIN all : Finishes(all[k])) => ToolPlaces(O) # {}
  PROVE  Plan(O, w, InOutputOrder(all))
<1> DEFINE ends == {k \in DOMAIN all : all[k].ev = "end"}
           of(i) == {k \in DOMAIN all \ ends : /\ all[k].i = i
                                               /\ all[k].ev = "delta" => all[k].text # <<>>}
           seqs == [i \in 1..MaxItems |-> Kept(all, of(i))]
           s == FlattenSeq(seqs)
           t == Kept(all, ends)
<1>0. InOutputOrder(all) = s \o t
  BY DEF InOutputOrder
<1>1. \A i : \A k \in of(i) : k \in DOMAIN all /\ all[k].i = i /\ all[k].ev # "end"
  OBVIOUS
<1>2. \A k \in DOMAIN all : ToolDone(all[k]) => k \in of(all[k].i)
  BY DEF ToolDone
<1>3. \A k \in ends : k \in DOMAIN all /\ all[k].ev = "end"
  OBVIOUS
<1> HIDE DEF of, ends
<1>4. MaxItems \in Nat /\ seqs = [i \in 1..MaxItems |-> seqs[i]] /\ \A i \in 1..MaxItems : seqs[i] = Kept(all, of(i))
  BY LimitsAssumption
<1> HIDE DEF seqs
<1>5. IsSeq(all)
  BY DEF Events
<1>6. ASSUME NEW i \in 1..MaxItems
      PROVE  /\ Events(seqs[i]) /\ Ordered(seqs[i])
             /\ \A x \in DOMAIN seqs[i] : seqs[i][x].i = i /\ \E k \in DOMAIN all : all[k].ev # "end" /\ seqs[i][x] = all[k]
             /\ \A k \in of(i) : \E x \in DOMAIN seqs[i] : seqs[i][x] = all[k]
  <2> DEFINE q == seqs[i]
  <2>0. q = Kept(all, of(i))
    BY <1>4
  <2> HIDE DEF q
  <2>1. /\ IsSeq(q) /\ \A k \in DOMAIN all : k \in of(i) => \E x \in DOMAIN q : q[x] = all[k]
        /\ \E b : /\ \A x \in DOMAIN q : b[x] \in DOMAIN all /\ b[x] \in of(i) /\ q[x] = all[b[x]]
                  /\ \A x, y \in DOMAIN q : x < y => b[x] < b[y]
    BY <1>5, <2>0, KeptJoins
  <2>2. PICK b : /\ \A x \in DOMAIN q : b[x] \in DOMAIN all /\ b[x] \in of(i) /\ q[x] = all[b[x]]
                 /\ \A x, y \in DOMAIN q : x < y => b[x] < b[y]
    BY <2>1
  <2>3. Events(q)
    BY <2>1, <2>2 DEF Events
  <2>4. Ordered(q)
    BY <2>2 DEF Ordered
  <2>5. \A x \in DOMAIN q : q[x].i = i /\ \E k \in DOMAIN all : all[k].ev # "end" /\ q[x] = all[k]
    BY <1>1, <2>2
  <2> QED
    BY <1>1, <2>1, <2>3, <2>4, <2>5 DEF q
<1>7. Events(s) /\ Ordered(s)
  BY <1>4, <1>6, OrderedBlocks
<1>8. /\ \A x \in DOMAIN s : \E i \in 1..MaxItems : \E k \in DOMAIN seqs[i] : s[x] = seqs[i][k]
      /\ \A i \in 1..MaxItems : \A k \in DOMAIN seqs[i] : \E x \in DOMAIN s : s[x] = seqs[i][k]
  <2>1. \A i \in 1..MaxItems : IsSeq(seqs[i])
    BY <1>6 DEF Events
  <2>2. MaxItems \in Nat /\ seqs = [i \in 1..MaxItems |-> seqs[i]]
    BY <1>4
  <2>3. Joins(seqs, MaxItems, s)
    BY <2>1, <2>2, FlattenJoins
  <2> HIDE DEF s
  <2> QED
    BY <2>3 DEF Joins, Placed
<1> HIDE DEF s
<1>9. \A x \in DOMAIN s : \E k \in DOMAIN all : all[k].ev # "end" /\ s[x] = all[k]
  BY <1>6, <1>8
<1>10. Follows(O, s) /\ \A x \in DOMAIN s : ~Finishes(s[x])
  BY <1>9 DEF Follows, Finishes
<1>11. ASSUME NEW i \in ToolPlaces(O) PROVE \E x \in DOMAIN s : ToolDone(s[x]) /\ s[x].i = i
  <2>1. i \in 1..MaxItems
    BY DEF ToolPlaces
  <2>2. PICK k \in DOMAIN all : ToolDone(all[k]) /\ all[k].i = i
    OBVIOUS
  <2>3. k \in of(i)
    BY <1>2, <2>2
  <2> QED
    BY <1>6, <1>8, <2>1, <2>2, <2>3
<1>12. Gives(O, s)
  BY <1>7, <1>10, <1>11 DEF Gives
<1>13. IsSeq(t) /\ \A x \in DOMAIN t : \E k \in DOMAIN all : all[k].ev = "end" /\ t[x] = all[k]
  <2>1. /\ IsSeq(t) 
        /\ \E b : \A x \in DOMAIN t : b[x] \in DOMAIN all /\ b[x] \in ends /\ t[x] = all[b[x]]
    BY <1>5, KeptJoins
  <2> HIDE DEF t
  <2> QED
    BY <1>3, <2>1
<1> HIDE DEF t
<1>14. Plan(O, w, s \o t)
  BY <1>12, <1>13, EndsAreLast
<1> QED
  BY <1>0, <1>14

\* What an item of the response keeps.
ItemReady(x) ==
    /\ DOMAIN x = {"wire", "call", "parts", "arguments", "argumentsDone", "done"}
    /\ x.wire \in WireKinds /\ IsSeq(x.parts)
    /\ x.wire \in WireTools =>
          /\ Resolves /\ x.call \in CallIds /\ x.arguments \in Seq({"{", "}"})
          /\ x.done /\ x.wire # "freeform" => Restorable(x.arguments)

ResponsesReady(s) == \A i \in DOMAIN s.items : ItemReady(s.items[i])

\* An event that leaves the response open.
ResponsesGoOn(s) == ResponsesReady(s) /\ s.done = st.done

LEMMA YieldItems ==
  ASSUME NEW next, DOMAIN next = DOMAIN ResponsesInit, NEW events, NEW yielded, Yield(next, events, yielded)
  PROVE  st'.items = next.items /\ st'.done = next.done
<1> DEFINE held == InOutputOrder(st.held \o SubSeq(yielded, FirstHeld(yielded), Len(yielded)))
           e == <<>>
<1>0. DOMAIN next = {"started", "progressed", "items", "held", "done"}
  BY DEF ResponsesInit
<1>1. st' = next \/ st' = [next EXCEPT !.held = e] \/ st' = [next EXCEPT !.held = held]
  BY DEF Yield, Handle
<1> HIDE DEF held, e
<1> QED
  BY <1>0, <1>1

LEMMA ItemKeeps ==
  ASSUME DOMAIN st = DOMAIN ResponsesInit, ResponsesReady(st), NEW i \in DOMAIN st.items, NEW x, ItemReady(x),
         NEW next, next = [st EXCEPT !.items[i] = x], NEW events, NEW yielded, Yield(next, events, yielded)
  PROVE  ResponsesGoOn(st')
<1>0. DOMAIN st = {"started", "progressed", "items", "held", "done"}
  BY DEF ResponsesInit
<1>1. DOMAIN next = DOMAIN st /\ next.items = [st.items EXCEPT ![i] = x] /\ next.done = st.done
  BY <1>0
<1>2. st'.items = next.items /\ st'.done = next.done
  BY <1>1, YieldItems
<1>3. DOMAIN next.items = DOMAIN st.items /\ \A j \in DOMAIN st.items : next.items[j] = IF j = i THEN x ELSE st.items[j]
  BY <1>1
<1> QED
  BY <1>1, <1>2, <1>3 DEF ResponsesGoOn, ResponsesReady

LEMMA ItemStepsKeep ==
  ASSUME DOMAIN st = DOMAIN ResponsesInit, ResponsesReady(st), NEW i
  PROVE  /\ \A piece \in Pieces : ToolArguments(i, piece) => ResponsesGoOn(st')
         /\ ToolArgumentsDone(i) => ResponsesGoOn(st')
         /\ ContentPartAdded(i) => ResponsesGoOn(st')
         /\ \A p, t : OutputTextDelta(i, p, t) => ResponsesGoOn(st')
         /\ \A p : OutputTextDone(i, p) => ResponsesGoOn(st')
         /\ \A p : ContentPartDone(i, p) => ResponsesGoOn(st')
         /\ OutputItemDone(i) => ResponsesGoOn(st')
<1> DEFINE item == st.items[i]
<1>0. i \in DOMAIN st.items => ItemReady(item) /\ DOMAIN item = {"wire", "call", "parts", "arguments", "argumentsDone", "done"}
  BY DEF ResponsesReady, ItemReady
<1>a. ASSUME i \in DOMAIN st.items, NEW parts, IsSeq(parts) PROVE ItemReady([item EXCEPT !.parts = parts])
  <2> DEFINE x == [item EXCEPT !.parts = parts]
  <2>1. /\ DOMAIN x = DOMAIN item /\ x.wire = item.wire /\ x.call = item.call /\ x.parts = parts
        /\ x.arguments = item.arguments /\ x.done = item.done
    BY <1>0, <1>a
  <2> HIDE DEF x
  <2>2. ItemReady(x)
    BY <1>0, <1>a, <2>1 DEF ItemReady
  <2> QED
    BY <2>2 DEF x
<1>b. ASSUME i \in DOMAIN st.items, NEW p, NEW part PROVE ItemReady([item EXCEPT !.parts[p] = part])
  <2> DEFINE parts == [item.parts EXCEPT ![p] = part]
  <2>1. IsSeq(item.parts)
    BY <1>0, <1>b DEF ItemReady
  <2>2. IsSeq(parts)
    BY <2>1, ListChanges
  <2>3. [item EXCEPT !.parts[p] = part] = [item EXCEPT !.parts = parts]
    OBVIOUS
  <2> HIDE DEF parts
  <2> QED
    BY <1>a, <1>b, <2>2, <2>3
<1>1. ASSUME NEW piece \in Pieces, ToolArguments(i, piece) PROVE ResponsesGoOn(st')
  <2> DEFINE raw == item.arguments \o piece
             x == [item EXCEPT !.arguments = raw]
             next == [st EXCEPT !.items[i] = x]
  <2>1. i \in DOMAIN st.items /\ ~item.done /\ item.wire \in WireTools /\ Yield(next, <<>>, <<>>)
    BY <1>1 DEF ToolArguments, OpenItem
  <2>2. raw \in Seq({"{", "}"})
    <3> DEFINE C == {"{", "}"}
    <3>1. item.arguments \in Seq(C)
      BY <1>0, <2>1 DEF ItemReady
    <3>2. \E c \in C : piece = <<c>>
      BY DEF Pieces
    <3>4. raw \in Seq(C)
      <4> DEFINE a == item.arguments
      <4> HIDE DEF C, a
      <4>0. PICK c \in C : piece = <<c>>
        BY <3>2
      <4>a. <<c>> \in Seq(C)
        OBVIOUS
      <4>1. piece \in Seq(C)
        BY <4>0, <4>a, Zenon
      <4>2. a \in Seq(C)
        BY <3>1 DEF a
      <4>3. a \o piece \in Seq(C)
        BY <4>1, <4>2
      <4> QED
        BY <4>3 DEF a
    <3> QED
      BY <3>4
  <2> HIDE DEF raw
  <2>3. /\ DOMAIN x = DOMAIN item /\ x.wire = item.wire /\ x.call = item.call /\ x.parts = item.parts
        /\ x.arguments = raw /\ x.done = item.done
    BY <1>0, <2>1
  <2>4. next = [st EXCEPT !.items[i] = x]
    OBVIOUS
  <2> HIDE DEF x, next
  <2>5. ItemReady(x)
    BY <1>0, <2>1, <2>2, <2>3 DEF ItemReady
  <2> QED
    BY <2>1, <2>4, <2>5, ItemKeeps
<1>2. ASSUME ToolArgumentsDone(i) PROVE ResponsesGoOn(st')
  <2> DEFINE x == [item EXCEPT !.argumentsDone = TRUE]
             next == [st EXCEPT !.items[i] = x]
  <2>1. i \in DOMAIN st.items /\ Yield(next, <<>>, <<>>)
    BY <1>2 DEF ToolArgumentsDone, OpenItem
  <2>3. /\ DOMAIN x = DOMAIN item /\ x.wire = item.wire /\ x.call = item.call /\ x.parts = item.parts
        /\ x.arguments = item.arguments /\ x.done = item.done
    BY <1>0, <2>1
  <2>4. next = [st EXCEPT !.items[i] = x]
    OBVIOUS
  <2> HIDE DEF x, next
  <2>5. ItemReady(x)
    BY <1>0, <2>1, <2>3 DEF ItemReady
  <2> QED
    BY <2>1, <2>4, <2>5, ItemKeeps
<1>3. ASSUME ContentPartAdded(i) PROVE ResponsesGoOn(st')
  <2> DEFINE part == [text |-> <<>>, textDone |-> FALSE, closed |-> FALSE]
             parts == Append(item.parts, part)
             x == [item EXCEPT !.parts = parts]
             next == [st EXCEPT !.items[i] = x]
             e == PartStarted(i, Len(item.parts) + 1)
  <2>1. i \in DOMAIN st.items /\ Yield(next, <<e>>, <<PartAdded(i)>>)
    BY <1>3 DEF ContentPartAdded, OpenItem
  <2>2. IsSeq(item.parts)
    BY <1>0, <2>1 DEF ItemReady
  <2> HIDE DEF part
  <2>3. IsSeq(parts)
    BY <2>2, ListChanges
  <2> HIDE DEF parts
  <2>4. next = [st EXCEPT !.items[i] = x]
    OBVIOUS
  <2>5. ItemReady(x)
    BY <1>a, <2>1, <2>3
  <2> HIDE DEF x, next, e
  <2> QED
    BY <2>1, <2>4, <2>5, ItemKeeps
<1>4. ASSUME NEW p, NEW t, OutputTextDelta(i, p, t) PROVE ResponsesGoOn(st')
  <2> DEFINE part == [item.parts[p] EXCEPT !.text = @ \o t]
             x == [item EXCEPT !.parts[p] = part]
             next == [st EXCEPT !.items[i] = x]
             e == TextDelta(i, p)
  <2>1. i \in DOMAIN st.items /\ Yield(next, <<e>>, <<Delta(i, p, t)>>)
    BY <1>4 DEF OutputTextDelta, OpenPartOf, OpenItem
  <2>2. next = [st EXCEPT !.items[i] = x]
    OBVIOUS
  <2> HIDE DEF part, e
  <2>3. ItemReady(x)
    BY <1>b, <2>1
  <2> HIDE DEF x, next
  <2> QED
    BY <2>1, <2>2, <2>3, ItemKeeps
<1>5. ASSUME NEW p, OutputTextDone(i, p) PROVE ResponsesGoOn(st')
  <2> DEFINE part == [item.parts[p] EXCEPT !.textDone = TRUE]
             x == [item EXCEPT !.parts[p] = part]
             next == [st EXCEPT !.items[i] = x]
  <2>1. i \in DOMAIN st.items /\ Yield(next, <<>>, <<>>)
    BY <1>5 DEF OutputTextDone, OpenPartOf, OpenItem
  <2>2. next = [st EXCEPT !.items[i] = x]
    OBVIOUS
  <2> HIDE DEF part
  <2>3. ItemReady(x)
    BY <1>b, <2>1
  <2> HIDE DEF x, next
  <2> QED
    BY <2>1, <2>2, <2>3, ItemKeeps
<1>6. ASSUME NEW p, ContentPartDone(i, p) PROVE ResponsesGoOn(st')
  <2> DEFINE part == [item.parts[p] EXCEPT !.closed = TRUE]
             x == [item EXCEPT !.parts[p] = part]
             next == [st EXCEPT !.items[i] = x]
             e == PartFinished(i, p)
  <2>1. i \in DOMAIN st.items /\ Yield(next, <<e>>, <<>>)
    BY <1>6 DEF ContentPartDone, OpenPartOf, OpenItem
  <2>2. next = [st EXCEPT !.items[i] = x]
    OBVIOUS
  <2> HIDE DEF part, e
  <2>3. ItemReady(x)
    BY <1>b, <2>1
  <2> HIDE DEF x, next
  <2> QED
    BY <2>1, <2>2, <2>3, ItemKeeps
<1>7. ASSUME OutputItemDone(i) PROVE ResponsesGoOn(st')
  <2> DEFINE tool == item.wire \in WireTools
             x == [item EXCEPT !.done = TRUE]
             next == [st EXCEPT !.items[i] = x]
             events == IF tool THEN <<>> ELSE <<ItemFinished(i)>>
             yielded == IF tool THEN <<>> ELSE <<Done(i, RestoredItem(item))>>
  <2>1. i \in DOMAIN st.items /\ ItemClosed(item) /\ Yield(next, events, yielded)
    BY <1>7 DEF OutputItemDone, OpenItem
  <2>2. next = [st EXCEPT !.items[i] = x]
    OBVIOUS
  <2>3. /\ DOMAIN x = DOMAIN item /\ x.wire = item.wire /\ x.call = item.call /\ x.parts = item.parts
        /\ x.arguments = item.arguments
    BY <1>0, <2>1
  <2> HIDE DEF x, next, events, yielded
  <2>4. ItemReady(x)
    BY <1>0, <2>1, <2>3 DEF ItemReady, ItemClosed
  <2> QED
    BY <2>1, <2>2, <2>4, ItemKeeps
<1> QED
  BY <1>1, <1>2, <1>3, <1>4, <1>5, <1>6, <1>7

\* The events before the terminal.
LEMMA ResponsesKeeps ==
  ASSUME DOMAIN st = DOMAIN ResponsesInit, ResponsesReady(st), ResponsesNext
  PROVE  ResponsesGoOn(st') \/ \E status : ResponseEnd(status)
<1>0. DOMAIN st = {"started", "progressed", "items", "held", "done"}
  BY DEF ResponsesInit
<1>1. ASSUME NEW i, NEW wire \in WireKinds, NEW call, wire \in WireTools => call \in CallIds, ItemAdded(i, wire, call)
      PROVE  ResponsesGoOn(st')
  <2> DEFINE tool == wire \in WireTools
             e == <<>>
             item == [wire |-> wire, call |-> call, parts |-> e, arguments |-> e,
                      argumentsDone |-> FALSE, done |-> FALSE]
             items == Put(st.items, i, item)
             next == [st EXCEPT !.items = items]
             events == IF tool THEN <<>> ELSE <<ItemStarted(i, i, wire, call)>>
             yielded == IF tool /\ ~proto.order THEN <<>> ELSE <<Added(i, PublicKind(wire), call, TRUE)>>
  <2>1. (tool => Resolves) /\ Yield(next, events, yielded)
    BY <1>1 DEF ItemAdded
  <2>2. IsSeq(e) /\ e \in Seq({"{", "}"})
    BY DEF IsSeq, Range
  <2> HIDE DEF e
  <2>3. ItemReady(item)
    BY <1>1, <2>1, <2>2 DEF ItemReady
  <2> HIDE DEF item
  <2>4. DOMAIN items = (DOMAIN st.items) \cup {i} /\ \A j \in DOMAIN items : items[j] = IF j = i THEN item ELSE st.items[j]
    BY DEF Put
  <2> HIDE DEF items, events, yielded
  <2>5. DOMAIN next = DOMAIN st /\ next.items = items /\ next.done = st.done
    BY <1>0
  <2> HIDE DEF next
  <2>6. st'.items = next.items /\ st'.done = next.done
    BY <2>1, <2>5, YieldItems
  <2> QED
    BY <2>3, <2>4, <2>5, <2>6 DEF ResponsesGoOn, ResponsesReady
<1>2. ASSUME ResponseCreated \/ ResponseInProgress PROVE ResponsesGoOn(st')
  <2>1. PICK next, events, yielded :
           /\ next = [st EXCEPT !.started = TRUE] \/ next = [st EXCEPT !.progressed = TRUE]
           /\ Yield(next, events, yielded)
    BY <1>2 DEF ResponseCreated, ResponseInProgress
  <2>2. DOMAIN next = DOMAIN st /\ next.items = st.items /\ next.done = st.done
    BY <1>0, <2>1
  <2>3. st'.items = next.items /\ st'.done = next.done
    BY <2>1, <2>2, YieldItems
  <2> QED
    BY <2>2, <2>3 DEF ResponsesGoOn, ResponsesReady
<1>3. ASSUME NEW i, NEW wire \in {"message", "reasoning"}, ItemAdded(i, wire, None) PROVE ResponsesGoOn(st')
  <2>1. wire \in WireKinds /\ wire \notin WireTools
    BY DEF WireKinds, WireTools
  <2> QED
    BY <1>1, <1>3, <2>1
<1>4. ASSUME NEW i, NEW wire \in WireTools, NEW call \in CallIds, ItemAdded(i, wire, call) PROVE ResponsesGoOn(st')
  <2>1. wire \in WireKinds
    BY DEF WireKinds
  <2> QED
    BY <1>1, <1>4, <2>1
<1> QED
  BY <1>2, <1>3, <1>4, ItemStepsKeep DEF ResponsesNext

\* What the client gets for a finished item.
LEMMA RestoredReady ==
  ASSUME NEW x, ItemReady(x), x.done
  PROVE  /\ RestoredItem(x).kind \in ToolKinds <=> x.wire \in WireTools
         /\ RestoredItem(x).kind \notin ToolKinds => Len(RestoredItem(x).content) \in Nat
         /\ RestoredItem(x).kind \in ToolKinds =>
               /\ RestoredItem(x) \in ToolItems
               /\ RestoredItem(x).kind = "function" => RestoredItem(x).content = <<Document>>
<1> DEFINE r == RestoredItem(x)
<1>1. CASE x.wire \in {"message", "reasoning"}
  <2> DEFINE c == [p \in DOMAIN x.parts |-> x.parts[p].text]
  <2>1. r = Item(x.wire, None, c)
    BY <1>1 DEF RestoredItem
  <2>2. DOMAIN x.parts = 1..Len(x.parts) /\ Len(x.parts) \in Nat
    <3>1. IsSeq(x.parts)
      BY DEF ItemReady
    <3> QED
      BY <3>1, SeqIsSeq DEF IsSeq
  <2>3. c = [p \in 1..Len(x.parts) |-> c[p]]
    BY <2>2
  <2> HIDE DEF c
  <2>4. Len(c) \in Nat
    BY <2>2, <2>3, FunIsSeq
  <2>5. r.kind = x.wire /\ r.content = c
    BY <2>1 DEF Item
  <2> HIDE DEF r
  <2>6. x.wire \notin ToolKinds /\ x.wire \notin WireTools
    BY <1>1 DEF ToolKinds, WireTools
  <2>7. /\ r.kind \in ToolKinds <=> x.wire \in WireTools
        /\ r.kind \notin ToolKinds /\ Len(r.content) \in Nat
    BY <2>4, <2>5, <2>6
  <2> QED
    BY <2>7 DEF r
<1>2. CASE x.wire = "freeform"
  <2> DEFINE C == {"{", "}", "input"}
             a == x.arguments
             D == {"{", "}"}
  <2>1. r = Item("custom", x.call, <<a>>)
    BY <1>2 DEF RestoredItem
  <2>2. x.wire \in WireTools /\ x.call \in CallIds /\ a \in Seq(D) /\ "custom" \in ToolKinds
    BY <1>2 DEF ItemReady, WireTools, ToolKinds
  <2>a. D \subseteq C /\ ToolItems = [kind : ToolKinds, call : CallIds, content : Seq(Seq(C))]
    BY DEF ToolItems
  <2> HIDE DEF C, D, a
  <2>3. a \in Seq(C)
    BY <2>2, <2>a
  <2>4. <<a>> \in Seq(Seq(C))
    BY <2>3
  <2>5. r \in ToolItems /\ r.kind = "custom"
    BY <2>1, <2>2, <2>4, <2>a DEF Item
  <2> HIDE DEF r
  <2>6. (r.kind \in ToolKinds <=> x.wire \in WireTools) /\ r.kind \in ToolKinds /\ r \in ToolItems /\ r.kind # "function"
    BY <2>2, <2>5
  <2> QED
    BY <2>6 DEF r
<1>3. CASE x.wire \in {"function", "bridged"}
  <2> DEFINE kind == PublicKind(x.wire)
             raw == x.arguments
  <2>1. r = ToolItem(kind, x.call, raw)
    BY <1>3 DEF RestoredItem
  <2>2. x.wire \in WireTools /\ x.call \in CallIds /\ Restorable(raw) /\ kind \in ToolKinds
    BY <1>3 DEF ItemReady, WireTools, ToolKinds, PublicKind
  <2> HIDE DEF kind, raw
  <2>3. r \in ToolItems /\ r.kind = kind /\ (kind = "function" => r.content = <<Document>>)
    BY <2>1, <2>2, RestoredTool
  <2> HIDE DEF r
  <2>4. (r.kind \in ToolKinds <=> x.wire \in WireTools) /\ r.kind \in ToolKinds /\ r \in ToolItems
        /\ (r.kind = "function" => r.content = <<Document>>)
    BY <2>2, <2>3
  <2> QED
    BY <2>4 DEF r
<1> QED
  BY <1>1, <1>2, <1>3 DEF ItemReady, WireKinds, WireTools

\* The terminal response grants its tools.
LEMMA ResponsesGrants ==
  ASSUME ResponsesReady(st), NEW n \in Nat, DOMAIN st.items = 1..n, NEW O,
         O = [i \in 1..n |-> RestoredItem(st.items[i])], \A i \in 1..n : st.items[i].done,
         NEW status, ResponsesDecodable(O, status)
  PROVE  /\ Grantable(O)
         /\ status = "completed" /\ request.choice = "required" => ToolPlaces(O) # {}
<1>1. IsSeq(O) /\ DOMAIN O = 1..n /\ \A i \in 1..n : O[i] = RestoredItem(st.items[i])
  <2>1. O = [i \in 1..n |-> O[i]] /\ \A i \in 1..n : O[i] = RestoredItem(st.items[i])
    OBVIOUS
  <2> QED
    BY <2>1, FunIsSeq
<1>2. ASSUME NEW i \in 1..n
      PROVE  /\ O[i].kind \in ToolKinds => Resolves
             /\ O[i].kind \notin ToolKinds => Len(O[i].content) \in Nat
             /\ O[i].kind \in ToolKinds =>
                   O[i] \in ToolItems /\ (O[i].kind = "function" => O[i].content = <<Document>>)
  <2>1. ItemReady(st.items[i]) /\ st.items[i].done
    BY DEF ResponsesReady
  <2> QED
    BY <1>1, <2>1, RestoredReady DEF ItemReady
<1>3. IsFiniteSet(ToolPlaces(O))
  <2>1. ToolPlaces(O) \subseteq 1..n
    BY <1>1 DEF ToolPlaces
  <2>2. IsFiniteSet(1..n)
    BY FS_Interval
  <2> QED
    BY <2>1, <2>2, FS_Subset
<1>4. CountAllowed(Cardinality(ToolPlaces(O)), status = "completed") /\ Decodes(O, status)
  BY DEF ResponsesDecodable, ToolCount, ToolPlaces
<1>5. /\ request.parallel \/ \A i, j \in ToolPlaces(O) : i = j
      /\ status = "completed" /\ request.choice = "required" => ToolPlaces(O) # {}
  BY <1>3, <1>4, CountGrants
<1>6. Grantable(O)
  <2>1. \A i \in ToolPlaces(O) : O[i] \in ToolItems /\ (O[i].kind = "function" => O[i].content = <<Document>>)
    BY <1>1, <1>2 DEF ToolPlaces
  <2>2. ToolPlaces(O) # {} => Resolves
    BY <1>1, <1>2 DEF ToolPlaces
  <2>3. \A i \in DOMAIN O : O[i].kind \notin ToolKinds => Len(O[i].content) \in Nat
    BY <1>1, <1>2
  <2> QED
    BY <1>1, <1>4, <1>5, <2>1, <2>2, <2>3, GrantMade
<1> QED
  BY <1>5, <1>6

\* What the gate of a codec makes of the last events: nothing in them is a head.
LEMMA GateOpens ==
  ASSUME NEW next, NEW events, NEW yielded, next.done, IsSeq(st.held), IsSeq(yielded), Heads(yielded) = {},
         Yield(next, events, yielded)
  PROVE  out' = yielded \/ (st.held # <<>> /\ proto.adapter = "codec" /\ out' = InOutputOrder(st.held \o yielded))
<1> DEFINE n == Len(yielded)
           first == FirstHeld(yielded)
           rest == SubSeq(yielded, first, n)
           published == SubSeq(yielded, 1, first - 1)
           S == Range(yielded)
<1>1. yielded \in Seq(S) /\ n \in Nat
  BY DEF IsSeq
<1> HIDE DEF S
<1>2. proto.adapter = "codec" => out' = published \o InOutputOrder(st.held \o rest)
  BY DEF Yield, Handle
<1>3. proto.adapter # "codec" => out' = yielded
  BY DEF Yield, Handle
<1>4. CASE st.held = <<>>
  <2> DEFINE e == <<>>
             E == {}
  <2>1. first = n + 1
    <3>1. first = CHOOSE k \in 1..(n + 1) : /\ k \in Heads(yielded) \/ k = n + 1
                                            /\ \A h \in Heads(yielded) : k <= h
      BY <1>4 DEF FirstHeld
    <3>2. n + 1 \in 1..(n + 1)
      BY <1>1
    <3> HIDE DEF n
    <3> QED
      BY <3>1, <3>2
  <2>2. rest = e /\ published = yielded
    <3>1. rest = SubSeq(yielded, n + 1, n) /\ published = SubSeq(yielded, 1, n)
      BY <1>1, <2>1
    <3> HIDE DEF rest, published
    <3> QED
      BY <1>1, <3>1
  <2>3. st.held \o rest = e
    BY <1>4, <2>2
  <2>4. e \in Seq(E)
    OBVIOUS
  <2> HIDE DEF e, E, rest, published
  <2>5. InOutputOrder(e) \in Seq(E)
    BY <2>4, OutputOrderType
  <2>6. InOutputOrder(e) = <<>>
    <3> DEFINE q == InOutputOrder(e)
    <3> HIDE DEF q
    <3>1. q \in Seq(E)
      BY <2>5 DEF q
    <3>2. \A x : x \notin E
      BY DEF E
    <3>3. q = <<>>
      BY <3>1, <3>2
    <3> QED
      BY <3>3 DEF q
  <2>7. proto.adapter = "codec" => out' = yielded \o <<>>
    BY <1>2, <2>2, <2>3, <2>6
  <2>8. yielded \o <<>> = yielded
    BY <1>1
  <2> QED
    BY <1>3, <2>7, <2>8
<1>5. CASE st.held # <<>>
  <2>1. first = 1
    BY <1>5 DEF FirstHeld
  <2>2. rest = yielded /\ published = <<>>
    <3>1. rest = SubSeq(yielded, 1, n) /\ published = SubSeq(yielded, 1, 0)
      BY <2>1
    <3> HIDE DEF rest, published
    <3> QED
      BY <1>1, <3>1
  <2> DEFINE all == st.held \o yielded
             T == Range(st.held) \cup Range(yielded)
  <2>3. InOutputOrder(all) \in Seq(T)
    <3>1. st.held \in Seq(T) /\ yielded \in Seq(T)
      BY DEF IsSeq
    <3> HIDE DEF T
    <3>2. all \in Seq(T)
      BY <3>1
    <3> QED
      BY <3>2, OutputOrderType
  <2> HIDE DEF rest, published, T
  <2>4. proto.adapter = "codec" => out' = <<>> \o InOutputOrder(all)
    BY <1>2, <2>2
  <2> DEFINE q == InOutputOrder(all)
  <2>5. <<>> \o q = q
    <3> HIDE DEF q
    <3>1. q \in Seq(T)
      BY <2>3 DEF q
    <3> QED
      BY <3>1
  <2> QED
    BY <1>3, <1>5, <2>4, <2>5
<1> QED
  BY <1>4, <1>5

\* The terminal event gives the client the tools of the response it carries.
LEMMA ResponseEndPlan ==
  ASSUME proto \in Protocols, ResponsesShape(st), ResponsesReady(st), ViewQuiet(view), NEW status, ResponseEnd(status)
  PROVE  \E O : Plan(O, view, out')
<1> DEFINE n == Cardinality(DOMAIN st.items)
           O == [i \in 1..n |-> RestoredItem(st.items[i])]
           tool(i) == O[i].kind \in ToolKinds
           next == [st EXCEPT !.done = TRUE]
           shown == [i \in 1..n |-> IF tool(i) THEN Emitted(i, O[i]) ELSE <<>>]
           events == FlattenSeq([i \in 1..n |-> IF tool(i) THEN CompleteItem(i, O[i]) ELSE <<>>]) \o <<Finished(status)>>
           e == End(status, O)
           s == FlattenSeq(shown)
           t == <<e>>
           yielded == s \o t
<1>1. /\ DOMAIN st.items = 1..n /\ \A i \in 1..n : st.items[i].done
      /\ ResponsesDecodable(O, status)
      /\ Yield(next, events, yielded)
  BY DEF ResponseEnd
<1>2. n \in Nat
  <2>1. IsFiniteSet(DOMAIN st.items)
    BY UpToMaxItems DEF ResponsesShape
  <2> QED
    BY <2>1, FS_CardinalityType
<1> HIDE DEF n, events
<1>3. /\ Grantable(O)
      /\ status = "completed" /\ request.choice = "required" => ToolPlaces(O) # {}
  <2>1. O = [i \in 1..n |-> RestoredItem(st.items[i])]
    OBVIOUS
  <2> HIDE DEF O
  <2> QED
    BY <1>1, <1>2, <2>1, ResponsesGrants
<1>4. DOMAIN O = 1..n /\ 1..n \subseteq 1..MaxItems
  BY <1>1 DEF ResponsesShape
<1> HIDE DEF O
<1>5. next.done
  BY DEF ResponsesShape, ResponsesInit
<1> HIDE DEF next
<1>6. \A i \in 1..n : shown[i] = IF tool(i) THEN Emitted(i, O[i]) ELSE <<>>
  OBVIOUS
<1>7. shown = [i \in 1..n |-> shown[i]]
  OBVIOUS
<1> HIDE DEF shown
<1>8. ASSUME NEW i \in 1..n PROVE ItemBlock(i, O[i], shown[i])
  <2>1. CASE tool(i)
    BY <1>6, <2>1, ItemBlocks DEF Emitted
  <2>2. CASE ~tool(i)
    BY <1>6, <2>2, ItemBlocks
  <2> QED
    BY <2>1, <2>2
<1>9. Gives(O, s)
  BY <1>2, <1>4, <1>7, <1>8, BlocksGive
<1>10. e.ev = "end" /\ e.status = status
  BY DEF End
<1> HIDE DEF e
<1>11. IsSeq(t) /\ DOMAIN t = {1} /\ t[1] = e
  BY DEF IsSeq, Range
<1>12. Plan(O, view, yielded)
  BY <1>3, <1>9, EndIsLast DEF e
<1>13. CASE out' = yielded
  BY <1>12, <1>13
<1>14. ASSUME proto.adapter = "codec" PROVE \A x \in DOMAIN s : s[x].ev # "added" /\ \A i : ~Undoes(s[x], i)
  <2>1. proto.order
    BY <1>14 DEF Protocols
  <2>2. ASSUME NEW i \in 1..n, NEW k \in DOMAIN shown[i] PROVE shown[i][k].ev # "added" /\ \A j : ~Undoes(shown[i][k], j)
    <3>1. CASE ~tool(i)
      <4> DEFINE q == <<>>
      <4>1. DOMAIN q = {}
        OBVIOUS
      <4>2. shown[i] = q
        BY <1>6, <3>1
      <4> HIDE DEF q
      <4> QED
        BY <2>2, <4>1, <4>2
    <3>2. CASE tool(i)
      <4> DEFINE a == Added(i, O[i].kind, O[i].call, TRUE)
                 b == Delta(i, 1, O[i].content[1])
                 c == Done(i, O[i])
                 q == Tail(<<a, b, c>>)
      <4>1. b.ev = "delta" /\ c.ev = "done" /\ c.item = O[i]
        BY DEF Delta, Done
      <4>2. shown[i] = q
        BY <1>6, <2>1, <3>2 DEF Emitted, ToolEvents
      <4> HIDE DEF a, b, c
      <4>3. \A x \in DOMAIN q : q[x] = b \/ q[x] = c
        OBVIOUS
      <4>4. ToolDone(c)
        BY <3>2, <4>1 DEF ToolDone
      <4> HIDE DEF q
      <4> QED
        BY <2>2, <4>1, <4>2, <4>3, <4>4 DEF Undoes
    <3> QED
      BY <3>1, <3>2
  <2>3. \A i \in 1..n : IsSeq(shown[i])
    BY <1>8 DEF ItemBlock, Events
  <2>4. Joins(shown, n, s)
    BY <1>2, <1>7, <2>3, FlattenJoins
  <2> HIDE DEF s
  <2>5. \A x \in DOMAIN s : \E i \in 1..n : \E k \in DOMAIN shown[i] : s[x] = shown[i][k]
    BY <2>4 DEF Joins, Placed
  <2> SUFFICES ASSUME NEW x \in DOMAIN s PROVE s[x].ev # "added" /\ \A i : ~Undoes(s[x], i)
    OBVIOUS
  <2>6. PICK i \in 1..n : \E k \in DOMAIN shown[i] : s[x] = shown[i][k]
    BY <2>5
  <2> QED
    BY <2>2, <2>6
<1>15. ASSUME proto.adapter = "codec", st.held # <<>>, out' = InOutputOrder(st.held \o yielded)
       PROVE  Plan(O, view, out')
  <2> DEFINE h == st.held
             all == h \o yielded
  <2>1. IsSeq(h) /\ \A x \in DOMAIN h : h[x].ev \in EventKinds /\ ~ToolDone(h[x]) /\ ~Finishes(h[x])
    <3>1. IsSeq(h) /\ \A x \in DOMAIN h : Quiet(h[x]) \/ HeadOfItem(st, h[x])
      BY DEF ResponsesShape, Range
    <3> HIDE DEF h
    <3> QED
      BY <3>1 DEF Quiet, HeadOfItem, EventKinds, ToolDone, Finishes
  <2>2. Events(yielded) /\ Ordered(yielded) /\ Follows(O, yielded)
    BY <1>12 DEF Plan
  <2>3. /\ \A x \in DOMAIN s : x \in DOMAIN yielded /\ yielded[x] = s[x]
        /\ \A x \in DOMAIN yielded : Finishes(yielded[x]) => status = "completed"
    <3>1. IsSeq(s) /\ \A x \in DOMAIN s : ~Finishes(s[x])
      BY <1>9 DEF Gives, Events
    <3> HIDE DEF s, t
    <3>a. IsSeq(s) /\ IsSeq(t)
      BY <1>11, <3>1
    <3>2. /\ DOMAIN s = 1..Len(s) /\ Len(s) \in Nat /\ Len(t) \in Nat /\ DOMAIN yielded = 1..(Len(s) + Len(t))
          /\ \A x \in 1..Len(s) : yielded[x] = s[x]
          /\ \A x \in DOMAIN yielded : x \notin DOMAIN s => x - Len(s) \in DOMAIN t /\ yielded[x] = t[x - Len(s)]
      BY <3>a, ConcatPlaces
    <3> HIDE DEF yielded
    <3>3. \A x \in DOMAIN s : x \in DOMAIN yielded /\ yielded[x] = s[x]
      BY <3>2
    <3>4. ASSUME NEW x \in DOMAIN yielded, Finishes(yielded[x]) PROVE status = "completed"
      <4>1. x \notin DOMAIN s
        BY <3>1, <3>3, <3>4
      <4>2. yielded[x] = e
        BY <1>11, <3>2, <4>1
      <4> QED
        BY <1>10, <3>4, <4>2 DEF Finishes
    <3> QED
      BY <3>3, <3>4
  <2> HIDE DEF yielded, h, s
  <2>4. Events(h) /\ Ordered(h)
    BY <2>1 DEF Events, Ordered
  <2>5. Events(all) /\ Ordered(all)
    BY <2>1, <2>2, <2>4, OrderedConcat
  <2>6. /\ DOMAIN h = 1..Len(h) /\ DOMAIN yielded = 1..Len(yielded) /\ Len(h) \in Nat /\ Len(yielded) \in Nat
        /\ DOMAIN all = 1..(Len(h) + Len(yielded))
        /\ \A x \in 1..Len(h) : all[x] = h[x]
        /\ \A x \in 1..Len(yielded) : all[Len(h) + x] = yielded[x]
        /\ \A x \in DOMAIN all : x \notin DOMAIN h => x - Len(h) \in DOMAIN yielded /\ all[x] = yielded[x - Len(h)]
    <3>1. IsSeq(h) /\ IsSeq(yielded)
      BY <2>1, <2>2 DEF Events
    <3> QED
      BY <3>1, ConcatPlaces
  <2> HIDE DEF all
  <2>7. Follows(O, all)
    <3> SUFFICES ASSUME NEW x \in DOMAIN all, ToolDone(all[x]) PROVE all[x].i \in DOMAIN O /\ all[x].item = O[all[x].i]
      BY DEF Follows
    <3>1. x \notin DOMAIN h
      BY <2>1, <2>6
    <3> QED
      BY <2>2, <2>6, <3>1 DEF Follows
  <2>8. ASSUME NEW i \in ToolPlaces(O) PROVE \E k \in DOMAIN all : ToolDone(all[k]) /\ all[k].i = i
    <3>1. PICK x \in DOMAIN s : ToolDone(s[x]) /\ s[x].i = i
      BY <1>9 DEF Gives
    <3>2. x \in DOMAIN yielded /\ yielded[x] = s[x]
      BY <2>3
    <3>3. Len(h) + x \in DOMAIN all /\ all[Len(h) + x] = yielded[x]
      BY <2>6, <3>2
    <3> QED
      BY <3>1, <3>2, <3>3
  <2>9. ASSUME request.choice = "required", NEW k \in DOMAIN all, Finishes(all[k]) PROVE ToolPlaces(O) # {}
    <3>1. k \notin DOMAIN h
      BY <2>1, <2>6, <2>9
    <3>2. status = "completed"
      BY <2>3, <2>6, <2>9, <3>1
    <3> QED
      BY <1>3, <2>9, <3>2
  <2>10. Plan(O, view, InOutputOrder(all))
    BY <1>3, <1>4, <2>5, <2>7, <2>8, <2>9, OutputOrderPlan
  <2> QED
    BY <1>15, <2>10 DEF all, h
<1>16. CASE proto.adapter # "codec"
  BY <1>1, <1>13, <1>16 DEF Yield, Handle
<1>17. CASE proto.adapter = "codec"
  <2>1. Heads(yielded) = {}
    <3> SUFFICES ASSUME NEW x \in DOMAIN yielded, yielded[x].ev = "added" PROVE FALSE
      BY DEF Heads
    <3>1. IsSeq(s) /\ IsSeq(t)
      BY <1>9, <1>11 DEF Gives, Events
    <3> HIDE DEF s, t
    <3>2. /\ DOMAIN s = 1..Len(s) /\ Len(s) \in Nat /\ \A y \in 1..Len(s) : yielded[y] = s[y]
          /\ \A y \in DOMAIN yielded : y \notin DOMAIN s => y - Len(s) \in DOMAIN t /\ yielded[y] = t[y - Len(s)]
      BY <3>1, ConcatPlaces
    <3>3. x \in DOMAIN s => FALSE
      BY <1>14, <1>17, <3>2
    <3> QED
      BY <1>10, <1>11, <3>2, <3>3
  <2>2. IsSeq(st.held) /\ IsSeq(yielded)
    BY <1>12 DEF ResponsesShape, Plan, Events
  <2> HIDE DEF yielded
  <2>3. out' = yielded \/ (st.held # <<>> /\ out' = InOutputOrder(st.held \o yielded))
    BY <1>1, <1>5, <2>1, <2>2, GateOpens
  <2> QED
    BY <1>13, <1>15, <1>17, <2>3
<1> QED
  BY <1>16, <1>17

-----------------------------------------------------------------------------
(* Provider plugins.                                                       *)

\* The parts that were not streamed: neither a head nor an end of an item.
LEMMA RestOfPartsEvents ==
  ASSUME NEW i, NEW item, NEW from \in Nat, Len(item.content) \in Nat
  PROVE  /\ IsSeq(RestOfParts(i, item, from))
         /\ \A e \in Range(RestOfParts(i, item, from)) : e.ev \in {"part", "delta"}
<1> DEFINE m == Len(item.content) - from
           n == IF m < 0 THEN 0 ELSE m
           a == PartAdded(i)
           d(k) == Delta(i, from + k, item.content[from + k])
           S == {a} \cup {d(k) : k \in 1..n}
           seqs == [k \in 1..m |-> <<a>> \o TextEvents(i, from + k, item.content[from + k])]
<1>1. n \in Nat /\ 1..m = 1..n
  OBVIOUS
<1>2. \A e \in S : e.ev \in {"part", "delta"}
  BY DEF PartAdded, Delta
<1>3. ASSUME NEW k \in 1..n PROVE seqs[k] \in Seq(S)
  <2>1. seqs[k] = <<a>> \o TextEvents(i, from + k, item.content[from + k])
    BY <1>1
  <2>2. TextEvents(i, from + k, item.content[from + k]) \in {<<>>, <<d(k)>>}
    BY DEF TextEvents
  <2>3. a \in S /\ d(k) \in S
    OBVIOUS
  <2> DEFINE b == d(k)
             t == TextEvents(i, from + k, item.content[from + k])
  <2> HIDE DEF S, a, b, t, seqs
  <2>4. <<a>> \in Seq(S) /\ <<b>> \in Seq(S) /\ <<>> \in Seq(S)
    BY <2>3 DEF b
  <2>5. t \in Seq(S)
    BY <2>2, <2>4, Zenon DEF t, b
  <2>6. <<a>> \o t \in Seq(S)
    BY <2>4, <2>5
  <2> QED
    BY <2>1, <2>6 DEF t
<1>4. RestOfParts(i, item, from) = FlattenSeq(seqs)
  BY DEF RestOfParts
<1>5. seqs = [k \in 1..n |-> seqs[k]]
  BY <1>1
<1> HIDE DEF seqs, n, S
<1>6. FlattenSeq(seqs) \in Seq(S)
  BY <1>1, <1>3, <1>5, FlattenSeqType
<1> QED
  BY <1>2, <1>4, <1>6, SeqIsSeq

LEMMA ItemEventsBlock ==
  ASSUME PublishedItems, NEW i, NEW item, item.kind \notin ToolKinds => Len(item.content) \in Nat
  PROVE  ItemBlock(i, item, ItemEvents(i, item))
<1>1. CASE item.kind \in ToolKinds
  BY <1>1, ItemBlocks DEF ItemEvents
<1>2. CASE item.kind \notin ToolKinds
  <2> DEFINE from == IF i \in DOMAIN st.items THEN Len(st.items[i].parts) ELSE 0
             a == Added(i, item.kind, None, TRUE)
             c == Done(i, item)
             r == RestOfParts(i, item, from)
             S == {a, c} \cup Range(r)
             s == ItemEvents(i, item)
  <2>1. from \in Nat
    BY DEF PublishedItems
  <2>2. s = r \o <<c>> \/ s = (<<a>> \o r) \o <<c>>
    BY <1>2 DEF ItemEvents
  <2>3. a.ev = "added" /\ a.i = i /\ c.ev = "done" /\ c.i = i /\ c.item = item
    BY DEF Added, Done
  <2> HIDE DEF from
  <2>4. IsSeq(r) /\ \A e \in Range(r) : e.ev \in {"part", "delta"}
    BY <1>2, <2>1, RestOfPartsEvents
  <2> HIDE DEF r
  <2>5. r \in Seq(S) /\ a \in S /\ c \in S
    <3> DEFINE R == Range(r)
    <3>1. r \in Seq(R) /\ S = {a, c} \cup R
      BY <2>4 DEF IsSeq
    <3> HIDE DEF R, S, a, c
    <3> QED
      BY <3>1
  <2> HIDE DEF a, c
  <2>6. \A e \in S : /\ e.ev \in EventKinds /\ (e.ev \in {"added", "done"} => e.i = i)
                     /\ ~ToolDone(e) /\ ~Finishes(e)
    BY <1>2, <2>3, <2>4 DEF EventKinds, ToolDone, Finishes
  <2> HIDE DEF S, s
  <2>7. r \o <<c>> \in Seq(S) /\ (<<a>> \o r) \o <<c>> \in Seq(S)
    BY <2>5
  <2>8. s \in Seq(S)
    BY <2>2, <2>7
  <2>9. IsSeq(s) /\ \A x \in DOMAIN s : s[x] \in S
    BY <2>8, SeqIsSeq
  <2>10. Events(s) /\ Ordered(s)
    BY <2>6, <2>9 DEF Events, Ordered
  <2>11. ItemBlock(i, item, s)
    BY <1>2, <2>6, <2>9, <2>10 DEF ItemBlock
  <2> QED
    BY <2>11 DEF s
<1> QED
  BY <1>1, <1>2

\* terminal_events: the items, then the end.
LEMMA TerminalGives ==
  ASSUME PublishedItems, NEW O, IsSeq(O), \A i \in DOMAIN O : O[i].kind \notin ToolKinds => Len(O[i].content) \in Nat,
         NEW status
  PROVE  \E s : TerminalEvents(O, status) = s \o <<End(status, O)>> /\ Gives(O, s)
<1> DEFINE seqs == [i \in DOMAIN O |-> ItemEvents(i, O[i])]
           head == IF st.created THEN <<>> ELSE <<Created>>
           s == head \o FlattenSeq(seqs)
<1>1. TerminalEvents(O, status) = s \o <<End(status, O)>>
  BY DEF TerminalEvents
<1>2. DOMAIN O = 1..Len(O) /\ Len(O) \in Nat
  BY DEF IsSeq
<1>3. seqs = [i \in 1..Len(O) |-> seqs[i]] /\ \A i \in 1..Len(O) : seqs[i] = ItemEvents(i, O[i])
  BY <1>2
<1>4. Silent(head)
  BY QuietNone, QuietOne, QuietEvents, SilentQuiet
<1> HIDE DEF seqs, head
<1>5. \A i \in 1..Len(O) : ItemBlock(i, O[i], seqs[i])
  BY <1>2, <1>3, ItemEventsBlock
<1>6. Gives(O, FlattenSeq(seqs))
  BY <1>2, <1>3, <1>5, BlocksGive
<1>7. Gives(O, s)
  BY <1>4, <1>6, SilentThenGives
<1> QED
  BY <1>1, <1>7

\* The response a plugin has finished.
PluginReady(s) ==
    s.done =>
      /\ IsSeq(s.output) /\ Grantable(s.output)
      /\ \A i \in DOMAIN s.output : s.output[i].kind \notin ToolKinds => Len(s.output[i].content) \in Nat
      /\ s.status = "completed" /\ request.choice = "required" => ToolPlaces(s.output) # {}
      /\ proto.adapter = "managed_provider" => s.status = "completed"

\* Every answer of a plugin.
LEMMA PluginPlans ==
  ASSUME DOMAIN st = DOMAIN PluginInit, PublishedItems, PluginNext
  PROVE  /\ PluginReady(st')
         /\ ~st'.done => AllQuiet(out')
         /\ st'.done /\ proto.adapter = "provider" /\ ViewQuiet(view) => Plan(st'.output, view, out')
<1> DEFINE Goal == /\ PluginReady(st')
                   /\ ~st'.done => AllQuiet(out')
                   /\ st'.done /\ proto.adapter = "provider" /\ ViewQuiet(view) => Plan(st'.output, view, out')
<1>0. DOMAIN st = {"created", "items", "complete", "status", "output", "done"}
  BY DEF PluginInit
<1>a. ASSUME ~st'.done, AllQuiet(out') PROVE Goal
  BY <1>a DEF PluginReady
<1> HIDE DEF Goal
<1>1. ASSUME PluginCreated PROVE Goal
  <2>1. ~st'.done /\ out' = <<Created>>
    BY <1>0, <1>1 DEF PluginCreated, Handle, Reading
  <2> QED
    BY <1>a, <2>1, QuietOne, QuietEvents
<1>2. ASSUME NEW kind \in {"message", "reasoning"}, PluginItem(kind) PROVE Goal
  <2> DEFINE i == Len(st.items) + 1
  <2>1. ~st'.done /\ out' = <<Added(i, kind, None, TRUE)>>
    BY <1>0, <1>2 DEF PluginItem, Handle, Reading
  <2>2. Quiet(Added(i, kind, None, TRUE))
    BY QuietEvents DEF ToolKinds
  <2> QED
    BY <1>a, <2>1, <2>2, QuietOne
<1>3. ASSUME NEW i, PluginPart(i) PROVE Goal
  <2> DEFINE items == [st.items EXCEPT ![i].parts = Append(@, <<>>)]
  <2>1. ~st.done /\ st' = [st EXCEPT !.items = items] /\ out' = <<PartAdded(i)>>
    BY <1>3 DEF PluginPart, Handle, Reading
  <2> HIDE DEF items
  <2>2. ~st'.done
    BY <1>0, <2>1
  <2> QED
    BY <1>a, <2>1, <2>2, QuietOne, QuietEvents
<1>4. ASSUME NEW i, NEW p, NEW t, PluginText(i, p, t) PROVE Goal
  <2> DEFINE items == [st.items EXCEPT ![i].parts[p] = @ \o t]
  <2>1. ~st.done /\ st' = [st EXCEPT !.items = items] /\ out' = <<Delta(i, p, t)>>
    BY <1>4 DEF PluginText, Handle, Reading
  <2> HIDE DEF items
  <2>2. ~st'.done
    BY <1>0, <2>1
  <2> QED
    BY <1>a, <2>1, <2>2, QuietOne, QuietEvents
<1>5. ASSUME PluginComplete PROVE Goal
  <2>1. ~st'.done /\ out' = <<>>
    BY <1>0, <1>5 DEF PluginComplete, Handle, Reading
  <2> QED
    BY <1>a, <2>1, QuietNone
<1>6. ASSUME NEW final \in Finals, NEW status \in {"completed", "incomplete"}, PluginFinish(final, status)
      PROVE  Goal
  <2> DEFINE O == [i \in DOMAIN final |-> final[i].item]
  <2>1. /\ Verified(final, status)
        /\ st' = [st EXCEPT !.done = TRUE, !.status = status, !.output = O]
        /\ proto.adapter = "provider" => out' = TerminalEvents(O, status)
    BY <1>6 DEF PluginFinish, Handle
  <2>2. PICK n \in 0..MaxItems : final \in [1..n -> FinalItems]
    BY DEF Finals
  <2>3. n \in Nat /\ \A i \in 1..n : final[i] \in FinalItems /\ O[i] = final[i].item
    BY <2>2, LimitsAssumption
  <2>4. IsSeq(O) /\ DOMAIN O = 1..n
    <3>1. O = [i \in 1..n |-> O[i]]
      BY <2>2
    <3> HIDE DEF O
    <3> QED
      BY <2>3, <3>1, FunIsSeq
  <2>5. /\ status = "incomplete" => proto.adapter # "managed_provider"
        /\ ToolCount(O) > 0 => Resolves
        /\ CountAllowed(ToolCount(O), status = "completed")
        /\ Decodes(O, status)
    BY <2>1 DEF Verified
  <2> HIDE DEF O
  <2>6. ASSUME NEW i \in 1..n
        PROVE  /\ O[i].kind \notin ToolKinds => Len(O[i].content) \in Nat
               /\ O[i].kind \in ToolKinds =>
                     O[i] \in ToolItems /\ (O[i].kind = "function" => O[i].content = <<Document>>)
    <3> DEFINE C == {"{", "}", "input"}
               d == Document
    <3>1. /\ O[i].kind \notin ToolKinds => Len(O[i].content) \in Nat
          /\ O[i].kind \in ToolKinds => O[i].call \in CallIds /\ O[i] = Item(O[i].kind, O[i].call, <<d>>)
      BY <2>3, FinalItemShape
    <3>2. d \in Seq(C) /\ ToolItems = [kind : ToolKinds, call : CallIds, content : Seq(Seq(C))]
      BY DEF Document, ToolItems
    <3> HIDE DEF C, d
    <3>3. <<d>> \in Seq(Seq(C))
      BY <3>2
    <3>4. O[i].kind \in ToolKinds => O[i] \in ToolItems /\ O[i].content = <<d>>
      <4> DEFINE kind == O[i].kind
                 call == O[i].call
                 content == <<d>>
      <4>1. kind \in ToolKinds => call \in CallIds /\ O[i] = [kind |-> kind, call |-> call, content |-> content]
        BY <3>1 DEF Item
      <4>2. content \in Seq(Seq(C))
        BY <3>3
      <4> HIDE DEF kind, call, content
      <4>3. kind \in ToolKinds => O[i] \in ToolItems /\ O[i].content = content
        BY <3>2, <4>1, <4>2
      <4> QED
        BY <4>3 DEF kind, content
    <3> QED
      BY <3>1, <3>4 DEF d
  <2>7. IsFiniteSet(ToolPlaces(O)) /\ ToolCount(O) = Cardinality(ToolPlaces(O))
    <3>1. ToolPlaces(O) \subseteq 1..n
      BY <2>4 DEF ToolPlaces
    <3>2. IsFiniteSet(1..n)
      BY <2>3, FS_Interval
    <3>3. IsFiniteSet(ToolPlaces(O))
      BY <3>1, <3>2, FS_Subset
    <3> QED
      BY <3>3 DEF ToolCount, ToolPlaces
  <2>8. /\ request.parallel \/ \A i, j \in ToolPlaces(O) : i = j
        /\ status = "completed" /\ request.choice = "required" => ToolPlaces(O) # {}
    <3>1. IsFiniteSet(ToolPlaces(O)) /\ CountAllowed(Cardinality(ToolPlaces(O)), status = "completed")
      BY <2>5, <2>7
    <3> QED
      BY <3>1, CountGrants
  <2>9. ToolPlaces(O) # {} => Resolves
    BY <2>5, <2>7, FS_EmptySet, FS_CardinalityType
  <2>10. Grantable(O)
    <3>1. \A i \in ToolPlaces(O) : O[i] \in ToolItems /\ (O[i].kind = "function" => O[i].content = <<Document>>)
      BY <2>4, <2>6 DEF ToolPlaces
    <3> QED
      BY <2>4, <2>5, <2>6, <2>8, <2>9, <3>1, GrantMade
  <2>11. st'.done = TRUE /\ st'.status = status /\ st'.output = O
    BY <1>0, <2>1
  <2>12. PluginReady(st')
    BY <2>4, <2>5, <2>6, <2>8, <2>10, <2>11 DEF PluginReady
  <2>13. ASSUME proto.adapter = "provider", ViewQuiet(view) PROVE Plan(O, view, out')
    <3>1. PICK s : TerminalEvents(O, status) = s \o <<End(status, O)>> /\ Gives(O, s)
      BY <2>4, <2>6, TerminalGives
    <3>2. Plan(O, view, s \o <<End(status, O)>>)
      BY <2>8, <2>10, <2>13, <3>1, EndIsLast
    <3> QED
      BY <2>1, <2>13, <3>1, <3>2
  <2> QED
    BY <2>11, <2>12, <2>13 DEF Goal
<1> QED
  BY <1>1, <1>2, <1>3, <1>4, <1>5, <1>6 DEF PluginNext, Goal

\* managed_final_events: the item that carries the envelope comes after the tools.
LEMMA ManagedPluginPlan ==
  ASSUME PublishedItems, PluginReady(st), st.done, proto.adapter = "managed_provider", ViewQuiet(view)
  PROVE  Plan(st.output, view, FinalEvents(WithEnvelope(st.output)))
<1> DEFINE O == st.output
           E == WithEnvelope(O)
           n == Len(E)
           m == Len(O)
           a == Added(n, "reasoning", None, TRUE)
           c == Done(n, E[n])
           q == IF n = m THEN <<>> ELSE <<a, c>>
           events == TerminalEvents(O, "completed")
<1>1. /\ IsSeq(O) /\ Grantable(O) /\ (request.choice = "required" => ToolPlaces(O) # {})
      /\ \A i \in DOMAIN O : O[i].kind \notin ToolKinds => Len(O[i].content) \in Nat
  BY DEF PluginReady
<1> HIDE DEF O
<1>2. /\ IsSeq(E) /\ Len(E) \in {Len(O), Len(O) + 1}
      /\ \A i \in DOMAIN O : i \in DOMAIN E /\ E[i] = O[i]
      /\ \A i \in DOMAIN E : i \notin DOMAIN O => E[i].kind = "reasoning" /\ i = Len(O) + 1
  BY <1>1, EnvelopeShape
<1> HIDE DEF E
<1>3. m \in Nat /\ n \in Nat /\ DOMAIN O = 1..m /\ DOMAIN E = 1..n
  BY <1>1, <1>2, SeqIsSeq DEF IsSeq
<1>4. SubSeq(E, 1, m) = O
  <2>1. E \in Seq(Range(E)) /\ O \in Seq(Range(O))
    BY <1>1, <1>2 DEF IsSeq
  <2> DEFINE S == Range(E)
             T == Range(O)
             u == SubSeq(E, 1, m)
  <2>2. E \in Seq(S) /\ O \in Seq(T)
    BY <2>1
  <2> HIDE DEF S, T
  <2>a. m \in Nat /\ m <= n
    <3>1. n \in {m, m + 1}
      BY <1>2
    <3> HIDE DEF m, n
    <3> QED
      BY <1>3, <3>1
  <2>b. n = Len(E)
    OBVIOUS
  <2> HIDE DEF m, n
  <2>3. u \in Seq(S) /\ Len(u) = m /\ \A i \in 1..m : u[i] = E[i]
    BY <2>2, <2>a, <2>b
  <2> HIDE DEF u
  <2>4. DOMAIN u = DOMAIN O /\ \A i \in DOMAIN O : u[i] = O[i]
    <3>1. DOMAIN u = 1..m
      BY <2>3
    <3>2. \A i \in DOMAIN O : E[i] = O[i]
      BY <1>2
    <3> QED
      BY <1>3, <2>3, <3>1, <3>2
  <2>5. u = O
    BY <2>2, <2>3, <2>4
  <2> QED
    BY <2>5 DEF u
<1>5. FinalEvents(E) = SubSeq(events, 1, Len(events) - 1) \o q \o <<End("completed", E)>>
  <2>1. FinalEvents(E) = ManagedTerminalEvents(E)
    BY DEF FinalEvents
  <2> QED
    BY <1>4, <2>1 DEF ManagedTerminalEvents, O
<1>6. PICK s : events = s \o <<End("completed", O)>> /\ Gives(O, s)
  BY <1>1, TerminalGives
<1>7. SubSeq(events, 1, Len(events) - 1) = s
  <2> DEFINE e == End("completed", O)
             S == Range(s) \cup {e}
  <2>1. s \in Seq(S) /\ e \in S
    BY <1>6 DEF Gives, Events, IsSeq
  <2> HIDE DEF S, e
  <2>2. SubSeq(s \o <<e>>, 1, Len(s \o <<e>>) - 1) = s
    BY <2>1
  <2> QED
    BY <1>6, <2>2 DEF e
<1> HIDE DEF events
<1>8. Silent(q) /\ \A y \in DOMAIN q, i \in ToolPlaces(O) : ~Undoes(q[y], i)
  <2>1. CASE n = m
    <3>1. q = <<>> /\ DOMAIN q = {}
      BY <2>1
    <3> QED
      BY <3>1, QuietNone, SilentQuiet
  <2>2. CASE n # m
    <3> DEFINE S == {a, c}
               t == <<a, c>>
    <3>1. q = t /\ n = m + 1 /\ E[n].kind = "reasoning"
      <4>1. q = t
        BY <2>2
      <4>2. n = m + 1
        BY <1>2, <2>2
      <4>3. n \in DOMAIN E /\ n \notin DOMAIN O
        <5> HIDE DEF n, m
        <5> QED
          BY <1>3, <4>2
      <4> QED
        BY <1>2, <4>1, <4>2, <4>3
    <3>2. a.ev = "added" /\ a.i = n /\ c.ev = "done" /\ c.i = n /\ c.item.kind = "reasoning"
      BY <3>1 DEF Added, Done
    <3> HIDE DEF a, c
    <3>3. t \in Seq(S) /\ \A x \in DOMAIN t : t[x] = a \/ t[x] = c
      OBVIOUS
    <3> HIDE DEF S, t, q
    <3>4. IsSeq(t)
      BY <3>3, SeqIsSeq
    <3>5. "reasoning" \notin ToolKinds
      BY DEF ToolKinds
    <3>6. Silent(t)
      BY <3>2, <3>3, <3>4, <3>5 DEF Silent, Events, EventKinds, ToolDone, Finishes
    <3>7. \A i \in ToolPlaces(O) : i # n
      BY <1>3, <3>1 DEF ToolPlaces
    <3> QED
      BY <3>1, <3>2, <3>3, <3>6, <3>7 DEF Undoes
  <2> QED
    BY <2>1, <2>2
<1> HIDE DEF q
<1>9. Gives(O, s \o q)
  BY <1>6, <1>8, GivesThenSilent
<1>10. Plan(O, view, (s \o q) \o <<End("completed", E)>>)
  BY <1>1, <1>9, EndIsLast
<1>11. FinalEvents(E) = (s \o q) \o <<End("completed", E)>>
  BY <1>5, <1>7
<1> QED
  BY <1>10, <1>11 DEF E, O

-----------------------------------------------------------------------------
(* Stateless Messages: a tool is finished with its block, so every rule is kept as it grows. *)

BlockReady(b) ==
    /\ DOMAIN b = {"kind", "call", "text", "open"} /\ b.kind \in ToolKinds \cup {"message"}
    /\ b.kind \in ToolKinds => /\ Resolves /\ b.call \in CallIds
                               /\ ~b.open => Restorable(ToolRaw(b.kind, b.text))

\* The validator knows every call of the blocks.
CallsKnown(B, v) ==
    /\ IsSeq(B) /\ \A i \in DOMAIN B : BlockReady(B[i])
    /\ DOMAIN v = DOMAIN NewValidator /\ ItemsShape(v)
    /\ \A i \in ToolPlaces(B) : i \in DOMAIN v.items /\ v.items[i].call = B[i].call
    /\ \A i, j \in ToolPlaces(B) : B[i].call = B[j].call => i = j
    /\ request.parallel \/ \A i, j \in ToolPlaces(B) : i = j

\* What has been finished.
Closed(B) == [i \in {j \in DOMAIN B : ~B[j].open} |-> BlockItem(B[i])]

\* An event that is accepted and starts no item, or only others.
LEMMA KnownAfterRun ==
  ASSUME NEW B, NEW v, CallsKnown(B, v), NEW S, NEW events \in Seq(S), \A e \in S : e.op \in Operations,
         ApplyAll(v, events).ok
  PROVE  CallsKnown(B, ApplyAll(v, events))
<1> DEFINE w == ApplyAll(v, events)
<1>1. DOMAIN v = DOMAIN NewValidator /\ ItemsShape(v)
  BY DEF CallsKnown
<1>2. CallsAfter(v, events, w, Len(events)) /\ DOMAIN w = DOMAIN NewValidator
  BY <1>1, RunCalls
<1> HIDE DEF w
<1>3. ItemsShape(w) /\ KeepsCalls(v, w)
  BY <1>2 DEF CallsAfter
<1>4. CallsKnown(B, w)
  BY <1>2, <1>3 DEF CallsKnown, KeepsCalls
<1> QED
  BY <1>4 DEF w

\* A block grows or ends.
LEMMA KnownAfterChange ==
  ASSUME NEW B, NEW v, CallsKnown(B, v), NEW i \in DOMAIN B, NEW x, BlockReady(x),
         x.kind = B[i].kind, x.call = B[i].call
  PROVE  CallsKnown([B EXCEPT ![i] = x], v)
<1> DEFINE C == [B EXCEPT ![i] = x]
<1>1. IsSeq(C) /\ DOMAIN C = DOMAIN B /\ \A j \in DOMAIN B : C[j] = IF j = i THEN x ELSE B[j]
  BY ListChanges DEF CallsKnown
<1> HIDE DEF C
<1>2. ToolPlaces(C) = ToolPlaces(B) /\ \A j \in ToolPlaces(B) : C[j].call = B[j].call
  BY <1>1 DEF ToolPlaces
<1>3. \A j \in DOMAIN C : BlockReady(C[j])
  BY <1>1 DEF CallsKnown
<1>4. CallsKnown(C, v)
  BY <1>1, <1>2, <1>3 DEF CallsKnown
<1> QED
  BY <1>4 DEF C

\* A block starts.
LEMMA KnownAfterStart ==
  ASSUME NEW B, NEW v, CallsKnown(B, v), NEW x, BlockReady(x),
         x.kind \in ToolKinds => CountAllowed(ToolCount(B) + 1, FALSE),
         NEW S, NEW events \in Seq(S), \A e \in S : e.op \in Operations, ApplyAll(v, events).ok,
         events # <<>>, events[1] = ItemStarted(Len(B) + 1, Len(B) + 1, x.kind, x.call)
  PROVE  CallsKnown(Append(B, x), ApplyAll(v, events))
<1> DEFINE w == ApplyAll(v, events)
           C == Append(B, x)
           n == Len(B)
           z == n + 1
           e == events[1]
<1>0. DOMAIN v = DOMAIN NewValidator /\ ItemsShape(v) /\ IsSeq(B)
  BY DEF CallsKnown
<1>1. CallsAfter(v, events, w, Len(events)) /\ DOMAIN w = DOMAIN NewValidator
  BY <1>0, RunCalls
<1>2. 1 \in 1..Len(events)
  OBVIOUS
<1>3. e.op = "item" /\ e.id = z /\ e.kind = x.kind /\ e.call = x.call
  BY DEF ItemStarted
<1> HIDE DEF w, e
<1>4. ItemsShape(w) /\ KeepsCalls(v, w) /\ NewCall(v, e) /\ e.id \in DOMAIN w.items /\ w.items[e.id].call = e.call
  BY <1>1, <1>2, <1>3 DEF CallsAfter, e
<1>5. /\ IsSeq(C) /\ n \in Nat /\ DOMAIN B = 1..n /\ DOMAIN C = 1..z /\ C[z] = x
      /\ \A j \in DOMAIN B : C[j] = B[j]
  <2> DEFINE T == Range(B) \cup {x}
  <2>1. B \in Seq(T) /\ x \in T
    BY <1>0 DEF IsSeq
  <2> HIDE DEF T
  <2>2. C \in Seq(T) /\ n \in Nat /\ DOMAIN B = 1..n /\ DOMAIN C = 1..z /\ C[z] = x /\ \A j \in DOMAIN B : C[j] = B[j]
    BY <2>1
  <2> QED
    BY <2>2, SeqIsSeq
<1> HIDE DEF C, n, z
<1>6. z = n + 1
  BY DEF z
<1>7. \A j \in DOMAIN C : j = z \/ j \in DOMAIN B
  BY <1>5, <1>6
<1>8. \A j \in ToolPlaces(C) : (j = z /\ x.kind \in ToolKinds) \/ (j \in ToolPlaces(B) /\ C[j] = B[j])
  BY <1>5, <1>7 DEF ToolPlaces
<1>9. \A j \in DOMAIN C : BlockReady(C[j])
  BY <1>5, <1>7 DEF CallsKnown
<1>10. \A j \in ToolPlaces(C) : j \in DOMAIN w.items /\ w.items[j].call = C[j].call
  BY <1>3, <1>4, <1>5, <1>8 DEF CallsKnown, KeepsCalls
<1>11. ASSUME x.kind \in ToolKinds, NEW j \in ToolPlaces(B) PROVE B[j].call # x.call
  BY <1>3, <1>4, <1>11 DEF CallsKnown, NewCall
<1>12. \A i, j \in ToolPlaces(C) : C[i].call = C[j].call => i = j
  BY <1>5, <1>8, <1>11 DEF CallsKnown
<1>13. ASSUME x.kind \in ToolKinds, ~request.parallel PROVE ToolPlaces(B) = {}
  <2>1. IsFiniteSet(ToolPlaces(B))
    <3>1. ToolPlaces(B) \subseteq 1..n
      BY <1>5 DEF ToolPlaces
    <3>2. n \in Int /\ 1 \in Int
      BY <1>5
    <3>3. IsFiniteSet(1..n)
      BY <3>2, FS_Interval
    <3> QED
      BY <3>1, <3>3, FS_Subset
  <2>2. ToolCount(B) = Cardinality(ToolPlaces(B)) /\ Cardinality(ToolPlaces(B)) \in Nat
    BY <2>1, FS_CardinalityType DEF ToolCount, ToolPlaces
  <2>3. ToolCount(B) + 1 <= 1
    BY <1>13 DEF CountAllowed
  <2>4. Cardinality(ToolPlaces(B)) = 0
    BY <2>2, <2>3
  <2> QED
    BY <2>1, <2>4, FS_EmptySet
<1>14. request.parallel \/ \A i, j \in ToolPlaces(C) : i = j
  BY <1>8, <1>13 DEF CallsKnown
<1>15. CallsKnown(C, w)
  BY <1>1, <1>4, <1>5, <1>9, <1>10, <1>12, <1>14 DEF CallsKnown
<1> QED
  BY <1>15 DEF C, w

\* What is open is not given.
LEMMA ClosedStays ==
  ASSUME NEW B, IsSeq(B)
  PROVE  /\ \A x : x.open => Closed(Append(B, x)) = Closed(B)
         /\ \A i \in DOMAIN B : \A x : B[i].open /\ x.open => Closed([B EXCEPT ![i] = x]) = Closed(B)
<1>1. ASSUME NEW x, x.open PROVE Closed(Append(B, x)) = Closed(B)
  <2> DEFINE C == Append(B, x)
             T == Range(B) \cup {x}
             n == Len(B)
             z == n + 1
  <2>1. B \in Seq(T) /\ x \in T
    BY DEF IsSeq
  <2> HIDE DEF T
  <2>2. n \in Nat /\ DOMAIN B = 1..n /\ DOMAIN C = 1..z /\ C[z] = x /\ \A j \in DOMAIN B : C[j] = B[j]
    BY <2>1
  <2> HIDE DEF C, n
  <2>3. \A j : j \in DOMAIN C <=> j = z \/ j \in DOMAIN B
    BY <2>2
  <2> HIDE DEF z
  <2> DEFINE P == {j \in DOMAIN B : ~B[j].open}
             Q == {j \in DOMAIN C : ~C[j].open}
  <2>4. Q = P
    BY <1>1, <2>2, <2>3
  <2>5. Closed(C) = [i \in Q |-> BlockItem(C[i])] /\ Closed(B) = [i \in P |-> BlockItem(B[i])]
    BY DEF Closed
  <2>6. \A i \in P : C[i] = B[i]
    BY <2>2
  <2> HIDE DEF P, Q
  <2>7. Closed(C) = Closed(B)
    BY <2>4, <2>5, <2>6
  <2> QED
    BY <2>7 DEF C
<1>2. ASSUME NEW i \in DOMAIN B, NEW x, B[i].open, x.open PROVE Closed([B EXCEPT ![i] = x]) = Closed(B)
  <2> DEFINE C == [B EXCEPT ![i] = x]
             P == {j \in DOMAIN B : ~B[j].open}
             Q == {j \in DOMAIN C : ~C[j].open}
  <2>1. DOMAIN C = DOMAIN B /\ \A j \in DOMAIN B : C[j] = IF j = i THEN x ELSE B[j]
    OBVIOUS
  <2> HIDE DEF C
  <2>2. Q = P /\ \A j \in P : C[j] = B[j]
    BY <1>2, <2>1
  <2>3. Closed(C) = [j \in Q |-> BlockItem(C[j])] /\ Closed(B) = [j \in P |-> BlockItem(B[j])]
    BY DEF Closed
  <2> HIDE DEF P, Q
  <2>4. Closed(C) = Closed(B)
    BY <2>2, <2>3
  <2> QED
    BY <2>4 DEF C
<1> QED
  BY <1>1, <1>2

\* The finished blocks are tools the request allows.
LEMMA ClosedGrant ==
  ASSUME NEW B, NEW v, CallsKnown(B, v)
  PROVE  /\ Grantable(Closed(B)) /\ DOMAIN Closed(B) = {j \in DOMAIN B : ~B[j].open}
         /\ \A i \in DOMAIN Closed(B) : Closed(B)[i] = BlockItem(B[i])
         /\ ToolPlaces(Closed(B)) = {i \in ToolPlaces(B) : ~B[i].open}
<1> DEFINE O == Closed(B)
<1>1. DOMAIN O = {j \in DOMAIN B : ~B[j].open} /\ \A i \in DOMAIN O : O[i] = BlockItem(B[i])
  BY DEF Closed
<1> HIDE DEF O
<1>2. \A b : BlockItem(b).kind = b.kind
  BY DEF BlockItem, ToolItem, Item
<1>3. ToolPlaces(O) = {i \in ToolPlaces(B) : ~B[i].open}
  BY <1>1, <1>2 DEF ToolPlaces
<1>4. IsFiniteSet(DOMAIN O)
  <2> DEFINE n == Len(B)
  <2>1. DOMAIN B = 1..n /\ n \in Int /\ 1 \in Int
    BY DEF CallsKnown, IsSeq
  <2> HIDE DEF n
  <2>2. IsFiniteSet(1..n)
    BY <2>1, FS_Interval
  <2> QED
    BY <1>1, <2>1, <2>2, FS_Subset
<1>5. ASSUME NEW i \in ToolPlaces(O)
      PROVE  /\ Resolves /\ O[i].call = B[i].call
             /\ O[i] \in ToolItems /\ (O[i].kind = "function" => O[i].content = <<Document>>)
  <2> DEFINE b == B[i]
             r == ToolRaw(b.kind, b.text)
  <2>1. BlockReady(b) /\ ~b.open /\ b.kind \in ToolKinds
    BY <1>3 DEF CallsKnown, ToolPlaces
  <2>2. Resolves /\ b.call \in CallIds /\ Restorable(r)
    BY <2>1 DEF BlockReady
  <2>3. O[i] = ToolItem(b.kind, b.call, r)
    BY <1>1, <2>1 DEF BlockItem, ToolPlaces
  <2> HIDE DEF b, r
  <2>4. /\ O[i] \in ToolItems /\ O[i].kind = b.kind /\ O[i].call = b.call
        /\ b.kind = "function" => O[i].content = <<Document>>
    BY <2>1, <2>2, <2>3, RestoredTool
  <2> QED
    BY <2>2, <2>4 DEF b
<1>6. \A i, j \in ToolPlaces(O) : O[i].call = O[j].call => i = j
  BY <1>3, <1>5 DEF CallsKnown
<1>7. request.parallel \/ \A i, j \in ToolPlaces(O) : i = j
  BY <1>3 DEF CallsKnown
<1>8. Grantable(O)
  BY <1>4, <1>5, <1>6, <1>7 DEF Grantable
<1> QED
  BY <1>1, <1>3, <1>8 DEF O

\* One more tool, or another item, is finished.
LEMMA PlanGrows ==
  ASSUME NEW O, NEW P, NEW w, NEW s, NEW i, NEW item, Plan(O, w, <<>>), Given(O, w, <<>>), Grantable(P),
         i \notin DoneIn(w), i \in DOMAIN P, P[i] = item,
         \A j \in DOMAIN O : j \in DOMAIN P /\ P[j] = O[j],
         \A j \in ToolPlaces(P) : j = i \/ j \in ToolPlaces(O),
         Events(s), \A x \in DOMAIN s : ~Finishes(s[x]) /\ (s[x].ev \in {"added", "done"} => s[x] = Done(i, item)),
         \E x \in DOMAIN s : s[x] = Done(i, item)
  PROVE  Plan(P, w, s) /\ Given(P, w, s)
<1> DEFINE d == Done(i, item)
<1>1. d.ev = "done" /\ d.i = i /\ d.item = item
  BY DEF Done
<1>2. PICK z \in DOMAIN s : s[z] = d
  OBVIOUS
<1>3. \A x \in DOMAIN s : s[x].ev \in {"added", "done"} => s[x] = d
  OBVIOUS
<1> HIDE DEF d
<1>4. \A j \in ToolPlaces(O) : j \in DoneIn(w)
  <2> DEFINE e == <<>>
  <2>1. DOMAIN e = {} /\ Given(O, w, e)
    OBVIOUS
  <2> HIDE DEF e
  <2> QED
    BY <2>1 DEF Given
<1>5. \A x \in DOMAIN s : ToolDone(s[x]) => s[x] = d
  BY <1>3 DEF ToolDone
<1>6. Follows(P, s)
  BY <1>1, <1>5 DEF Follows
<1>7. Ordered(s)
  BY <1>3, <1>5 DEF Ordered, Undoes
<1>8. \A j \in DoneIn(w), x \in DOMAIN s : ~Undoes(s[x], j)
  BY <1>1, <1>3 DEF Undoes
<1>9. /\ ViewShape(w) /\ \A j \in DoneIn(w) : j \in DOMAIN O /\ w.items[j].item = O[j]
      /\ request.choice = "required" => (w.end = "completed" => DoneIn(w) # {})
  BY DEF Plan
<1>10. Plan(P, w, s)
  BY <1>6, <1>7, <1>8, <1>9 DEF Plan
<1>11. ASSUME NEW j \in ToolPlaces(P), j \notin DoneIn(w)
       PROVE  \E x \in DOMAIN s : ToolDone(s[x]) /\ s[x].i = j
  <2>1. j = i
    BY <1>4, <1>11
  <2>2. ToolDone(d)
    BY <1>1, <1>11, <2>1 DEF ToolDone, ToolPlaces
  <2> QED
    BY <1>1, <1>2, <2>1, <2>2
<1> QED
  BY <1>10, <1>11 DEF Given

\* Events that add item i at most, and its text.
Opens(s, i) ==
    Events(s) /\ \A x \in DOMAIN s : s[x].ev \notin {"done", "end"} /\ (s[x].ev = "added" => s[x].i = i)

LEMMA OpensOne ==
  ASSUME NEW i
  PROVE  /\ Opens(<<>>, i) /\ Opens(<<Created>>, i) /\ Opens(<<PartAdded(i)>>, i)
         /\ \A kind, call, whole : Opens(<<Added(i, kind, call, whole)>>, i)
         /\ \A p, text : Opens(<<Delta(i, p, text)>>, i) /\ Opens(TextEvents(i, p, text), i)
<1>1. ASSUME NEW e, e.ev \in EventKinds \ {"done", "end"}, e.ev = "added" => e.i = i PROVE Opens(<<e>>, i)
  <2> DEFINE s == <<e>>
  <2>1. IsSeq(s) /\ DOMAIN s = {1} /\ s[1] = e
    BY DEF IsSeq, Range
  <2> HIDE DEF s
  <2>2. Opens(s, i)
    BY <1>1, <2>1 DEF Opens, Events
  <2> QED
    BY <2>2 DEF s
<1>2. Opens(<<>>, i)
  <2> DEFINE s == <<>>
  <2>1. IsSeq(s) /\ DOMAIN s = {}
    BY DEF IsSeq, Range
  <2> HIDE DEF s
  <2>2. Opens(s, i)
    BY <2>1 DEF Opens, Events
  <2> QED
    BY <2>2 DEF s
<1>3. Created.ev \in EventKinds \ {"done", "end", "added"} /\ PartAdded(i).ev \in EventKinds \ {"done", "end", "added"}
  BY DEF Created, PartAdded, EventKinds
<1>4. \A kind, call, whole : /\ Added(i, kind, call, whole).ev \in EventKinds \ {"done", "end"}
                             /\ Added(i, kind, call, whole).i = i
  BY DEF Added, EventKinds
<1>5. \A p, text : Delta(i, p, text).ev \in EventKinds \ {"done", "end", "added"}
  BY DEF Delta, EventKinds
<1>6. \A p, text : Opens(<<Delta(i, p, text)>>, i)
  BY <1>1, <1>5
<1> QED
  BY <1>1, <1>2, <1>3, <1>4, <1>6 DEF TextEvents

LEMMA OpensConcat ==
  ASSUME NEW i, NEW s, NEW t, Opens(s, i), Opens(t, i)
  PROVE  Opens(s \o t, i)
<1> DEFINE u == s \o t
<1>1. IsSeq(s) /\ IsSeq(t)
  BY DEF Opens, Events
<1>2. /\ IsSeq(u) /\ DOMAIN s = 1..Len(s)
      /\ \A x \in 1..Len(s) : u[x] = s[x]
      /\ \A x \in DOMAIN u : x \notin DOMAIN s => x - Len(s) \in DOMAIN t /\ u[x] = t[x - Len(s)]
  BY <1>1, ConcatPlaces
<1> HIDE DEF u
<1>3. \A x \in DOMAIN u : (x \in DOMAIN s /\ u[x] = s[x]) \/ \E y \in DOMAIN t : u[x] = t[y]
  BY <1>2
<1>4. Opens(u, i)
  BY <1>2, <1>3 DEF Opens, Events
<1> QED
  BY <1>4 DEF u

\* Such events leave what has been given alone.
LEMMA OpensPlan ==
  ASSUME NEW O, NEW w, NEW i, NEW t, Plan(O, w, <<>>), Given(O, w, <<>>), i \notin DoneIn(w) \/ \A x \in DOMAIN t : t[x].ev # "added",
         Opens(t, i)
  PROVE  Plan(O, w, t) /\ Given(O, w, t)
<1>1. Events(t) /\ \A x \in DOMAIN t : ~ToolDone(t[x]) /\ ~Finishes(t[x]) /\ \A j \in DoneIn(w) : ~Undoes(t[x], j)
  BY DEF Opens, ToolDone, Finishes, Undoes
<1> QED
  BY <1>1, LaterPlan

\* Submissions one by one.
LEMMA SubmitsOne ==
  ASSUME NEW v, NEW e, e.op \in Operations, NEW B, CallsKnown(B, v), ApplyAll(v, <<e>>).ok
  PROVE  CallsKnown(B, ApplyAll(v, <<e>>))
<1> DEFINE S == {e}
           s == <<e>>
<1>1. s \in Seq(S) /\ \A x \in S : x.op \in Operations
  OBVIOUS
<1>2. ApplyAll(v, s).ok
  OBVIOUS
<1> HIDE DEF S, s
<1>3. CallsKnown(B, ApplyAll(v, s))
  BY <1>1, <1>2, KnownAfterRun
<1> QED
  BY <1>3 DEF s

LEMMA SubmitsTwo ==
  ASSUME NEW v, NEW d, NEW e, d.op \in Operations, e.op \in Operations, NEW B, CallsKnown(B, v), ApplyAll(v, <<d, e>>).ok
  PROVE  CallsKnown(B, ApplyAll(v, <<d, e>>))
<1> DEFINE S == {d, e}
           s == <<d, e>>
<1>1. s \in Seq(S) /\ \A x \in S : x.op \in Operations
  OBVIOUS
<1>2. ApplyAll(v, s).ok
  OBVIOUS
<1> HIDE DEF S, s
<1>3. CallsKnown(B, ApplyAll(v, s))
  BY <1>1, <1>2, KnownAfterRun
<1> QED
  BY <1>3 DEF s

LEMMA SubmitsNone ==
  ASSUME NEW v, NEW B, CallsKnown(B, v), ApplyAll(v, <<>>).ok
  PROVE  CallsKnown(B, ApplyAll(v, <<>>))
<1> DEFINE S == {}
           s == <<>>
<1>1. s \in Seq(S) /\ \A x \in S : x.op \in Operations
  OBVIOUS
<1>2. ApplyAll(v, s).ok
  OBVIOUS
<1> HIDE DEF S, s
<1>3. CallsKnown(B, ApplyAll(v, s))
  BY <1>1, <1>2, KnownAfterRun
<1> QED
  BY <1>3 DEF s

MessagesReady(s, v, w, o) ==
    /\ DOMAIN s = DOMAIN MessagesInit /\ CallsKnown(s.blocks, v)
    /\ s.stop # None => /\ \A i \in DOMAIN s.blocks : ~s.blocks[i].open
                        /\ MessagesTerminal(s.stop, ToolCount(s.blocks))
    /\ Plan(Closed(s.blocks), w, o) /\ Given(Closed(s.blocks), w, o)

\* A block starts.
LEMMA StartBlockPlan ==
  ASSUME MessagesReady(st, val, view, out), NEW kind \in ToolKinds \cup {"message"}, NEW call, NEW t,
         kind \in ToolKinds => call \in CallIds, StartBlock(kind, call, t)
  PROVE  MessagesReady(st', val', view, out')
<1> DEFINE B == st.blocks
           i == Len(B) + 1
           tool == kind \in ToolKinds
           text == IF tool THEN <<>> ELSE t
           x == [kind |-> kind, call |-> call, text |-> text, open |-> TRUE]
           a == ItemStarted(i, i, kind, call)
           b == PartStarted(i, 1)
           c == TextDelta(i, 1)
           more == IF tool THEN <<>> ELSE <<b, c>>
           events == <<a>> \o more
           rest == IF tool THEN <<>> ELSE <<PartAdded(i)>> \o TextEvents(i, 1, t)
           yielded == <<Added(i, kind, call, TRUE)>> \o rest
           C == Append(B, x)
<1>1. /\ st.stop = None /\ (tool => Resolves /\ CountAllowed(ToolCount(B) + 1, FALSE))
      /\ st' = [st EXCEPT !.blocks = C] /\ out' = yielded /\ out = <<>>
      /\ ApplyAll(val, events).ok /\ val' = ApplyAll(val, events)
  BY DEF StartBlock, Handle, Reading
<1>2. /\ DOMAIN st = {"started", "blocks", "stop", "done"} /\ CallsKnown(B, val)
      /\ Plan(Closed(B), view, <<>>) /\ Given(Closed(B), view, <<>>)
  BY <1>1 DEF MessagesReady, MessagesInit
<1> HIDE DEF text
<1>3. BlockReady(x) /\ x.open /\ x.kind = kind /\ x.call = call
  BY <1>1 DEF BlockReady
<1>4. a.op \in Operations /\ b.op \in Operations /\ c.op \in Operations
  BY Submissions
<1>5. IsSeq(B) /\ i \notin DOMAIN B
  <2>1. IsSeq(B)
    BY <1>2 DEF CallsKnown
  <2> QED
    BY <2>1 DEF IsSeq
<1>6. Opens(yielded, i)
  <2>1. Opens(rest, i)
    BY OpensOne, OpensConcat
  <2> HIDE DEF rest
  <2> QED
    BY <2>1, OpensOne, OpensConcat
<1>7. CallsKnown(C, val')
  <2> DEFINE S == {a, b, c}
  <2>0. a = ItemStarted(Len(B) + 1, Len(B) + 1, x.kind, x.call)
    BY <1>3
  <2> HIDE DEF a, b, c
  <2>a. a \in S /\ b \in S /\ c \in S /\ \A e \in S : e.op \in Operations
    BY <1>4
  <2> HIDE DEF S
  <2>b. more \in Seq(S) /\ <<a>> \in Seq(S) /\ Len(<<a>>) = 1 /\ <<a>>[1] = a
    BY <2>a
  <2>c. events \in Seq(S) /\ Len(events) = 1 + Len(more) /\ Len(more) \in Nat /\ events[1] = a
    <3> HIDE DEF more
    <3> QED
      BY <2>b
  <2>1. events \in Seq(S) /\ events # <<>> /\ events[1] = a
    BY <2>c
  <2> HIDE DEF x, S, events
  <2> QED
    BY <1>1, <1>2, <1>3, <2>0, <2>1, <2>a, KnownAfterStart
<1>8. Closed(C) = Closed(B)
  <2> HIDE DEF x
  <2> QED
    BY <1>3, <1>5, ClosedStays
<1>9. i \notin DoneIn(view)
  <2>1. \A j \in DoneIn(view) : j \in DOMAIN Closed(B)
    BY <1>2 DEF Plan
  <2> QED
    BY <1>5, <2>1 DEF Closed
<1> HIDE DEF i, yielded, C, events
<1>10. Plan(Closed(B), view, yielded) /\ Given(Closed(B), view, yielded)
  BY <1>2, <1>6, <1>9, OpensPlan
<1>11. DOMAIN st' = DOMAIN st /\ st'.blocks = C /\ st'.stop = None
  BY <1>1, <1>2
<1> QED
  BY <1>1, <1>2, <1>7, <1>8, <1>10, <1>11 DEF MessagesReady, MessagesInit

\* A block grows.
LEMMA DeltaBlockPlan ==
  ASSUME MessagesReady(st, val, view, out), NEW i \in DOMAIN st.blocks, NEW t, DeltaBlock(i, t)
  PROVE  MessagesReady(st', val', view, out')
<1> DEFINE B == st.blocks
           y == B[i]
           text == y.text \o t
           x == [y EXCEPT !.text = text]
           C == [B EXCEPT ![i] = x]
           submitted == CASE y.kind = "message" -> <<TextDelta(i, 1)>>
                          [] y.kind = "function" -> <<ArgumentsDelta(i, t)>>
                          [] y.kind = "custom" -> <<>>
           yielded == CASE y.kind = "message" -> TextEvents(i, 1, t)
                        [] y.kind = "function" -> <<Delta(i, 1, t)>>
                        [] y.kind = "custom" -> <<>>
<1>1. /\ st.stop = None /\ y.open /\ out' = yielded /\ out = <<>>
      /\ ApplyAll(val, submitted).ok /\ val' = ApplyAll(val, submitted)
      /\ st' = [st EXCEPT !.blocks[i].text = @ \o t]
  BY DEF DeltaBlock, OpenBlock, Handle, Reading
<1>2. /\ DOMAIN st = {"started", "blocks", "stop", "done"} /\ CallsKnown(B, val)
      /\ Plan(Closed(B), view, <<>>) /\ Given(Closed(B), view, <<>>)
  BY <1>1 DEF MessagesReady, MessagesInit
<1>a. st' = [st EXCEPT !.blocks[i] = x]
  BY <1>1
<1>3. IsSeq(B) /\ BlockReady(y)
  BY <1>2 DEF CallsKnown
<1> HIDE DEF text
<1>4. BlockReady(x) /\ x.kind = y.kind /\ x.call = y.call /\ x.open
  BY <1>1, <1>3 DEF BlockReady
<1>5. st'.blocks = C /\ st'.stop = None /\ DOMAIN st' = DOMAIN st
  <2> HIDE DEF x
  <2> QED
    BY <1>1, <1>2, <1>a
<1>6. y.kind \in {"message", "function", "custom"}
  BY <1>3 DEF BlockReady, ToolKinds
<1> HIDE DEF x
<1>7. CallsKnown(C, val')
  <2>1. CallsKnown(B, val')
    <3> HIDE DEF y
    <3>1. CASE y.kind = "message"
      BY <1>1, <1>2, <3>1, Submissions, SubmitsOne
    <3>2. CASE y.kind = "function"
      BY <1>1, <1>2, <3>2, Submissions, SubmitsOne
    <3>3. CASE y.kind = "custom"
      BY <1>1, <1>2, <3>3, SubmitsNone
    <3> QED
      BY <1>6, <3>1, <3>2, <3>3
  <2> QED
    BY <1>4, <2>1, KnownAfterChange
<1>8. Opens(yielded, i) /\ \A z \in DOMAIN yielded : yielded[z].ev # "added"
  <2>1. Opens(yielded, i)
    <3> HIDE DEF y
    <3> QED
      BY <1>6, OpensOne
  <2>2. yielded = <<>> \/ yielded = <<Delta(i, 1, t)>>
    <3> HIDE DEF y
    <3> QED
      BY <1>6 DEF TextEvents
  <2> DEFINE d == Delta(i, 1, t)
  <2>3. d.ev = "delta"
    BY DEF Delta
  <2> HIDE DEF yielded, d
  <2>4. \A z \in DOMAIN yielded : yielded[z] = d
    BY <2>2 DEF d
  <2> QED
    BY <2>1, <2>3, <2>4
<1>9. Closed(C) = Closed(B)
  BY <1>1, <1>3, <1>4, ClosedStays
<1> HIDE DEF yielded, C, submitted
<1>10. Plan(Closed(B), view, yielded) /\ Given(Closed(B), view, yielded)
  BY <1>2, <1>8, OpensPlan
<1> QED
  BY <1>1, <1>2, <1>5, <1>7, <1>9, <1>10 DEF MessagesReady, MessagesInit

\* A block ends: its item is finished.
LEMMA StopBlockPlan ==
  ASSUME MessagesReady(st, val, view, out), NEW i \in DOMAIN st.blocks, StopBlock(i)
  PROVE  MessagesReady(st', val', view, out')
<1> DEFINE B == st.blocks
           y == B[i]
           x == [y EXCEPT !.open = FALSE]
           C == [B EXCEPT ![i] = x]
           item == BlockItem(y)
           late == y.kind = "custom" \/ (y.kind = "function" /\ y.text = <<>>)
           before == IF y.kind = "message" THEN <<PartFinished(i, 1)>>
                     ELSE IF late THEN <<ArgumentsDelta(i, item.content[1])>> ELSE <<>>
           submitted == before \o <<ItemFinished(i)>>
           arguments == IF late THEN <<Delta(i, 1, item.content[1])>> ELSE <<>>
           yielded == arguments \o <<Done(i, item)>>
<1>1. /\ st.stop = None /\ y.open /\ out' = yielded /\ out = <<>>
      /\ y.kind \in ToolKinds => Restorable(ToolRaw(y.kind, y.text))
      /\ ApplyAll(val, submitted).ok /\ val' = ApplyAll(val, submitted)
      /\ st' = [st EXCEPT !.blocks[i].open = FALSE]
  BY DEF StopBlock, OpenBlock, Handle, Reading
<1>2. /\ DOMAIN st = {"started", "blocks", "stop", "done"} /\ CallsKnown(B, val)
      /\ Plan(Closed(B), view, <<>>) /\ Given(Closed(B), view, <<>>)
  BY <1>1 DEF MessagesReady, MessagesInit
<1>3. IsSeq(B) /\ BlockReady(y)
  BY <1>2 DEF CallsKnown
<1>4. BlockReady(x) /\ x.kind = y.kind /\ x.call = y.call /\ x.text = y.text /\ ~x.open
  BY <1>1, <1>3 DEF BlockReady
<1>a. st' = [st EXCEPT !.blocks[i] = x]
  BY <1>1
<1>5. st'.blocks = C /\ st'.stop = None /\ DOMAIN st' = DOMAIN st
  <2> HIDE DEF x
  <2> QED
    BY <1>1, <1>2, <1>a
<1> HIDE DEF x
<1>6. CallsKnown(B, val')
  <2> DEFINE p == PartFinished(i, 1)
             q == ArgumentsDelta(i, item.content[1])
             f == ItemFinished(i)
             S == {p, q, f}
  <2>1. \A e \in S : e.op \in Operations
    BY Submissions
  <2>2. p \in S /\ q \in S /\ f \in S
    OBVIOUS
  <2> HIDE DEF S
  <2>3. before \in Seq(S)
    <3> HIDE DEF p, q, f, late
    <3>1. before = <<p>> \/ before = <<q>> \/ before = <<>>
      BY DEF p, q
    <3>2. <<p>> \in Seq(S) /\ <<q>> \in Seq(S) /\ <<>> \in Seq(S)
      BY <2>2
    <3> HIDE DEF before
    <3> QED
      BY <3>1, <3>2
  <2>4. submitted \in Seq(S)
    <3>1. submitted = before \o <<f>>
      OBVIOUS
    <3> HIDE DEF before, f, submitted
    <3> QED
      BY <2>2, <2>3, <3>1
  <2> HIDE DEF submitted
  <2> QED
    BY <1>1, <1>2, <2>1, <2>4, KnownAfterRun
<1>7. CallsKnown(C, val')
  BY <1>4, <1>6, KnownAfterChange
<1> DEFINE O == Closed(B)
           P == Closed(C)
<1>8. DOMAIN C = DOMAIN B /\ \A j \in DOMAIN B : C[j] = IF j = i THEN x ELSE B[j]
  OBVIOUS
<1> HIDE DEF C
<1>9. /\ Grantable(P) /\ DOMAIN P = {j \in DOMAIN C : ~C[j].open} /\ \A j \in DOMAIN P : P[j] = BlockItem(C[j])
      /\ ToolPlaces(P) = {j \in ToolPlaces(C) : ~C[j].open}
      /\ DOMAIN O = {j \in DOMAIN B : ~B[j].open} /\ \A j \in DOMAIN O : O[j] = BlockItem(B[j])
      /\ ToolPlaces(O) = {j \in ToolPlaces(B) : ~B[j].open}
  BY <1>2, <1>7, ClosedGrant
<1> HIDE DEF O, P
<1>10. BlockItem(x) = item
  BY <1>4 DEF BlockItem
<1> HIDE DEF item
<1>11. /\ i \in DOMAIN P /\ P[i] = item /\ i \notin DOMAIN O
       /\ \A j \in DOMAIN O : j \in DOMAIN P /\ P[j] = O[j]
       /\ \A j \in ToolPlaces(P) : j = i \/ j \in ToolPlaces(O)
  <2>1. i \in DOMAIN P /\ P[i] = item /\ i \notin DOMAIN O
    BY <1>1, <1>4, <1>8, <1>9, <1>10
  <2>2. \A j \in DOMAIN O : j \in DOMAIN P /\ P[j] = O[j]
    BY <1>1, <1>8, <1>9
  <2>3. \A j \in ToolPlaces(P) : j = i \/ j \in ToolPlaces(O)
    BY <1>8, <1>9 DEF ToolPlaces
  <2> QED
    BY <2>1, <2>2, <2>3
<1>12. i \notin DoneIn(view)
  BY <1>2, <1>11 DEF Plan, O
<1>13. /\ Events(yielded) /\ \E z \in DOMAIN yielded : yielded[z] = Done(i, item)
       /\ \A z \in DOMAIN yielded : ~Finishes(yielded[z]) /\ (yielded[z].ev \in {"added", "done"} => yielded[z] = Done(i, item))
  <2> DEFINE d == Done(i, item)
             e == Delta(i, 1, item.content[1])
             S == {d, e}
  <2>1. d.ev = "done" /\ e.ev = "delta"
    BY DEF Done, Delta
  <2>2. arguments = <<e>> \/ arguments = <<>>
    OBVIOUS
  <2>3. yielded = arguments \o <<d>>
    OBVIOUS
  <2> HIDE DEF d, e, arguments, yielded
  <2>4. yielded \in Seq(S) /\ \E z \in DOMAIN yielded : yielded[z] = d
    <3>1. CASE arguments = <<e>>
      <4>1. yielded = <<e>> \o <<d>>
        BY <2>3, <3>1
      <4>a. d \in S /\ e \in S
        OBVIOUS
      <4> HIDE DEF S
      <4> DEFINE a == <<e>>
                 b == <<d>>
      <4>b. a \in Seq(S) /\ b \in Seq(S) /\ Len(a) = 1 /\ Len(b) = 1 /\ b[1] = d
        BY <4>a
      <4>c. yielded = a \o b
        BY <4>1
      <4> HIDE DEF a, b
      <4>d. yielded \in Seq(S)
        BY <4>b, <4>c
      <4>e. IsSeq(a) /\ IsSeq(b)
        BY <4>b, SeqIsSeq
      <4>f. DOMAIN (a \o b) = 1..(Len(a) + Len(b)) /\ \A k \in 1..Len(b) : (a \o b)[Len(a) + k] = b[k]
        BY <4>e, ConcatPlaces
      <4>g. DOMAIN yielded = 1..(1 + 1) /\ \A k \in 1..1 : yielded[1 + k] = b[k]
        BY <4>b, <4>c, <4>f
      <4>2. yielded \in Seq(S) /\ 2 \in DOMAIN yielded /\ yielded[2] = d
        BY <4>b, <4>d, <4>g
      <4> QED
        BY <4>2
    <3>2. CASE arguments = <<>>
      <4>1. yielded = <<d>>
        BY <2>3, <3>2
      <4>2. yielded \in Seq(S) /\ 1 \in DOMAIN yielded /\ yielded[1] = d
        BY <4>1
      <4> QED
        BY <4>2
    <3> QED
      BY <2>2, <3>1, <3>2
  <2>5. IsSeq(yielded) /\ \A z \in DOMAIN yielded : yielded[z] \in {d, e}
    BY <2>4, SeqIsSeq
  <2> QED
    BY <2>1, <2>4, <2>5 DEF Events, EventKinds, Finishes, d
<1> HIDE DEF yielded
<1>14. Plan(P, view, yielded) /\ Given(P, view, yielded)
  <2>1. Plan(O, view, <<>>) /\ Given(O, view, <<>>)
    BY <1>2 DEF O
  <2> QED
    BY <1>9, <1>11, <1>12, <1>13, <2>1, PlanGrows, SMTT(20)
<1> QED
  BY <1>1, <1>2, <1>5, <1>7, <1>14 DEF MessagesReady, MessagesInit, P

\* The stateless stream: every rule is kept as the blocks end one by one.
LEMMA MessagesPlans ==
  ASSUME MessagesReady(st, val, view, out), MessagesNext
  PROVE  MessagesReady(st', val', view, out')
<1> DEFINE B == st.blocks
           Goal == MessagesReady(st', val', view, out')
<1>0. DOMAIN st = {"started", "blocks", "stop", "done"} /\ CallsKnown(B, val)
  BY DEF MessagesReady, MessagesInit
<1>a. ASSUME out = <<>> PROVE Plan(Closed(B), view, <<>>) /\ Given(Closed(B), view, <<>>)
  BY <1>a DEF MessagesReady
<1>b. \A count, status : UsageUpdated(count).op \in Operations /\ Finished(status).op \in Operations
  BY DEF UsageUpdated, Finished, Operations
<1>1. ASSUME MessageStart PROVE Goal
  <2>1. /\ st' = [st EXCEPT !.started = TRUE] /\ out' = <<Created>> /\ out = <<>>
        /\ ApplyAll(val, <<Started, UsageUpdated(0)>>).ok /\ val' = ApplyAll(val, <<Started, UsageUpdated(0)>>)
    BY <1>1 DEF MessageStart, Handle, Reading
  <2>2. DOMAIN st' = DOMAIN st /\ st'.blocks = B /\ st'.stop = st.stop
    BY <1>0, <2>1
  <2>3. CallsKnown(B, val')
    <3>1. Started.op \in Operations /\ UsageUpdated(0).op \in Operations
      BY <1>b, Submissions
    <3> QED
      BY <1>0, <2>1, <3>1, SubmitsTwo
  <2>4. Plan(Closed(B), view, out') /\ Given(Closed(B), view, out')
    <3> DEFINE s == <<Created>>
    <3>0. Opens(s, 1)
      BY OpensOne
    <3>1. DOMAIN s = {1} /\ s[1].ev = "created"
      BY DEF Created
    <3> HIDE DEF s
    <3>2. \A z \in DOMAIN s : s[z].ev # "added"
      BY <3>1
    <3>3. Plan(Closed(B), view, s) /\ Given(Closed(B), view, s)
      BY <1>a, <2>1, <3>0, <3>2, OpensPlan
    <3> QED
      BY <2>1, <3>3 DEF s
  <2> QED
    BY <2>2, <2>3, <2>4 DEF MessagesReady
<1>2. ASSUME NEW t \in Fragments, StartBlock("message", None, t) PROVE Goal
  <2> DEFINE kind == "message"
  <2>1. kind \in ToolKinds \cup {"message"} /\ kind \notin ToolKinds /\ StartBlock(kind, None, t)
    BY <1>2 DEF ToolKinds
  <2> HIDE DEF kind
  <2> QED
    BY <2>1, StartBlockPlan
<1>3. ASSUME NEW kind \in ToolKinds, NEW call \in CallIds, StartBlock(kind, call, <<>>) PROVE Goal
  <2> DEFINE t == <<>>
  <2>1. kind \in ToolKinds \cup {"message"} /\ StartBlock(kind, call, t)
    BY <1>3
  <2> HIDE DEF t
  <2> QED
    BY <2>1, StartBlockPlan
<1>4. ASSUME NEW stop, MessageDelta(stop, 0) PROVE Goal
  <2>1. /\ st' = [st EXCEPT !.stop = stop] /\ out' = <<>> /\ out = <<>>
        /\ \A i \in DOMAIN B : ~B[i].open
        /\ MessagesTerminal(stop, ToolCount(B))
        /\ ApplyAll(val, <<UsageUpdated(0)>>).ok /\ val' = ApplyAll(val, <<UsageUpdated(0)>>)
    BY <1>4 DEF MessageDelta, Handle, Reading
  <2>2. DOMAIN st' = DOMAIN st /\ st'.blocks = B /\ st'.stop = stop
    BY <1>0, <2>1
  <2>3. CallsKnown(B, val')
    BY <1>0, <1>b, <2>1, SubmitsOne
  <2> QED
    BY <1>a, <2>1, <2>2, <2>3 DEF MessagesReady
<1>5. ASSUME MessageStop PROVE Goal
  <2> DEFINE status == MessagesStatus(st.stop)
             e == End(status, [i \in DOMAIN st.blocks |-> BlockItem(st.blocks[i])])
             s == <<e>>
  <2>1. /\ st.stop # None /\ st' = [st EXCEPT !.done = TRUE] /\ out' = s /\ out = <<>>
        /\ ApplyAll(val, <<Finished(status)>>).ok /\ val' = ApplyAll(val, <<Finished(status)>>)
    BY <1>5 DEF MessageStop, Handle, Reading
  <2>2. DOMAIN st' = DOMAIN st /\ st'.blocks = B /\ st'.stop = st.stop
    BY <1>0, <2>1
  <2>3. CallsKnown(B, val')
    BY <1>0, <1>b, <2>1, SubmitsOne
  <2>4. e.ev = "end" /\ e.status = status
    BY DEF End
  <2> HIDE DEF e
  <2>5. IsSeq(s) /\ DOMAIN s = {1} /\ s[1] = e
    BY DEF IsSeq, Range
  <2> HIDE DEF s
  <2>6. Events(s) /\ \A x \in DOMAIN s : ~ToolDone(s[x]) /\ \A i : ~Undoes(s[x], i)
    BY <2>4, <2>5 DEF Events, EventKinds, ToolDone, Undoes
  <2>7. ASSUME status = "completed", request.choice = "required" PROVE ToolPlaces(Closed(B)) # {}
    <3>1. (\A i \in DOMAIN B : ~B[i].open) /\ CountAllowed(ToolCount(B), status = "completed")
      BY <2>1 DEF MessagesReady, MessagesTerminal
    <3>2. IsFiniteSet(ToolPlaces(B))
      <4> DEFINE n == Len(B)
      <4>1. DOMAIN B = 1..n /\ n \in Int /\ 1 \in Int
        BY <1>0 DEF CallsKnown, IsSeq
      <4> HIDE DEF n
      <4>2. IsFiniteSet(1..n)
        BY <4>1, FS_Interval
      <4> QED
        BY <4>1, <4>2, FS_Subset DEF ToolPlaces
    <3>3. CountAllowed(Cardinality(ToolPlaces(B)), status = "completed")
      BY <3>1 DEF ToolCount, ToolPlaces
    <3>4. ToolPlaces(B) # {}
      BY <2>7, <3>2, <3>3, CountGrants
    <3>5. ToolPlaces(Closed(B)) = {i \in ToolPlaces(B) : ~B[i].open}
      BY <1>0, ClosedGrant
    <3> QED
      BY <3>1, <3>4, <3>5 DEF ToolPlaces
  <2>8. \A x \in DOMAIN s : Finishes(s[x]) /\ request.choice = "required" => ToolPlaces(Closed(B)) # {}
    BY <2>4, <2>5, <2>7 DEF Finishes
  <2>9. Plan(Closed(B), view, s) /\ Given(Closed(B), view, s)
    BY <1>a, <2>1, <2>6, <2>8, LaterPlan
  <2> QED
    BY <2>1, <2>2, <2>3, <2>9 DEF MessagesReady
<1> QED
  BY <1>1, <1>2, <1>3, <1>4, <1>5, StopBlockPlan, DeltaBlockPlan DEF MessagesNext

-----------------------------------------------------------------------------
(* The relay.                                                              *)

\* What the adapter keeps about its tools, and the plan it has for the client.
AdapterReady(s, v, w, o) ==
    /\ proto.adapter = "chat" => ChatReady(s, w, o)
    /\ proto.adapter = "messages" => MessagesReady(s, v, w, o)
    /\ proto.adapter \in {"responses", "codec"} => ResponsesReady(s)
    /\ proto.adapter \in {"provider", "managed_provider"} => PluginReady(s)
    /\ proto.adapter = "managed_chat" => NativeChatReady(s)
    /\ proto.adapter = "managed_messages" => NativeMessagesReady(s)
    /\ proto.adapter = "interactions" => InteractionsReady(s)
    /\ \E O : Plan(O, w, o)

PlanInv == HeldInv /\ (relay # "cut" => AdapterReady(st, val, view, out))

\* No step changes the route or the request.
LEMMA ReadyAgain ==
  ASSUME UNCHANGED <<proto, request>>, AdapterReady(st', val', view', out')
  PROVE  AdapterReady(st, val, view, out)'
<1>1. \A O : Plan(O, view', out') => Plan(O, view, out)'
  BY DEF Plan, Grantable, Resolves
<1>2. ChatReady(st', view', out') => ChatReady(st, view, out)'
  BY DEF ChatReady, Plan, Grantable, Resolves
<1>3. MessagesReady(st', val', view', out') => MessagesReady(st, val, view, out)'
  <2>1. CallsKnown(st'.blocks, val') => CallsKnown(st.blocks, val)'
    BY DEF CallsKnown, BlockReady, Resolves
  <2>2. Plan(Closed(st'.blocks), view', out') => Plan(Closed(st.blocks), view, out)'
    BY DEF Plan, Grantable, Resolves
  <2> QED
    BY <2>1, <2>2 DEF MessagesReady, MessagesTerminal, CountAllowed
<1>4. ResponsesReady(st') => ResponsesReady(st)'
  BY DEF ResponsesReady, ItemReady, Resolves
<1>5. PluginReady(st') => PluginReady(st)'
  BY DEF PluginReady, Grantable, Resolves
<1>6. /\ NativeChatReady(st') => NativeChatReady(st)'
      /\ NativeMessagesReady(st') => NativeMessagesReady(st)'
      /\ InteractionsReady(st') => InteractionsReady(st)'
  BY DEF NativeMessagesReady, NativeBlockShape, Resolves
<1> QED
  BY <1>1, <1>2, <1>3, <1>4, <1>5, <1>6 DEF AdapterReady

LEMMA PlanInit ==
  ASSUME RelayInit
  PROVE  PlanInv
<1>1. HeldInv
  BY HeldInit
<1>2. /\ proto \in Protocols /\ st = AdapterInit(proto) /\ val = NewValidator /\ out = <<>>
  BY DEF RelayInit
<1>3. ViewQuiet(view) /\ AllQuiet(<<>>)
  BY QuietNone DEF RelayInit, ViewQuiet
<1>4. Plan(<<>>, view, out)
  BY <1>2, <1>3, QuietPlan
<1> DEFINE e == <<>>
<1>a. DOMAIN e = {} /\ IsSeq(e)
  BY DEF IsSeq, Range
<1>5. proto.adapter = "chat" => ChatReady(st, view, out)
  <2>1. proto.adapter = "chat" => st.calls = e /\ st.finish = None
    BY <1>2 DEF AdapterInit, ChatInit
  <2> HIDE DEF e
  <2> QED
    BY <1>a, <2>1 DEF ChatReady
<1>6. proto.adapter = "messages" => MessagesReady(st, val, view, out)
  <2> SUFFICES ASSUME proto.adapter = "messages" PROVE MessagesReady(st, val, view, out)
    OBVIOUS
  <2>1. st = MessagesInit
    BY <1>2 DEF AdapterInit
  <2>2. st.blocks = e /\ st.stop = None /\ DOMAIN st = DOMAIN MessagesInit
    BY <2>1 DEF MessagesInit
  <2>3. DOMAIN val = DOMAIN NewValidator /\ val.items = e
    BY <1>2 DEF NewValidator
  <2> HIDE DEF e
  <2>4. CallsKnown(e, val)
    BY <1>a, <2>3 DEF CallsKnown, ItemsShape, ToolPlaces
  <2>5. Closed(e) = e /\ Given(e, view, out)
    BY <1>a DEF Closed, Given, ToolPlaces, IsSeq
  <2> QED
    BY <1>4, <2>2, <2>4, <2>5 DEF MessagesReady, e
<1>7. proto.adapter \in {"responses", "codec"} => ResponsesReady(st)
  <2>1. proto.adapter \in {"responses", "codec"} => st.items = e
    BY <1>2 DEF AdapterInit, ResponsesInit
  <2> HIDE DEF e
  <2> QED
    BY <1>a, <2>1 DEF ResponsesReady
<1>8. proto.adapter \in {"provider", "managed_provider"} => PluginReady(st)
  BY <1>2 DEF AdapterInit, PluginInit, PluginReady
<1>9. proto.adapter = "managed_chat" => NativeChatReady(st)
  <2>1. proto.adapter = "managed_chat" => st.calls = e
    BY <1>2 DEF AdapterInit, NativeChatInit
  <2> HIDE DEF e
  <2> QED
    BY <1>a, <2>1 DEF NativeChatReady
<1>10. proto.adapter = "managed_messages" => NativeMessagesReady(st)
  <2>1. proto.adapter = "managed_messages" => st.blocks = e
    BY <1>2 DEF AdapterInit, NativeMessagesInit
  <2> HIDE DEF e
  <2> QED
    BY <1>a, <2>1 DEF NativeMessagesReady
<1>11. proto.adapter = "interactions" => InteractionsReady(st)
  <2>1. proto.adapter = "interactions" => st.steps = e
    BY <1>2 DEF AdapterInit, InteractionsInit
  <2> HIDE DEF e
  <2> QED
    BY <1>a, <2>1 DEF InteractionsReady
<1> QED
  BY <1>1, <1>4, <1>5, <1>6, <1>7, <1>8, <1>9, <1>10, <1>11 DEF PlanInv, AdapterReady

\* One provider event, whatever the adapter.
LEMMA ConvertPlans ==
  ASSUME HeldInv, AdapterReady(st, val, view, out), Convert
  PROVE  AdapterReady(st', val', view, out')
<1>1. relay = "reading" /\ UNCHANGED <<proto, request, relay, view>>
  BY ConvertReads
<1>2. proto \in Protocols /\ AdapterShape /\ (ToolsDecided \/ NothingOfTools)
  BY <1>1 DEF HeldInv
<1>3. AdapterShape' /\ (ToolsDecided' \/ NothingOfTools')
  <2>1. HeldInv'
    BY ConvertHolds
  <2> QED
    BY <1>1, <2>1 DEF HeldInv
<1>4. NothingOfTools' => \E O : Plan(O, view, out')
  <2>1. NothingOfTools' => ViewQuiet(view) /\ AllQuiet(out')
    BY <1>1 DEF NothingOfTools
  <2> QED
    BY <2>1, QuietPlan
<1>5. CASE proto.adapter = "chat" /\ ChatNext
  <2>1. DOMAIN st = DOMAIN ChatInit /\ ChatReady(st, view, out)
    BY <1>2, <1>5 DEF AdapterShape, AdapterInit, AdapterReady
  <2>2. st.finish = None => ViewQuiet(view)
    BY <1>2, <1>5 DEF ToolsDecided, NothingOfTools
  <2>3. ChatReady(st', view, out')
    BY <1>5, <2>1, <2>2, ChatPlans
  <2>4. \E O : Plan(O, view, out')
    <3>1. CASE st'.finish # None
      BY <2>3, <3>1 DEF ChatReady
    <3>2. CASE st'.finish = None
      <4>1. ~ToolsDecided'
        BY <1>1, <1>5, <3>2 DEF ToolsDecided
      <4> QED
        BY <1>3, <1>4, <4>1
    <3> QED
      BY <3>1, <3>2
  <2> QED
    BY <1>5, <2>3, <2>4 DEF AdapterReady
<1>6. CASE proto.adapter = "messages" /\ MessagesNext
  <2>1. MessagesReady(st, val, view, out)
    BY <1>6 DEF AdapterReady
  <2>2. MessagesReady(st', val', view, out')
    BY <1>6, <2>1, MessagesPlans
  <2>3. \E O : Plan(O, view, out')
    BY <2>2 DEF MessagesReady
  <2> QED
    BY <1>6, <2>2, <2>3 DEF AdapterReady
<1>7. CASE proto.adapter \in {"responses", "codec"} /\ ResponsesNext
  <2>1. HeadsAreHeld /\ DOMAIN st = DOMAIN ResponsesInit /\ ResponsesShape(st) /\ ResponsesReady(st)
    BY <1>2, <1>7 DEF AdapterShape, AdapterInit, AdapterReady, HeadsAreHeld
  <2>2. ~st.done
    <3>0. \A next, events, yielded : Handle(next, events, yielded) => ~st.done
      BY DEF Handle, Reading
    <3>a. \A next, events, yielded : Yield(next, events, yielded) => ~st.done
      BY <3>0 DEF Yield
    <3> QED
      BY <1>7, <3>a, ZenonT(30) DEF ResponsesNext, ResponseCreated, ResponseInProgress, ItemAdded,
         ToolArguments, ToolArgumentsDone, ContentPartAdded, OutputTextDelta, OutputTextDone,
         ContentPartDone, OutputItemDone, ResponseEnd
  <2>3. CASE ResponsesGoOn(st')
    <3>1. ResponsesReady(st') /\ ~st'.done
      BY <2>2, <2>3 DEF ResponsesGoOn
    <3>2. ~ToolsDecided'
      BY <1>1, <1>3, <1>7, <3>1 DEF ToolsDecided, AdapterShape, HeadsAreHeld
    <3> QED
      BY <1>3, <1>4, <1>7, <3>1, <3>2 DEF AdapterReady
  <2>4. ASSUME NEW status, ResponseEnd(status) PROVE AdapterReady(st', val', view, out')
    <3>1. ~ToolsDecided
      BY <1>7, <2>1, <2>2 DEF ToolsDecided, HeadsAreHeld
    <3>2. ViewQuiet(view)
      BY <1>2, <3>1 DEF NothingOfTools
    <3>3. \E O : Plan(O, view, out')
      BY <1>2, <2>1, <2>4, <3>2, ResponseEndPlan
    <3>4. ResponsesReady(st')
      <4> DEFINE next == [st EXCEPT !.done = TRUE]
      <4>1. \E events, yielded : Yield(next, events, yielded)
        BY <2>4 DEF ResponseEnd
      <4>2. DOMAIN next = DOMAIN ResponsesInit /\ next.items = st.items
        BY <2>1 DEF ResponsesInit
      <4> HIDE DEF next
      <4>3. st'.items = st.items
        BY <4>1, <4>2, YieldItems
      <4> QED
        BY <2>1, <4>3 DEF ResponsesReady
    <3> QED
      BY <1>7, <3>3, <3>4 DEF AdapterReady
  <2> QED
    BY <1>7, <2>1, <2>3, <2>4, ResponsesKeeps
<1>8. CASE proto.adapter \in {"provider", "managed_provider"} /\ PluginNext
  <2>1. DOMAIN st = DOMAIN PluginInit /\ PublishedItems
    BY <1>2, <1>8 DEF AdapterShape, AdapterInit
  <2>2. /\ PluginReady(st')
        /\ ~st'.done => AllQuiet(out')
        /\ st'.done /\ proto.adapter = "provider" /\ ViewQuiet(view) => Plan(st'.output, view, out')
    BY <1>8, <2>1, PluginPlans
  <2>3. ~st.done
    BY <1>8, Zenon DEF PluginNext, PluginCreated, PluginItem, PluginPart, PluginText, PluginComplete,
       PluginFinish, Handle, Reading
  <2>4. ViewQuiet(view)
    BY <1>1, <1>2, <1>8, <2>1, <2>3 DEF ToolsDecided, NothingOfTools, PublishedItems
  <2>5. proto.adapter = "managed_provider" => NothingOfTools'
    BY <1>1, <1>3 DEF ToolsDecided
  <2>6. \E O : Plan(O, view, out')
    <3>1. CASE ~st'.done
      BY <2>2, <2>4, <3>1, QuietPlan
    <3>2. CASE st'.done
      BY <1>4, <1>8, <2>2, <2>4, <2>5, <3>2
    <3> QED
      BY <3>1, <3>2
  <2> QED
    BY <1>8, <2>2, <2>6 DEF AdapterReady
<1>9. proto.adapter \in {"managed_chat", "managed_messages", "interactions"} => \E O : Plan(O, view, out')
  <2>1. proto.adapter \in {"managed_chat", "managed_messages", "interactions"} => ~ToolsDecided'
    BY <1>1 DEF ToolsDecided
  <2> QED
    BY <1>3, <1>4, <2>1
<1>10. CASE proto.adapter = "managed_chat" /\ NativeChatNext
  <2>1. NativeChatReady(st')
    BY <1>2, <1>10, NativeChatKeeps DEF AdapterShape, AdapterInit, AdapterReady
  <2> QED
    BY <1>9, <1>10, <2>1 DEF AdapterReady
<1>11. CASE proto.adapter = "managed_messages" /\ NativeMessagesNext
  <2>1. NativeMessagesReady(st')
    BY <1>2, <1>11, NativeMessagesKeeps DEF AdapterShape, AdapterInit, AdapterReady
  <2> QED
    BY <1>9, <1>11, <2>1 DEF AdapterReady
<1>12. CASE proto.adapter = "interactions" /\ InteractionsNext
  <2>1. InteractionsReady(st')
    BY <1>2, <1>12, InteractionsKeeps DEF AdapterShape, AdapterInit, AdapterReady
  <2> QED
    BY <1>9, <1>12, <2>1 DEF AdapterReady
<1> QED
  BY <1>5, <1>6, <1>7, <1>8, <1>10, <1>11, <1>12 DEF Convert

\* The final events of a managed stream follow a plan.
LEMMA FinalizePlans ==
  ASSUME HeldInv, AdapterReady(st, val, view, out), Finalize
  PROVE  \E O : Plan(O, view, out')
<1>1. /\ relay = "reading" /\ st.done /\ ManagedDecodable
      /\ proto.adapter \in {"managed_chat", "managed_messages", "interactions", "managed_provider"}
      /\ out' = FinalEvents(WithEnvelope(ManagedOutput))
  BY DEF Finalize, Managed
<1>2. AdapterShape /\ (ToolsDecided \/ NothingOfTools)
  BY <1>1 DEF HeldInv
<1>3. ViewQuiet(view)
  BY <1>1, <1>2 DEF ToolsDecided, NothingOfTools
<1>4. CASE proto.adapter = "managed_provider"
  <2>1. ManagedOutput = st.output /\ PublishedItems /\ PluginReady(st)
    BY <1>2, <1>4 DEF ManagedOutput, AdapterShape, AdapterReady
  <2> QED
    BY <1>1, <1>3, <1>4, <2>1, ManagedPluginPlan
<1>5. CASE proto.adapter # "managed_provider"
  <2> DEFINE O == ManagedOutput
  <2>1. IsSeq(O) /\ Grantable(O) /\ (request.choice = "required" => ToolPlaces(O) # {})
    <3>1. CASE proto.adapter = "managed_chat"
      BY <1>1, <3>1, NativeChatGrants DEF ManagedOutput, ManagedDecodable, AdapterReady
    <3>2. CASE proto.adapter = "managed_messages"
      BY <1>1, <3>2, NativeMessagesGrants DEF ManagedOutput, ManagedDecodable, AdapterReady
    <3>3. CASE proto.adapter = "interactions"
      BY <1>1, <3>3, InteractionsGrants DEF ManagedOutput, ManagedDecodable, AdapterReady
    <3> QED
      BY <1>1, <1>5, <3>1, <3>2, <3>3
  <2> HIDE DEF O
  <2>2. Plan(O, view, FinalEvents(WithEnvelope(O)))
    BY <1>3, <1>5, <2>1, FinalPlan
  <2> QED
    BY <1>1, <2>2 DEF O
<1> QED
  BY <1>4, <1>5

LEMMA PlanStep ==
  ASSUME PlanInv, [RelayNext]_svars
  PROVE  PlanInv'
<1>1. HeldInv'
  BY HeldStep DEF PlanInv
<1>2. HeldInv
  BY DEF PlanInv
<1>3. ASSUME UNCHANGED <<proto, request>>, AdapterReady(st', val', view', out') PROVE PlanInv'
  BY <1>1, <1>3, ReadyAgain DEF PlanInv
<1>4. CASE Convert
  <2>1. relay = "reading" /\ UNCHANGED <<proto, request, relay, view>>
    BY <1>4, ConvertReads
  <2>2. AdapterReady(st', val', view, out')
    BY <1>2, <1>4, <2>1, ConvertPlans DEF PlanInv
  <2> QED
    BY <1>3, <2>1, <2>2
<1>5. CASE Deliver
  <2> DEFINE w == Received(view, Head(out))
             s == Tail(out)
  <2>1. /\ UNCHANGED <<proto, request, st, val>> /\ relay # "cut" /\ out # <<>>
        /\ view' = w /\ out' = s
    BY <1>5 DEF Deliver
  <2>2. AdapterReady(st, val, view, out)
    BY <2>1 DEF PlanInv
  <2>3. /\ \A O : Plan(O, view, out) => Plan(O, w, s)
        /\ \A O : Plan(O, view, out) /\ Given(O, view, out) => Given(O, w, s)
    BY <2>1, PlanDelivered, GivenDelivered
  <2> HIDE DEF w, s
  <2>4. ChatReady(st, view, out) => ChatReady(st, w, s)
    BY <2>3 DEF ChatReady
  <2>5. MessagesReady(st, val, view, out) => MessagesReady(st, val, w, s)
    BY <2>3 DEF MessagesReady
  <2>6. AdapterReady(st, val, w, s)
    BY <2>2, <2>3, <2>4, <2>5 DEF AdapterReady
  <2> QED
    BY <1>3, <2>1, <2>6
<1>6. CASE Finalize
  <2>1. /\ UNCHANGED <<proto, request, st, val, view>> /\ relay # "cut"
        /\ proto.adapter \notin {"chat", "messages"}
    BY <1>6 DEF Finalize, Managed
  <2>2. AdapterReady(st, val, view, out)
    BY <2>1 DEF PlanInv
  <2>3. \E O : Plan(O, view, out')
    BY <1>2, <1>6, <2>2, FinalizePlans
  <2>4. AdapterReady(st, val, view, out')
    BY <2>1, <2>2, <2>3 DEF AdapterReady
  <2> QED
    BY <1>3, <2>1, <2>4
<1>7. CASE Close
  <2>1. UNCHANGED <<proto, request, st, val, out, view>> /\ relay # "cut"
    BY <1>7 DEF Close
  <2> QED
    BY <1>3, <2>1 DEF PlanInv
<1>8. CASE Cut
  BY <1>1, <1>8 DEF Cut, PlanInv
<1>9. CASE UNCHANGED svars
  <2>1. UNCHANGED <<proto, request, st, val, out, relay, view>>
    BY <1>9 DEF svars
  <2>2. CASE relay = "cut"
    BY <1>1, <2>1, <2>2 DEF PlanInv
  <2>3. CASE relay # "cut"
    BY <1>3, <2>1, <2>3 DEF PlanInv
  <2> QED
    BY <2>2, <2>3
<1> QED
  BY <1>4, <1>5, <1>6, <1>7, <1>8, <1>9 DEF RelayNext

-----------------------------------------------------------------------------
(* Theorem: tools obey the request.                                        *)

Live == relay # "cut"

\* What the client has received stays with it when the stream is cut.
LEMMA CutKeeps ==
  ASSUME ToolsAsRequested, [RelayNext]_svars, ~Live'
  PROVE  ToolsAsRequested'
<1>1. relay' = "cut"
  BY DEF Live
<1>2. ASSUME UNCHANGED <<request, view>> PROVE ToolsAsRequested'
  <2>1. DoneTools' = DoneTools
    BY <1>2 DEF DoneTools
  <2> QED
    BY <1>2, <2>1 DEF ToolsAsRequested, CountAllowed, Resolves
<1>3. CASE Convert
  BY <1>1, <1>3, ConvertReads
<1>4. CASE Deliver
  BY <1>1, <1>4 DEF Deliver
<1>5. CASE Finalize \/ Close
  BY <1>1, <1>5 DEF Finalize, Close
<1>6. CASE Cut
  BY <1>2, <1>6 DEF Cut
<1>7. CASE UNCHANGED svars
  BY <1>2, <1>7 DEF svars
<1> QED
  BY <1>3, <1>4, <1>5, <1>6, <1>7 DEF RelayNext

\* At every moment, on every adapter and however the stream is cut, the calls a client may execute
\* obey its request: at most one when parallel_tool_calls is off, none when tool_choice is none, at
\* least one in a completed response when it is required, each under a call identifier of its own,
\* and the arguments of every function are a whole JSON object.  The checks behind it are
\* PreparedTools::resolve and validate_count, restore_call, the terminal checks of the adapters, the
\* EventValidator in stateless Messages and in the decoders, and Progress for plugins.  For all
\* limits, texts, call identifiers and request rules.
THEOREM ToolsObeyTheRequest == RelaySpec => []ToolsAsRequested
<1>1. RelayInit => PlanInv
  BY PlanInit
<1>2. PlanInv /\ [RelayNext]_svars => PlanInv'
  BY PlanStep
<1>3. PlanInv /\ Live => ToolsAsRequested
  BY PlanIsEnough DEF PlanInv, AdapterReady, Live
<1>4. RelayInit => Live
  BY DEF RelayInit, Live
<1>5. ToolsAsRequested /\ [RelayNext]_svars /\ ~Live' => ToolsAsRequested'
  BY CutKeeps
<1> QED
  BY <1>1, <1>2, <1>3, <1>4, <1>5, PTL DEF RelaySpec
=============================================================================
