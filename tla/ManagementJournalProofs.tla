----------------------- MODULE ManagementJournalProofs -----------------------
(***************************************************************************)
(* Proofs about the management journal, for any number of operations,      *)
(* subjects, keys and requests and any bound on the events of one.         *)
(*                                                                         *)
(* The argument: what the journal says of an operation (its last event)    *)
(* has to be compared with what happened to the target, and that depends   *)
(* on where the executor is.  Whereabouts says so: between begin and the   *)
(* return of apply the operation is running and has had no effect, after   *)
(* it the executor holds a true report, and nothing executes unless the    *)
(* store is open.  With the rows an operation has (RowsAndEvents) and the  *)
(* uniqueness of a subject's idempotency key, JournalInv is inductive.     *)
(***************************************************************************)
EXTENDS ManagementJournal, TLAPS

-----------------------------------------------------------------------------
(* The inductive invariant.                                                *)

\* An operation has events when it has a row; an effect needs a row that is
\* past its queued state.
RowsAndEvents ==
    \A o \in Operations :
       /\ Recorded(o) => events[o] # <<>>
       /\ o \in done => Recorded(o) /\ State(o) # "queued"

\* The executor's place agrees with the operation's last event and its effect.
Whereabouts ==
    /\ exec.pc # "idle" => mode = "open" /\ exec.op \in Operations /\ Recorded(exec.op)
    /\ exec.pc = "accepted" => State(exec.op) = "queued"
    /\ exec.pc = "started" => State(exec.op) = "running" /\ exec.op \notin done
    /\ exec.pc = "applied" => /\ State(exec.op) = "running" /\ exec.effect # None
                              /\ Truthful(exec.effect, exec.op \in done)

\* UNIQUE(subject, idempotency_key)
KeysAreUnique ==
    \A o, p \in Operations :
       (/\ Recorded(o) /\ Recorded(p)
        /\ operation[o].subject = operation[p].subject
        /\ operation[o].key = operation[p].key) => o = p

JournalInv ==
    JournalTypeOK /\ RowsAndEvents /\ Whereabouts /\ KeysAreUnique /\ OutcomeIsTrue

-----------------------------------------------------------------------------
(* What a step can do to the events.                                       *)

\* append adds one event to one operation, and its state follows the last one.
LEMMA AppendEventEffect ==
  ASSUME JournalTypeOK, NEW o \in Operations, NEW phase \in Phases, NEW state \in States,
         NEW effect \in Effects \cup {None}, AppendEvent(o, phase, state, effect)
  PROVE  /\ events' \in [Operations -> Seq(Event)]
         /\ \A p \in Operations \ {o} : events'[p] = events[p]
         /\ events'[o] = Append(events[o], [phase |-> phase, state |-> state, effect |-> effect])
         /\ events'[o] # <<>>
         /\ Last(events'[o]).state = state
         /\ ValidNext(State(o), [phase |-> phase, state |-> state, effect |-> effect])
<1> DEFINE e == [phase |-> phase, state |-> state, effect |-> effect]
<1>1. e \in Event
  BY DEF Event
<1>2. events[o] \in Seq(Event) /\ events' = [events EXCEPT ![o] = Append(@, e)]
  BY DEF AppendEvent, JournalTypeOK
<1>3. events'[o] = Append(events[o], e) /\ \A p \in Operations \ {o} : events'[p] = events[p]
  BY <1>2 DEF JournalTypeOK
<1>4. events'[o] \in Seq(Event) /\ Len(events'[o]) = Len(events[o]) + 1
      /\ events'[o][Len(events[o]) + 1] = e
  BY <1>1, <1>2, <1>3
<1>5. Last(events'[o]).state = state
  BY <1>4 DEF Last
<1>6. events'[o] # <<>>
  BY <1>2, <1>4
<1>7. events' \in [Operations -> Seq(Event)]
  BY <1>1, <1>2, <1>4 DEF JournalTypeOK
<1> QED
  BY <1>3, <1>5, <1>6, <1>7 DEF AppendEvent

\* settle_interrupted closes queued work as failed and running work as uncertain.
LEMMA SettledEffect ==
  ASSUME JournalTypeOK, NEW o \in Operations, Settled(o)
  PROVE  /\ events' \in [Operations -> Seq(Event)]
         /\ \A p \in Operations \ {o} : events'[p] = events[p]
         /\ \E e \in Event : events'[o] = Append(events[o], e)
         /\ events'[o] # <<>>
         /\ Recorded(o) /\ State(o) \in {"queued", "running"}
         /\ Last(events'[o]).state = IF State(o) = "queued" THEN "failed" ELSE "uncertain"
<1> DEFINE i == Interruption(State(o))
<1>1. Recorded(o) /\ State(o) \in {"queued", "running"}
  BY DEF Settled, Unsettled
<1>2. i \in Effects /\ EffectState(i) \in States
      /\ EffectState(i) = IF State(o) = "queued" THEN "failed" ELSE "uncertain"
  BY DEF Interruption, EffectState, Effects, States
<1>3. AppendEvent(o, "recovery", EffectState(i), i)
  BY DEF Settled
<1>4. "recovery" \in Phases /\ i \in Effects \cup {None}
  BY <1>2 DEF Phases
<1>5. [phase |-> "recovery", state |-> EffectState(i), effect |-> i] \in Event
  BY <1>2, <1>4 DEF Event
<1> HIDE DEF i
<1> QED
  BY <1>1, <1>2, <1>3, <1>4, <1>5, AppendEventEffect

-----------------------------------------------------------------------------
(* Preservation, one lemma per kind of step.                               *)

\* The empty tables satisfy the invariant.
LEMMA JournalInvInit == JournalInit => JournalInv
  BY JournalAssumption
  DEF JournalInit, JournalInv, JournalTypeOK, RowsAndEvents, Whereabouts, KeysAreUnique,
      OutcomeIsTrue, Recorded, IdleExec, Effects

\* accept: a fresh operation under a fresh key, queued, without an effect.
LEMMA AcceptKeepsInv ==
  ASSUME JournalInv, NEW o \in Operations, NEW s \in Subjects, NEW k \in Keys,
         NEW q \in Requests, Accept(o, s, k, q)
  PROVE  JournalInv'
<1> USE DEF JournalInv
<1> DEFINE row == [subject |-> s, key |-> k, request |-> q]
           first == [phase |-> "accepted", state |-> "queued", effect |-> None]
<1>1. /\ operation' = [operation EXCEPT ![o] = row]
      /\ events' = [events EXCEPT ![o] = <<first>>]
      /\ exec' = [pc |-> "accepted", op |-> o, effect |-> None]
      /\ mode = "open" /\ mode' = mode /\ done' = done
      /\ operation[o] = None /\ Fresh(s, k)
  BY DEF Accept, Recorded
<1>2. row \in Row /\ row # None /\ first \in Event
  BY JournalAssumption DEF Row, Event, Phases, States
<1>3. /\ operation'[o] = row /\ \A p \in Operations \ {o} : operation'[p] = operation[p]
      /\ events'[o] = <<first>> /\ \A p \in Operations \ {o} : events'[p] = events[p]
  BY <1>1 DEF JournalTypeOK
<1>4. events'[o] # <<>> /\ Last(events'[o]) = first
  BY <1>3 DEF Last
<1>5. JournalTypeOK'
  <2>1. operation' \in [Operations -> Row \cup {None}]
    BY <1>1, <1>2 DEF JournalTypeOK
  <2>2. <<first>> \in Seq(Event)
    BY <1>2
  <2>3. events' \in [Operations -> Seq(Event)]
    BY <1>1, <2>2 DEF JournalTypeOK
  <2> QED
    BY <1>1, <2>1, <2>3 DEF JournalTypeOK
<1>6. o \notin done
  BY <1>1 DEF RowsAndEvents, Recorded
<1>7. RowsAndEvents'
  BY <1>1, <1>3, <1>4, <1>6 DEF RowsAndEvents, Recorded, State
<1>8. Whereabouts'
  BY <1>1, <1>2, <1>3, <1>4 DEF Whereabouts, Recorded, State
<1>9. KeysAreUnique'
  <2>1. \A p \in Operations : operation[p] # None => operation[p].subject # s \/ operation[p].key # k
    BY <1>1 DEF Fresh, Recorded
  <2> QED
    BY <1>3, <2>1 DEF KeysAreUnique, Recorded
<1>10. OutcomeIsTrue'
  BY <1>1, <1>3, <1>4 DEF OutcomeIsTrue, Recorded, State
<1> QED
  BY <1>5, <1>7, <1>8, <1>9, <1>10

\* begin: the operation is running and still has no effect.
LEMMA BeginKeepsInv == ASSUME JournalInv, Begin PROVE JournalInv'
<1> USE DEF JournalInv
<1> DEFINE o == exec.op
<1>1. /\ exec.pc = "accepted" /\ o \in Operations /\ Recorded(o) /\ State(o) = "queued"
      /\ mode = "open" /\ o \notin done
  BY DEF Begin, Whereabouts, RowsAndEvents
<1>2. /\ AppendEvent(o, "started", "running", None)
      /\ exec' = [exec EXCEPT !.pc = "started"]
      /\ UNCHANGED <<operation, mode, done>>
  BY DEF Begin
<1>3. /\ events' \in [Operations -> Seq(Event)]
      /\ \A p \in Operations \ {o} : events'[p] = events[p]
      /\ events'[o] # <<>> /\ Last(events'[o]).state = "running"
  <2>1. "started" \in Phases /\ "running" \in States /\ None \in Effects \cup {None}
    BY DEF Phases, States
  <2> QED
    BY <1>1, <1>2, <2>1, AppendEventEffect
<1>4. JournalTypeOK'
  BY <1>2, <1>3 DEF JournalTypeOK
<1>5. RowsAndEvents' /\ OutcomeIsTrue'
  BY <1>1, <1>2, <1>3 DEF RowsAndEvents, OutcomeIsTrue, Recorded, State
<1>6. exec'.pc = "started" /\ exec'.op = o
  BY <1>2 DEF JournalTypeOK
<1>7. Whereabouts'
  BY <1>1, <1>2, <1>3, <1>6 DEF Whereabouts, Recorded, State
<1>8. KeysAreUnique'
  BY <1>2 DEF KeysAreUnique, Recorded
<1> QED
  BY <1>4, <1>5, <1>7, <1>8

\* apply: the executor holds a true report of what happened.
LEMMA ApplyKeepsInv ==
  ASSUME JournalInv, NEW e \in Effects, NEW happened \in BOOLEAN, Apply(e, happened)
  PROVE  JournalInv'
<1> USE DEF JournalInv
<1> DEFINE o == exec.op
<1>1. /\ exec.pc = "started" /\ o \in Operations /\ Recorded(o) /\ State(o) = "running"
      /\ mode = "open" /\ o \notin done
  BY DEF Apply, Returned, Whereabouts
<1>2. /\ exec' = [exec EXCEPT !.pc = "applied", !.effect = e]
      /\ done' = IF happened THEN done \cup {o} ELSE done
      /\ UNCHANGED <<operation, events, mode>>
      /\ Truthful(e, happened)
  BY DEF Apply, Returned
<1>3. exec'.pc = "applied" /\ exec'.op = o /\ exec'.effect = e /\ e # None
  BY <1>2, JournalAssumption DEF JournalTypeOK, Effects
<1>4. JournalTypeOK'
  BY <1>1, <1>2 DEF JournalTypeOK
<1>5. RowsAndEvents' /\ OutcomeIsTrue'
  BY <1>1, <1>2 DEF RowsAndEvents, OutcomeIsTrue, Recorded, State
<1>6. Truthful(e, o \in done')
  BY <1>1, <1>2 DEF Truthful
<1>7. Whereabouts'
  BY <1>1, <1>2, <1>3, <1>6 DEF Whereabouts, Recorded, State, Truthful
<1>8. KeysAreUnique'
  BY <1>2 DEF KeysAreUnique, Recorded
<1> QED
  BY <1>4, <1>5, <1>7, <1>8

\* The states of the three effects, as the provers need them.
LEMMA EffectStates ==
  /\ EffectState("applied") = "succeeded"
  /\ EffectState("not_applied") = "failed"
  /\ EffectState("uncertain") = "uncertain"
  /\ \A e \in Effects : EffectState(e) \in States
  /\ \A e \in Effects : EffectState(e) # "queued"
  /\ \A e \in Effects : EffectState(e) = "succeeded" => e = "applied"
  /\ \A e \in Effects : EffectState(e) = "failed" => e = "not_applied"
  BY DEF EffectState, Effects, States

\* finish: what was reported is what is recorded.
LEMMA FinishKeepsInv == ASSUME JournalInv, Finish PROVE JournalInv'
<1> USE DEF JournalInv
<1> DEFINE o == exec.op
           e == exec.effect
<1>1. /\ exec.pc = "applied" /\ o \in Operations /\ Recorded(o) /\ State(o) = "running"
      /\ e # None /\ Truthful(e, o \in done)
  BY DEF Finish, Whereabouts
<1>2. /\ AppendEvent(o, "finished", EffectState(e), e)
      /\ exec' = IdleExec
      /\ UNCHANGED <<operation, mode, done>>
  BY DEF Finish
<1>3. e \in Effects
  BY <1>1 DEF JournalTypeOK
<1>4. /\ events' \in [Operations -> Seq(Event)]
      /\ \A p \in Operations \ {o} : events'[p] = events[p]
      /\ events'[o] # <<>> /\ Last(events'[o]).state = EffectState(e)
  <2>1. "finished" \in Phases /\ EffectState(e) \in States /\ e \in Effects \cup {None}
    BY <1>3, EffectStates DEF Phases
  <2> QED
    BY <1>1, <1>2, <2>1, AppendEventEffect
<1>5. JournalTypeOK'
  BY <1>2, <1>4 DEF JournalTypeOK, IdleExec
<1> HIDE DEF e
<1>6. RowsAndEvents'
  BY <1>1, <1>2, <1>3, <1>4, EffectStates DEF RowsAndEvents, Recorded, State
<1>7. OutcomeIsTrue'
  BY <1>1, <1>2, <1>3, <1>4, EffectStates DEF OutcomeIsTrue, Recorded, State, Truthful
<1>8. Whereabouts' /\ KeysAreUnique'
  BY <1>2 DEF Whereabouts, KeysAreUnique, Recorded, IdleExec
<1> QED
  BY <1>5, <1>6, <1>7, <1>8

\* settle_interrupted, by a replay, reconcile or open: nothing is executing.
LEMMA SettledKeepsInv ==
  ASSUME JournalInv, NEW o \in Operations, Settled(o), exec.pc = "idle",
         UNCHANGED <<operation, mode, exec, done>>
  PROVE  JournalInv'
<1> USE DEF JournalInv
<1>1. /\ events' \in [Operations -> Seq(Event)]
      /\ \A p \in Operations \ {o} : events'[p] = events[p]
      /\ events'[o] # <<>>
      /\ Recorded(o) /\ State(o) \in {"queued", "running"}
      /\ Last(events'[o]).state = IF State(o) = "queued" THEN "failed" ELSE "uncertain"
  BY SettledEffect
<1>2. State(o) = "queued" => o \notin done
  BY DEF RowsAndEvents
<1>3. JournalTypeOK'
  BY <1>1 DEF JournalTypeOK
<1>4. RowsAndEvents' /\ OutcomeIsTrue'
  BY <1>1, <1>2 DEF RowsAndEvents, OutcomeIsTrue, Recorded, State
<1>5. Whereabouts' /\ KeysAreUnique'
  BY DEF Whereabouts, KeysAreUnique, Recorded
<1> QED
  BY <1>3, <1>4, <1>5

\* reconcile: the evidence is true, so the new outcome is.
LEMMA ReconcileKeepsInv ==
  ASSUME JournalInv, NEW o \in Operations, NEW e \in Effects, Reconcile(o, e)
  PROVE  JournalInv'
<1> USE DEF JournalInv
<1>1. /\ Truthful(e, o \in done) /\ Recorded(o)
      /\ AppendEvent(o, "reconciled", EffectState(e), e)
      /\ exec.pc = "idle" /\ UNCHANGED <<operation, mode, exec, done>>
  BY DEF Reconcile, Reconciled
<1>2. /\ events' \in [Operations -> Seq(Event)]
      /\ \A p \in Operations \ {o} : events'[p] = events[p]
      /\ events'[o] # <<>> /\ Last(events'[o]).state = EffectState(e)
  <2>1. "reconciled" \in Phases /\ EffectState(e) \in States /\ e \in Effects \cup {None}
    BY EffectStates DEF Phases
  <2> QED
    BY <1>1, <2>1, AppendEventEffect
<1>3. JournalTypeOK'
  BY <1>1, <1>2 DEF JournalTypeOK
<1>4. RowsAndEvents' /\ OutcomeIsTrue'
  BY <1>1, <1>2, EffectStates DEF RowsAndEvents, OutcomeIsTrue, Recorded, State, Truthful
<1>5. Whereabouts' /\ KeysAreUnique'
  BY <1>1 DEF Whereabouts, KeysAreUnique, Recorded
<1> QED
  BY <1>3, <1>4, <1>5

\* Every step of the journal, and of the process around it, keeps the invariant.
LEMMA JournalInvStep == JournalInv /\ [JournalNext]_journalVars => JournalInv'
<1> SUFFICES ASSUME JournalInv, [JournalNext]_journalVars PROVE JournalInv'
  OBVIOUS
<1> USE DEF JournalInv
<1>1. ASSUME NEW o \in Operations, NEW s \in Subjects, NEW k \in Keys, NEW q \in Requests,
             Accept(o, s, k, q)
      PROVE JournalInv'
  BY <1>1, AcceptKeepsInv
<1>2. CASE Begin
  BY <1>2, BeginKeepsInv
<1>3. ASSUME NEW e \in Effects, NEW happened \in BOOLEAN, Apply(e, happened) PROVE JournalInv'
  BY <1>3, ApplyKeepsInv
<1>4. CASE Finish
  BY <1>4, FinishKeepsInv
<1>5. CASE AppendFails
  BY <1>5 DEF AppendFails, IdleExec, JournalTypeOK, RowsAndEvents, Whereabouts, KeysAreUnique,
              OutcomeIsTrue, Recorded, State
<1>6. ASSUME NEW o \in Operations, Settle(o) \/ Recover(o) PROVE JournalInv'
  <2>1. Settled(o) /\ UNCHANGED <<operation, mode, exec, done>> /\ exec.pc = "idle"
    BY <1>6 DEF Settle, Recover, Whereabouts
  <2> QED
    BY <2>1, SettledKeepsInv
<1>7. ASSUME NEW o \in Operations, NEW e \in Effects, Reconcile(o, e) PROVE JournalInv'
  BY <1>7, ReconcileKeepsInv
<1>8. CASE Open \/ Opened
  <2>1. UNCHANGED <<operation, events, exec, done>> /\ mode' \in {"recovering", "open"}
        /\ exec.pc = "idle"
    BY <1>8 DEF Open, Opened, Whereabouts
  <2> QED
    BY <2>1 DEF JournalTypeOK, RowsAndEvents, Whereabouts, KeysAreUnique, OutcomeIsTrue, Recorded, State
<1>9. CASE Crash
  <2>1. /\ UNCHANGED <<operation, events>> /\ mode' = "closed" /\ exec' = IdleExec
        /\ \/ done' = done
           \/ exec.pc = "started" /\ done' = done \cup {exec.op}
    BY <1>9 DEF Crash
  <2>2. exec.pc = "started" => exec.op \in Operations /\ Recorded(exec.op) /\ State(exec.op) = "running"
    BY DEF Whereabouts
  <2>3. JournalTypeOK'
    BY <2>1, <2>2 DEF JournalTypeOK, IdleExec
  <2>4. RowsAndEvents' /\ OutcomeIsTrue'
    BY <2>1, <2>2 DEF RowsAndEvents, OutcomeIsTrue, Recorded, State
  <2>5. Whereabouts' /\ KeysAreUnique'
    BY <2>1 DEF Whereabouts, KeysAreUnique, Recorded, IdleExec
  <2> QED
    BY <2>3, <2>4, <2>5
<1>10. CASE UNCHANGED journalVars
  BY <1>10 DEF journalVars, JournalTypeOK, RowsAndEvents, Whereabouts, KeysAreUnique, OutcomeIsTrue,
               Recorded, State
<1> QED
  BY <1>1, <1>2, <1>3, <1>4, <1>5, <1>6, <1>7, <1>8, <1>9, <1>10 DEF JournalNext

\* The inductive invariant holds of every reachable state.
LEMMA JournalInvariant == JournalSpec => []JournalInv
  BY JournalInvInit, JournalInvStep, PTL DEF JournalSpec

-----------------------------------------------------------------------------
(* What the journal promises.                                              *)

\* The journal never lies: succeeded has happened and failed has not, over
\* crashes, rows that could not be written, recovery and reconciliation.
THEOREM JournalTellsTheTruth == JournalSpec => []OutcomeIsTrue
<1>1. JournalInv => OutcomeIsTrue
  BY DEF JournalInv
<1> QED
  BY <1>1, JournalInvariant, PTL

\* A subject's idempotency key has its effect at most once.
THEOREM JournalAppliesOnce == JournalSpec => []AppliedOnce
<1>1. JournalInv => AppliedOnce
  BY DEF JournalInv, JournalTypeOK, RowsAndEvents, KeysAreUnique, AppliedOnce
<1> QED
  BY <1>1, JournalInvariant, PTL

\* What one more event leaves of a history.
LEMMA AppendIsFinal ==
  ASSUME NEW h \in Seq(Event), NEW e \in Event
  PROVE  IsPrefix(h, Append(h, e))
<1>1. Append(h, e) \in Seq(Event) /\ Len(Append(h, e)) = Len(h) + 1 /\ Len(h) \in Nat
  OBVIOUS
<1>2. \A i \in 1..Len(h) : Append(h, e)[i] = h[i]
  OBVIOUS
<1>3. SubSeq(h, 1, Len(h)) = [i \in 1..Len(h) |-> h[i]]
  BY <1>1
<1>4. SubSeq(Append(h, e), 1, Len(h)) = [i \in 1..Len(h) |-> Append(h, e)[i]]
  BY <1>1
<1> QED
  BY <1>1, <1>2, <1>3, <1>4 DEF IsPrefix

\* Every history is a prefix of itself.
LEMMA SameIsPrefix == \A h \in Seq(Event) : IsPrefix(h, h)
  BY DEF IsPrefix

\* No event follows a settled one: valid_next refuses every phase.
LEMMA NothingFollowsSettled ==
  ASSUME NEW before \in {"succeeded", "failed"}, NEW phase \in Phases,
         NEW state, NEW effect
  PROVE  ~ValidNext(before, [phase |-> phase, state |-> state, effect |-> effect])
  BY DEF ValidNext, Phases

\* What an append leaves of every operation's row and history.
LEMMA AppendKeepsHistory ==
  ASSUME JournalInv, NEW o \in Operations, NEW phase \in Phases, NEW state \in States,
         NEW effect \in Effects \cup {None}, AppendEvent(o, phase, state, effect),
         operation' = operation, NEW p \in Operations
  PROVE  /\ operation'[p] = operation[p]
         /\ IsPrefix(events[p], events'[p])
         /\ State(p) \in {"succeeded", "failed"} => events'[p] = events[p]
<1>1. JournalTypeOK /\ events[p] \in Seq(Event)
  BY DEF JournalInv, JournalTypeOK
<1>2. CASE p = o
  <2> DEFINE e == [phase |-> phase, state |-> state, effect |-> effect]
  <2>1. events'[o] = Append(events[o], e) /\ ValidNext(State(o), e)
    BY <1>1, AppendEventEffect
  <2>2. e \in Event
    BY DEF Event
  <2>3. State(o) \notin {"succeeded", "failed"}
    BY <2>1, NothingFollowsSettled
  <2> QED
    BY <1>1, <1>2, <2>1, <2>2, <2>3, AppendIsFinal
<1>3. CASE p # o
  <2>1. events'[p] = events[p]
    BY <1>1, <1>3, AppendEventEffect
  <2> QED
    BY <1>1, <2>1, SameIsPrefix
<1> QED
  BY <1>2, <1>3

\* No step rewrites a row or an event, or adds to a settled history.
LEMMA StepKeepsHistory ==
  ASSUME JournalInv, JournalNext, NEW p \in Operations, Recorded(p)
  PROVE  /\ operation'[p] = operation[p]
         /\ IsPrefix(events[p], events'[p])
         /\ State(p) \in {"succeeded", "failed"} => events'[p] = events[p]
<1> DEFINE Kept == /\ operation'[p] = operation[p]
                   /\ IsPrefix(events[p], events'[p])
                   /\ State(p) \in {"succeeded", "failed"} => events'[p] = events[p]
<1>1. JournalTypeOK /\ events[p] \in Seq(Event)
  BY DEF JournalInv, JournalTypeOK
<1>2. UNCHANGED <<operation, events>> => Kept
  BY <1>1, SameIsPrefix
<1>3. ASSUME NEW o \in Operations, NEW s \in Subjects, NEW k \in Keys, NEW q \in Requests,
             Accept(o, s, k, q)
      PROVE Kept
  <2>1. p # o
    BY <1>3 DEF Accept
  <2>2. operation'[p] = operation[p] /\ events'[p] = events[p]
    BY <1>1, <1>3, <2>1 DEF Accept, JournalTypeOK
  <2> QED
    BY <1>1, <2>2, SameIsPrefix
<1>4. CASE Begin
  <2>1. exec.op \in Operations /\ AppendEvent(exec.op, "started", "running", None)
        /\ operation' = operation
    BY <1>4 DEF Begin, JournalInv, Whereabouts
  <2>2. "started" \in Phases /\ "running" \in States /\ None \in Effects \cup {None}
    BY DEF Phases, States
  <2> QED
    BY <2>1, <2>2, AppendKeepsHistory
<1>5. CASE Finish
  <2>1. exec.op \in Operations /\ AppendEvent(exec.op, "finished", EffectState(exec.effect), exec.effect)
        /\ operation' = operation
    BY <1>5 DEF Finish, JournalInv, Whereabouts
  <2>2. "finished" \in Phases /\ exec.effect \in Effects
    BY <1>1, <1>5 DEF Phases, Finish, JournalInv, JournalTypeOK, Whereabouts
  <2>3. EffectState(exec.effect) \in States /\ exec.effect \in Effects \cup {None}
    BY <2>2, EffectStates
  <2> QED
    BY <2>1, <2>2, <2>3, AppendKeepsHistory
<1>6. ASSUME NEW o \in Operations, Settle(o) \/ Recover(o) PROVE Kept
  <2> DEFINE i == Interruption(State(o))
  <2>1. operation' = operation /\ AppendEvent(o, "recovery", EffectState(i), i)
    BY <1>6 DEF Settle, Recover, Settled
  <2>2. "recovery" \in Phases /\ i \in Effects
    BY DEF Phases, Interruption, Effects
  <2>3. EffectState(i) \in States /\ i \in Effects \cup {None}
    BY <2>2, EffectStates
  <2> HIDE DEF i
  <2> QED
    BY <2>1, <2>2, <2>3, AppendKeepsHistory
<1>7. ASSUME NEW o \in Operations, NEW e \in Effects, Reconcile(o, e) PROVE Kept
  <2>1. operation' = operation /\ AppendEvent(o, "reconciled", EffectState(e), e)
    BY <1>7 DEF Reconcile, Reconciled
  <2>2. "reconciled" \in Phases /\ EffectState(e) \in States /\ e \in Effects \cup {None}
    BY EffectStates DEF Phases
  <2> QED
    BY <2>1, <2>2, AppendKeepsHistory
<1>8. ASSUME NEW e \in Effects, NEW happened \in BOOLEAN, Apply(e, happened) PROVE Kept
  BY <1>2, <1>8 DEF Apply, Returned
<1>9. CASE AppendFails \/ Open \/ Opened \/ Crash
  BY <1>2, <1>9 DEF AppendFails, Open, Opened, Crash
<1> QED
  BY <1>3, <1>4, <1>5, <1>6, <1>7, <1>8, <1>9 DEF JournalNext

\* What a step keeps of operations that others refer to.
LEMMA JournalStepKeeps ==
  ASSUME JournalInv, [JournalNext]_journalVars
  PROVE  /\ done \subseteq done'
         /\ \A o \in done : o \in Operations /\ Recorded(o)
         /\ \A o \in Operations : Recorded(o) =>
               /\ operation'[o] = operation[o]
               /\ State(o) = "succeeded" => Last(events'[o]).state = "succeeded"
<1>1. \A o \in done : o \in Operations /\ Recorded(o)
  BY DEF JournalInv, JournalTypeOK, RowsAndEvents
<1>2. CASE UNCHANGED journalVars
  BY <1>1, <1>2 DEF journalVars, State
<1>3. CASE JournalNext
  <2>1. done \subseteq done'
    BY <1>3 DEF JournalNext, Accept, Begin, Apply, Returned, Finish, AppendFails, Settle, Recover,
                Reconcile, Reconciled, Open, Opened, Crash
  <2> QED
    BY <1>1, <1>3, <2>1, StepKeepsHistory DEF State
<1> QED
  BY <1>2, <1>3

\* History is append-only, and an operation that succeeded or failed stays so.
THEOREM JournalSettlesForGood == JournalSpec => SettledIsFinal
<1> DEFINE Kept == \A o \in Operations : Recorded(o) =>
                      /\ operation'[o] = operation[o]
                      /\ IsPrefix(events[o], events'[o])
                      /\ State(o) \in {"succeeded", "failed"} => events'[o] = events[o]
<1>1. JournalInv /\ [JournalNext]_journalVars => [Kept]_journalVars
  BY StepKeepsHistory
<1> QED
  BY <1>1, JournalInvariant, PTL DEF JournalSpec, SettledIsFinal
=============================================================================
