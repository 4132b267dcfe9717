-------------------------- MODULE ManagementJournal --------------------------
(***************************************************************************)
(* The management journal (src/crates/management/src/journal.rs): the      *)
(* tables operations and events, the synchronous executor that spans       *)
(* durable intent and the adapter's effect, recovery when the store is     *)
(* opened, and reconciliation.                                             *)
(*                                                                         *)
(* The adapter (traits Backend and PreparedOperation of contract.rs) is    *)
(* abstract here: apply reports Applied or NotApplied only when that is    *)
(* true, and reconcile likewise.  ManagedRuntime, ManagedPackages and      *)
(* TeamAccess are such adapters.                                           *)
(* Every row is its own commit, and the process can die between any two.   *)
(***************************************************************************)
EXTENDS Integers, Sequences, FiniteSets, SequencesExt

CONSTANTS
    Operations,   \* operation identifiers (uuid, chosen fresh by accept)
    Subjects,     \* authenticated subjects that hold the grant of their request
    Keys,         \* idempotency keys a subject can choose
    Requests,     \* request fingerprints
    MaxEvents,    \* MAX_EVENTS
    None          \* no row, Option::None

ASSUME JournalAssumption ==
    /\ None \notin Operations
    /\ None \notin {"applied", "not_applied", "uncertain"}
    /\ None \notin [subject : Subjects, key : Keys, request : Requests]
    /\ MaxEvents \in Nat /\ MaxEvents >= 3

VARIABLES
    operation,    \* table operations: subject, idempotency key, fingerprint
    events,       \* table events of each operation, in sequence order
    mode,         \* "closed", "recovering" (inside open) or "open"
    exec,         \* where the executor is, for which operation, with which effect
    done          \* operations whose target effect has really happened

journalVars == <<operation, events, mode, exec, done>>

Effects == {"applied", "not_applied", "uncertain"}
States == {"queued", "running", "succeeded", "failed", "uncertain"}
Phases == {"accepted", "started", "finished", "recovery", "reconciled"}

Event == [phase : Phases, state : States, effect : Effects \cup {None}]
Row == [subject : Subjects, key : Keys, request : Requests]
IdleExec == [pc |-> "idle", op |-> None, effect |-> None]

\* Effect::state
EffectState(e) ==
    CASE e = "applied"     -> "succeeded"
      [] e = "not_applied" -> "failed"
      [] e = "uncertain"   -> "uncertain"

State(o) == Last(events[o]).state

Recorded(o) == operation[o] # None

Unsettled(o) == Recorded(o) /\ State(o) \in {"queued", "running"}

JournalInit ==
    /\ operation = [o \in Operations |-> None]
    /\ events = [o \in Operations |-> <<>>]
    /\ mode = "closed"
    /\ exec = IdleExec
    /\ done = {}

-----------------------------------------------------------------------------
(* valid_next: the only events append writes and recorded accepts.         *)

\* Interrupted work: never started is NotApplied, started is Uncertain.
Interruption(state) == IF state = "queued" THEN "not_applied" ELSE "uncertain"

ValidNext(before, e) ==
    CASE e.phase = "accepted"   -> FALSE
      [] e.phase = "started"    -> before = "queued" /\ e.state = "running" /\ e.effect = None
      [] e.phase = "finished"   -> /\ before = "running" /\ e.effect # None
                                   /\ e.state = EffectState(e.effect)
      [] e.phase = "recovery"   -> /\ before \in {"queued", "running"}
                                   /\ e.effect = Interruption(before)
                                   /\ e.state = EffectState(e.effect)
      [] e.phase = "reconciled" -> /\ before = "uncertain" /\ e.effect # None
                                   /\ e.state = EffectState(e.effect)

\* Mutant of AppendEvent: the sequence is that of the last event.
AppendEventReplaces(o, phase, state, effect) ==
    LET e == [phase |-> phase, state |-> state, effect |-> effect] IN
    /\ ValidNext(State(o), e)
    /\ Len(events[o]) < MaxEvents
    /\ events' = [events EXCEPT ![o] = Append(Front(@), e)]

\* append: one INSERT, after valid_next and the bound on events.
AppendEvent(o, phase, state, effect) ==
    LET e == [phase |-> phase, state |-> state, effect |-> effect] IN
    /\ ValidNext(State(o), e)
    /\ Len(events[o]) < MaxEvents
    /\ events' = [events EXCEPT ![o] = Append(@, e)]

\* Mutant of Settled: interrupted work is closed as not applied, started or not.
SettledFailed(o) ==
    /\ Unsettled(o)
    /\ State(o) = "running"
    /\ AppendEvent(o, "finished", "failed", "not_applied")

\* settle_interrupted
Settled(o) ==
    LET e == Interruption(State(o)) IN
    /\ Unsettled(o)
    /\ AppendEvent(o, "recovery", EffectState(e), e)

-----------------------------------------------------------------------------
(* execute                                                                 *)

\* Mutant of Fresh: the table has no UNIQUE(subject, idempotency_key).
FreshAlways(s, k) == TRUE

\* lookup found no operation of this subject and idempotency key.
Fresh(s, k) ==
    \A p \in Operations : Recorded(p) => operation[p].subject # s \/ operation[p].key # k

\* lookup, prepare and accept; the intent and its first event commit together.
Accept(o, s, k, q) ==
    /\ mode = "open"
    /\ exec.pc = "idle"
    /\ ~Recorded(o)
    /\ Fresh(s, k)
    /\ operation' = [operation EXCEPT ![o] = [subject |-> s, key |-> k, request |-> q]]
    /\ events' = [events EXCEPT ![o] =
                    <<[phase |-> "accepted", state |-> "queued", effect |-> None]>>]
    /\ exec' = [pc |-> "accepted", op |-> o, effect |-> None]
    /\ UNCHANGED <<mode, done>>

Begin ==
    /\ exec.pc = "accepted"
    /\ AppendEvent(exec.op, "started", "running", None)
    /\ exec' = [exec EXCEPT !.pc = "started"]
    /\ UNCHANGED <<operation, mode, done>>

\* prepared.apply(): what it reports of what it did.  Returned and Reconciled are
\* the journal's own part; that the report is true is assumed of the adapter.
Truthful(e, happened) ==
    /\ e = "applied" => happened
    /\ e = "not_applied" => ~happened

Returned(e, happened) ==
    /\ exec.pc = "started"
    /\ exec' = [exec EXCEPT !.pc = "applied", !.effect = e]
    /\ done' = IF happened THEN done \cup {exec.op} ELSE done
    /\ UNCHANGED <<operation, events, mode>>

Apply(e, happened) == Truthful(e, happened) /\ Returned(e, happened)

Finish ==
    /\ exec.pc = "applied"
    /\ AppendEvent(exec.op, "finished", EffectState(exec.effect), exec.effect)
    /\ exec' = IdleExec
    /\ UNCHANGED <<operation, mode, done>>

\* The started or finished row cannot be written (disk, max_page_count): execute
\* returns an error and the operation stays queued or running in a live process.
AppendFails ==
    /\ exec.pc \in {"accepted", "applied"}
    /\ exec' = IdleExec
    /\ UNCHANGED <<operation, events, mode, done>>

\* execute with a known key, or reconcile: the first thing either does with an
\* operation that nothing is executing any more.
Settle(o) ==
    /\ mode = "open"
    /\ exec.pc = "idle"
    /\ Settled(o)
    /\ UNCHANGED <<operation, mode, exec, done>>

\* reconcile: the adapter's evidence settles an uncertain operation, or leaves it so.
Reconciled(o, e) ==
    /\ mode = "open"
    /\ exec.pc = "idle"
    /\ Recorded(o)
    /\ State(o) = "uncertain"
    /\ AppendEvent(o, "reconciled", EffectState(e), e)
    /\ UNCHANGED <<operation, mode, exec, done>>

Reconcile(o, e) == Truthful(e, o \in done) /\ Reconciled(o, e)

-----------------------------------------------------------------------------
(* open: take the owner lease, then settle each interrupted operation with *)
(* a commit of its own.                                                    *)

Open ==
    /\ mode = "closed"
    /\ mode' = "recovering"
    /\ UNCHANGED <<operation, events, exec, done>>

Recover(o) ==
    /\ mode = "recovering"
    /\ Settled(o)
    /\ UNCHANGED <<operation, mode, exec, done>>

AllSettled == \A o \in Operations : ~Unsettled(o)

Opened ==
    /\ mode = "recovering"
    /\ AllSettled
    /\ mode' = "open"
    /\ UNCHANGED <<operation, events, exec, done>>

\* The process dies, or recovery fails; inside apply the effect may have happened.
Crash ==
    /\ mode # "closed"
    /\ mode' = "closed"
    /\ exec' = IdleExec
    /\ \/ done' = done
       \/ exec.pc = "started" /\ done' = done \cup {exec.op}
    /\ UNCHANGED <<operation, events>>

JournalNext ==
    \/ \E o \in Operations, s \in Subjects, k \in Keys, q \in Requests : Accept(o, s, k, q)
    \/ Begin
    \/ \E e \in Effects, happened \in BOOLEAN : Apply(e, happened)
    \/ Finish
    \/ AppendFails
    \/ \E o \in Operations : Settle(o) \/ Recover(o)
    \/ \E o \in Operations, e \in Effects : Reconcile(o, e)
    \/ Open \/ Opened \/ Crash

JournalSpec == JournalInit /\ [][JournalNext]_journalVars

-----------------------------------------------------------------------------
(* Properties.                                                             *)

\* Rows, events and the executor's place have the types of journal.rs.
JournalTypeOK ==
    /\ operation \in [Operations -> Row \cup {None}]
    /\ events \in [Operations -> Seq(Event)]
    /\ mode \in {"closed", "recovering", "open"}
    /\ exec \in [pc : {"idle", "accepted", "started", "applied"},
                 op : Operations \cup {None}, effect : Effects \cup {None}]
    /\ done \subseteq Operations

\* The journal never lies: an operation recorded as succeeded has had its effect
\* and one recorded as failed has not, whatever crashed, failed to be written or
\* was recovered or reconciled in between.
OutcomeIsTrue ==
    \A o \in Operations : Recorded(o) =>
       /\ State(o) = "succeeded" => o \in done
       /\ State(o) = "failed" => o \notin done

\* One subject and idempotency key never has its effect applied twice, over
\* duplicates, lost answers and restarts.
AppliedOnce ==
    \A o, p \in done :
       (/\ operation[o].subject = operation[p].subject
        /\ operation[o].key = operation[p].key) => o = p

\* History is append-only and a settled outcome (succeeded or failed) is final.
SettledIsFinal ==
    [][\A o \in Operations : Recorded(o) =>
          /\ operation'[o] = operation[o]
          /\ IsPrefix(events[o], events'[o])
          /\ State(o) \in {"succeeded", "failed"} => events'[o] = events[o]]_journalVars
=============================================================================
