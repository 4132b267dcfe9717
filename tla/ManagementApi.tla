---------------------------- MODULE ManagementApi ----------------------------
(***************************************************************************)
(* The management HTTP service (src/crates/management-api/src/server.rs)   *)
(* over the journal: requests that change the target become blocking jobs, *)
(* which take turns at the one writer (the mutex around journal and        *)
(* dispatcher) and check their authority again once they hold it.          *)
(*                                                                         *)
(* A command that issues a credential is sent to deliver, which waits for  *)
(* the outcome; any other to submit, which answers as soon as the intent   *)
(* is durable.  A caller that leaves changes nothing: its job goes on, and *)
(* its answer is dropped.  Parsing, the Host and Origin checks and the     *)
(* read-only sessions are left out; what a request may do is decided by    *)
(* the time it is refused or not.                                          *)
(***************************************************************************)
EXTENDS ManagementJournal

CONSTANTS
    Jobs,         \* blocking tasks
    MaxJobs,      \* permits of the semaphore jobs
    Protected     \* requests whose command requires delivery

ASSUME ApiAssumption == Protected \subseteq Requests /\ MaxJobs \in Nat

VARIABLES
    job,          \* each task: where it is, the submission or the operation it is for
    closing,      \* admission is closed
    observation,  \* ExecutionObservation: the operation in execution, and one without a result
    secret,       \* the dispatcher's transient output: the operation that issued it
    acked,        \* history: operation identifiers that were answered, for which submission
    handed,       \* history: secrets in answers, in order
    late          \* history: operations accepted since admission was closed

callerVars == <<acked, handed>>
apiVars == <<job, closing, observation, secret, late>>
serviceVars == <<journalVars, apiVars, callerVars>>

IdleJob == [pc |-> "idle", row |-> None, op |-> None]
NoObservation == [active |-> None, unrecorded |-> None]

ApiInit ==
    /\ JournalInit
    /\ job = [j \in Jobs |-> IdleJob]
    /\ closing = FALSE
    /\ observation = NoObservation
    /\ secret = None
    /\ acked = {} /\ handed = <<>> /\ late = 0

Busy == {j \in Jobs : job[j].pc # "idle"}

\* The job that holds the mutex work, if any.
Held == \E j \in Jobs : job[j].pc \in {"locked", "executing"}

-----------------------------------------------------------------------------
(* A request becomes a job, and the job gets the writer.                   *)

\* submit and deliver up to spawn_blocking; without a permit the answer is management_busy.
Enter(j, row) ==
    /\ mode = "open" /\ j \notin Busy /\ Cardinality(Busy) < MaxJobs
    /\ job' = [job EXCEPT ![j] = [pc |-> "waiting", row |-> row, op |-> None]]
    /\ UNCHANGED <<journalVars, closing, observation, secret, late, callerVars>>

EnterReconcile(j, o) ==
    /\ mode = "open" /\ j \notin Busy /\ Cardinality(Busy) < MaxJobs
    /\ job' = [job EXCEPT ![j] = [pc |-> "waiting", row |-> None, op |-> o]]
    /\ UNCHANGED <<journalVars, closing, observation, secret, late, callerVars>>

\* Mutant of Lock: admission was checked before the job was queued.
LockUnchecked(j) ==
    /\ job[j].pc = "waiting" /\ ~Held
    /\ job' = [job EXCEPT ![j].pc = "locked"]
    /\ UNCHANGED <<journalVars, closing, observation, secret, late, callerVars>>

\* The mutex is taken; principal, authorize and supported agree.
Lock(j) ==
    /\ job[j].pc = "waiting" /\ ~Held
    /\ ~closing
    /\ job' = [job EXCEPT ![j].pc = "locked"]
    /\ UNCHANGED <<journalVars, closing, observation, secret, late, callerVars>>

\* Admission is closed, or the credential no longer has the grant.
Refuse(j) ==
    /\ job[j].pc = "waiting" /\ ~Held
    /\ job' = [job EXCEPT ![j] = IdleJob]
    /\ UNCHANGED <<journalVars, closing, observation, secret, late, callerVars>>

-----------------------------------------------------------------------------
(* execute has a result: the dispatcher's completed, the guard and the     *)
(* answer.                                                                 *)

\* Mutant of Consumed: the output is kept when there is no result.
ConsumedOnSuccess(ok) == IF ok THEN None ELSE secret

\* Adapters::completed takes the output whatever the result.
Consumed(ok) == None

\* ExecutionGuard: completed, or dropped with an operation still active.
Observed(ok) ==
    IF ok THEN NoObservation
    ELSE IF observation.active = None THEN observation
    ELSE [active |-> None, unrecorded |-> observation.active]

\* deliver answers with the secret of a succeeded operation, submit never does.
Delivers(j, o, state) == job[j].row.request \in Protected /\ secret # None /\ state = "succeeded"

\* The job ends with operation o in this state, and tells its caller.
Succeed(j, o, state) ==
    /\ job' = [job EXCEPT ![j] = IdleJob]
    /\ observation' = Observed(TRUE)
    /\ secret' = Consumed(TRUE)
    /\ acked' = acked \cup {[op |-> o, row |-> job[j].row]}
    /\ handed' = IF Delivers(j, o, state) THEN Append(handed, [op |-> o, secret |-> secret]) ELSE handed
    /\ UNCHANGED <<closing, late>>

\* The job ends with an error.
Fail(j) ==
    /\ job' = [job EXCEPT ![j] = IdleJob]
    /\ observation' = Observed(FALSE)
    /\ secret' = Consumed(FALSE)
    /\ UNCHANGED <<closing, late, callerVars>>

-----------------------------------------------------------------------------
(* execute                                                                 *)

Submitted(j, pc) == job[j].pc = pc /\ job[j].row # None

\* Mutant of SameIntent: the idempotency key alone identifies a submission.
SameIntentAny(j, o) ==
    Recorded(o) /\ operation[o].subject = job[j].row.subject /\ operation[o].key = job[j].row.key

\* lookup: subject, key and fingerprint.
SameIntent(j, o) == operation[o] = job[j].row

\* A known submission: interrupted work is settled first.
Replay(j, o) ==
    /\ Submitted(j, "locked") /\ SameIntent(j, o)
    /\ \/ Unsettled(o) /\ Settled(o)
       \/ ~Unsettled(o) /\ UNCHANGED events
    /\ Succeed(j, o, Last(events'[o]).state)
    /\ UNCHANGED <<operation, mode, exec, done>>

\* A reused key, a failed prepare, another state than expected, a row that cannot be written.
Reject(j) ==
    /\ Submitted(j, "locked")
    /\ Fail(j)
    /\ UNCHANGED journalVars

\* Prepared::accepted
Observing(o) == [active |-> o, unrecorded |-> None]

\* The intent is durable; submit answers now.  The output slot must be empty.
AcceptJob(j, o) ==
    LET row == job[j].row IN
    /\ Submitted(j, "locked")
    /\ row.request \in Protected => secret = None
    /\ Accept(o, row.subject, row.key, row.request)
    /\ job' = [job EXCEPT ![j].pc = "executing"]
    /\ observation' = Observing(o)
    /\ acked' = IF row.request \in Protected THEN acked ELSE acked \cup {[op |-> o, row |-> row]}
    /\ late' = IF closing THEN late + 1 ELSE late
    /\ UNCHANGED <<closing, secret, handed>>

BeginJob == Begin /\ UNCHANGED <<apiVars, callerVars>>

\* A command that issues a credential leaves it with the dispatcher when it has committed.
ApplyJob(e, happened) ==
    /\ Apply(e, happened)
    /\ secret' = IF operation[exec.op].request \in Protected /\ e = "applied" THEN exec.op ELSE secret
    /\ UNCHANGED <<job, closing, observation, late, callerVars>>

FinishJob(j) ==
    /\ Submitted(j, "executing")
    /\ Finish
    /\ Succeed(j, exec.op, EffectState(exec.effect))

\* The last row is written but cannot be read back.
FinishUnread(j) ==
    /\ Submitted(j, "executing")
    /\ Finish
    /\ Fail(j)

AppendFailsJob(j) ==
    /\ Submitted(j, "executing")
    /\ AppendFails
    /\ Fail(j)

-----------------------------------------------------------------------------
(* reconcile: the guard and the dispatcher's output are not involved.      *)

SettleJob(j) ==
    /\ job[j].pc = "locked" /\ job[j].op # None
    /\ Settle(job[j].op)
    /\ UNCHANGED <<apiVars, callerVars>>

ReconcileJob(j, e) ==
    /\ job[j].pc = "locked" /\ job[j].op # None
    /\ ~Unsettled(job[j].op)
    /\ Reconcile(job[j].op, e)
    /\ job' = [job EXCEPT ![j] = IdleJob]
    /\ UNCHANGED <<closing, observation, secret, late, callerVars>>

\* Not found, not uncertain, no evidence, or a row that cannot be written.
ReconcileFails(j) ==
    /\ job[j].pc = "locked" /\ job[j].op # None
    /\ job' = [job EXCEPT ![j] = IdleJob]
    /\ UNCHANGED <<journalVars, closing, observation, secret, late, callerVars>>

-----------------------------------------------------------------------------
(* The process.                                                            *)

CloseAdmission ==
    /\ mode = "open" /\ ~closing
    /\ closing' = TRUE
    /\ UNCHANGED <<journalVars, job, observation, secret, late, callerVars>>

Reopen ==
    /\ Open \/ Opened \/ \E o \in Operations : Recover(o)
    /\ UNCHANGED <<apiVars, callerVars>>

Exit ==
    /\ Crash
    /\ job' = [j \in Jobs |-> IdleJob]
    /\ closing' = FALSE
    /\ observation' = NoObservation
    /\ secret' = None
    /\ late' = 0
    /\ UNCHANGED callerVars

ApiNext ==
    \/ \E j \in Jobs, row \in Row : Enter(j, row)
    \/ \E j \in Jobs, o \in Operations : EnterReconcile(j, o) \/ Replay(j, o) \/ AcceptJob(j, o)
    \/ \E j \in Jobs : Lock(j) \/ Refuse(j) \/ Reject(j)
    \/ BeginJob
    \/ \E e \in Effects, happened \in BOOLEAN : ApplyJob(e, happened)
    \/ \E j \in Jobs : FinishJob(j) \/ FinishUnread(j) \/ AppendFailsJob(j)
    \/ \E j \in Jobs : SettleJob(j) \/ ReconcileFails(j)
    \/ \E j \in Jobs, e \in Effects : ReconcileJob(j, e)
    \/ CloseAdmission \/ Reopen \/ Exit

ApiSpec == ApiInit /\ [][ApiNext]_serviceVars

-----------------------------------------------------------------------------
(* Properties.                                                             *)

\* operation_view: what a query shows of a recorded operation.
ObservedState(o) ==
    IF observation.unrecorded = o /\ Unsettled(o) THEN "uncertain" ELSE State(o)

\* close_admission is final for what is queued: whatever was waiting for the writer, at most the
\* one job that held it is still accepted.
AdmissionCloses == late <= 1

\* An operation identifier a caller was given names its own submission, durably: also when the
\* worker fails right after, when a key is reused, and after restarts.
AcknowledgedIsRecorded == \A a \in acked : operation[a.op] = a.row

\* A credential is handed out at most once, by the answer to the operation that issued it and only
\* when that has succeeded; retries, failed writes and other jobs never see it.
SecretIsOwn ==
    /\ \A i \in DOMAIN handed :
          /\ handed[i].op = handed[i].secret
          /\ State(handed[i].op) = "succeeded"
          /\ \A k \in DOMAIN handed : handed[k].secret = handed[i].secret => k = i
    /\ secret # None => Held
=============================================================================
