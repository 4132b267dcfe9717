------------------------- MODULE ManagementApiProofs -------------------------
(***************************************************************************)
(* Proofs about the management HTTP service, for any number of jobs,       *)
(* operations, subjects, keys and requests.                                *)
(*                                                                         *)
(* The argument: the mutex leaves one job at the writer (OneWriter), and   *)
(* that job is executing exactly while the journal's executor is (Turns).  *)
(* So a replayed submission settles what nothing executes any more, every  *)
(* step of the service is a step of the journal, and the dispatcher's      *)
(* output slot is full only between apply and the answer of the job it is  *)
(* for (OutputIsFresh).                                                    *)
(***************************************************************************)
EXTENDS ManagementApi, ManagementJournalProofs

-----------------------------------------------------------------------------
(* The inductive invariant.                                                *)

\* Jobs, histories and counters have the types of server.rs.
ApiTypeOK ==
    /\ job \in [Jobs -> [pc : {"idle", "waiting", "locked", "executing"},
                         row : Row \cup {None}, op : Operations \cup {None}]]
    /\ closing \in BOOLEAN
    /\ secret \in Operations \cup {None}
    /\ acked \subseteq [op : Operations, row : Row]
    /\ handed \in Seq([op : Operations, secret : Operations])
    /\ late \in Nat

\* The mutex work.
OneWriter ==
    \A j, k \in Jobs :
       job[j].pc \in {"locked", "executing"} /\ job[k].pc \in {"locked", "executing"} => j = k

\* Jobs exist only in an open process, and the one that executes is the one
\* whose submission the executor runs.
Turns ==
    /\ \A j \in Jobs :
         /\ job[j].pc # "idle" => mode = "open"
         /\ job[j].pc = "locked" => exec.pc = "idle"
         /\ job[j].pc = "executing" => /\ exec.pc # "idle" /\ job[j].row # None
                                       /\ operation[exec.op] = job[j].row
    /\ exec.pc # "idle" => \E j \in Jobs : job[j].pc = "executing"

\* The output slot is full only while its own operation is applied and unrecorded.
OutputIsFresh ==
    secret # None => exec.pc = "applied" /\ exec.effect = "applied" /\ secret = exec.op

\* Secrets that were handed out belong to succeeded operations, each once.
HandedOnce ==
    \A i \in DOMAIN handed :
       /\ handed[i].op = handed[i].secret
       /\ Recorded(handed[i].op) /\ State(handed[i].op) = "succeeded"
       /\ \A k \in DOMAIN handed : handed[k].secret = handed[i].secret => k = i

\* After close_admission nothing gets the writer, so what was counted late is the
\* job that had it.
LateOnes ==
    /\ ~closing => late = 0
    /\ late <= 1
    /\ late = 1 => \A j \in Jobs : job[j].pc # "locked"

ApiInv ==
    /\ JournalInv /\ ApiTypeOK /\ OneWriter /\ Turns /\ OutputIsFresh /\ HandedOnce /\ LateOnes
    /\ AcknowledgedIsRecorded

-----------------------------------------------------------------------------
(* The service is a user of the journal.                                   *)

\* Every step of the service is a step of the journal or leaves it alone.
LEMMA ApiStepIsJournalStep ==
  ASSUME ApiInv, [ApiNext]_serviceVars
  PROVE  [JournalNext]_journalVars
<1>1. ASSUME NEW j \in Jobs, NEW row \in Row, Enter(j, row) PROVE UNCHANGED journalVars
  BY <1>1 DEF Enter
<1>2. ASSUME NEW j \in Jobs, NEW o \in Operations, EnterReconcile(j, o) PROVE UNCHANGED journalVars
  BY <1>2 DEF EnterReconcile
<1>3. ASSUME NEW j \in Jobs, NEW o \in Operations, Replay(j, o) PROVE [JournalNext]_journalVars
  <2>1. job[j].pc = "locked" /\ UNCHANGED <<operation, mode, exec, done>>
        /\ (Settled(o) \/ UNCHANGED events)
    BY <1>3 DEF Replay, Submitted
  <2>2. mode = "open" /\ exec.pc = "idle"
    BY <2>1 DEF ApiInv, Turns
  <2>3. Settle(o) \/ UNCHANGED journalVars
    BY <2>1, <2>2 DEF Settle, journalVars
  <2> QED
    BY <2>3 DEF JournalNext
<1>4. ASSUME NEW j \in Jobs, NEW o \in Operations, AcceptJob(j, o) PROVE JournalNext
  <2> DEFINE row == job[j].row
  <2>1. Accept(o, row.subject, row.key, row.request) /\ row # None
    BY <1>4 DEF AcceptJob, Submitted
  <2>2. row \in Row
    BY <2>1 DEF ApiInv, ApiTypeOK
  <2>3. row.subject \in Subjects /\ row.key \in Keys /\ row.request \in Requests
    BY <2>2 DEF Row
  <2> QED
    BY <2>1, <2>3 DEF JournalNext
<1>5. ASSUME NEW j \in Jobs, Lock(j) \/ Refuse(j) \/ Reject(j) \/ ReconcileFails(j)
      PROVE UNCHANGED journalVars
  BY <1>5 DEF Lock, Refuse, Reject, ReconcileFails
<1>6. CASE BeginJob
  BY <1>6 DEF BeginJob, JournalNext
<1>7. ASSUME NEW e \in Effects, NEW happened \in BOOLEAN, ApplyJob(e, happened) PROVE JournalNext
  BY <1>7 DEF ApplyJob, JournalNext
<1>8. ASSUME NEW j \in Jobs, FinishJob(j) \/ FinishUnread(j) \/ AppendFailsJob(j) PROVE JournalNext
  BY <1>8 DEF FinishJob, FinishUnread, AppendFailsJob, JournalNext
<1>9. ASSUME NEW j \in Jobs, SettleJob(j) PROVE JournalNext
  <2>1. Settle(job[j].op) /\ job[j].op \in Operations
    BY <1>9 DEF SettleJob, ApiInv, ApiTypeOK
  <2> QED
    BY <2>1 DEF JournalNext
<1>10. ASSUME NEW j \in Jobs, NEW e \in Effects, ReconcileJob(j, e) PROVE JournalNext
  <2>1. Reconcile(job[j].op, e) /\ job[j].op \in Operations
    BY <1>10 DEF ReconcileJob, ApiInv, ApiTypeOK
  <2> QED
    BY <2>1 DEF JournalNext
<1>11. CASE CloseAdmission \/ UNCHANGED serviceVars
  BY <1>11 DEF CloseAdmission, serviceVars
<1>12. CASE Reopen \/ Exit
  BY <1>12 DEF Reopen, Exit, JournalNext
<1> QED
  BY <1>1, <1>2, <1>3, <1>4, <1>5, <1>6, <1>7, <1>8, <1>9, <1>10, <1>11, <1>12 DEF ApiNext

\* What callers were told stays true over any step of the journal.
LEMMA ToldStaysTrue ==
  ASSUME ApiInv, [JournalNext]_journalVars
  PROVE  /\ \A a \in acked : operation'[a.op] = a.row
         /\ \A i \in DOMAIN handed : /\ operation'[handed[i].op] # None
                                     /\ Last(events'[handed[i].op]).state = "succeeded"
         /\ handed' = handed => HandedOnce'
         /\ acked' = acked => AcknowledgedIsRecorded'
<1> USE DEF ApiInv
<1>1. \A o \in Operations : Recorded(o) =>
         /\ operation'[o] = operation[o]
         /\ State(o) = "succeeded" => Last(events'[o]).state = "succeeded"
  BY JournalStepKeeps
<1>2. \A a \in acked : a.op \in Operations /\ a.row # None
  BY JournalAssumption DEF ApiTypeOK, Row
<1>3. \A a \in acked : operation'[a.op] = a.row
  BY <1>1, <1>2 DEF AcknowledgedIsRecorded, Recorded
<1>4. \A i \in DOMAIN handed : handed[i].op \in Operations
  <2> DEFINE Answer == [op : Operations, secret : Operations]
  <2>1. handed \in Seq(Answer) /\ \A x \in Answer : x.op \in Operations
    BY DEF ApiTypeOK
  <2> HIDE DEF Answer
  <2>2. \A i \in DOMAIN handed : handed[i] \in Answer
    BY <2>1
  <2> QED
    BY <2>1, <2>2
<1>5. \A i \in DOMAIN handed : /\ operation'[handed[i].op] # None
                               /\ Last(events'[handed[i].op]).state = "succeeded"
  BY <1>1, <1>4 DEF HandedOnce, Recorded
<1>6. handed' = handed => HandedOnce'
  BY <1>5 DEF HandedOnce, Recorded, State
<1>7. acked' = acked => AcknowledgedIsRecorded'
  BY <1>3 DEF AcknowledgedIsRecorded
<1> QED
  BY <1>3, <1>5, <1>6, <1>7

-----------------------------------------------------------------------------
(* Preservation, one step per action.                                      *)

\* The service starts with a closed journal and no jobs.
LEMMA ApiInvInit == ApiInit => ApiInv
<1> SUFFICES ASSUME ApiInit PROVE ApiInv
  OBVIOUS
<1>1. JournalInv
  BY JournalInvInit DEF ApiInit
<1>2. IdleJob \in [pc : {"idle", "waiting", "locked", "executing"},
                   row : Row \cup {None}, op : Operations \cup {None}] /\ IdleJob.pc = "idle"
  BY DEF IdleJob
<1>3. ApiTypeOK
  <2>1. job \in [Jobs -> [pc : {"idle", "waiting", "locked", "executing"},
                          row : Row \cup {None}, op : Operations \cup {None}]]
    BY <1>2 DEF ApiInit
  <2>2. handed \in Seq([op : Operations, secret : Operations])
    BY DEF ApiInit
  <2>3. /\ closing \in BOOLEAN /\ secret \in Operations \cup {None}
        /\ acked \subseteq [op : Operations, row : Row] /\ late \in Nat
    BY DEF ApiInit
  <2> QED
    BY <2>1, <2>2, <2>3 DEF ApiTypeOK
<1>4. OneWriter /\ Turns /\ OutputIsFresh /\ LateOnes
  BY <1>2 DEF ApiInit, JournalInit, IdleExec, OneWriter, Turns, OutputIsFresh, LateOnes
<1>5. HandedOnce /\ AcknowledgedIsRecorded
  BY DEF ApiInit, HandedOnce, AcknowledgedIsRecorded
<1> QED
  BY <1>1, <1>3, <1>4, <1>5 DEF ApiInv

\* A job that is no longer at the writer, or waits for it, disturbs nothing.
LEMMA JobLeaves ==
  ASSUME ApiInv, JournalInv', [JournalNext]_journalVars, NEW j \in Jobs,
         NEW x \in [pc : {"idle", "waiting"}, row : Row \cup {None}, op : Operations \cup {None}],
         job' = [job EXCEPT ![j] = x], x.pc # "idle" => mode = "open",
         job[j].pc # "executing", UNCHANGED <<mode, exec, closing, late>>,
         secret' = secret \/ secret' = None,
         exec.pc # "idle" => operation'[exec.op] = operation[exec.op]
  PROVE  /\ job' \in [Jobs -> [pc : {"idle", "waiting", "locked", "executing"},
                               row : Row \cup {None}, op : Operations \cup {None}]]
         /\ OneWriter' /\ Turns' /\ OutputIsFresh' /\ LateOnes'
<1> USE DEF ApiInv
<1>1. /\ job'[j] = x /\ \A k \in Jobs \ {j} : job'[k] = job[k]
      /\ x.pc \notin {"locked", "executing"}
  BY DEF ApiTypeOK
<1>2. job' \in [Jobs -> [pc : {"idle", "waiting", "locked", "executing"},
                         row : Row \cup {None}, op : Operations \cup {None}]]
  BY DEF ApiTypeOK
<1>3. OneWriter'
  BY <1>1 DEF OneWriter
<1>4. Turns'
  <2>1. ASSUME NEW k \in Jobs
        PROVE  /\ job'[k].pc # "idle" => mode' = "open"
               /\ job'[k].pc = "locked" => exec'.pc = "idle"
               /\ job'[k].pc = "executing" => /\ exec'.pc # "idle" /\ job'[k].row # None
                                              /\ operation'[exec'.op] = job'[k].row
    BY <1>1 DEF Turns
  <2>2. exec.pc # "idle" => \E k \in Jobs \ {j} : job[k].pc = "executing"
    BY DEF Turns
  <2>3. exec'.pc # "idle" => \E k \in Jobs : job'[k].pc = "executing"
    BY <1>1, <2>2
  <2> QED
    BY <2>1, <2>3 DEF Turns
<1>5. OutputIsFresh'
  BY DEF OutputIsFresh
<1>6. LateOnes'
  BY <1>1 DEF LateOnes
<1> QED
  BY <1>2, <1>3, <1>4, <1>5, <1>6

\* The job that executed is done: nothing holds the writer any more.
LEMMA ExecutorLeaves ==
  ASSUME ApiInv, NEW j \in Jobs, job[j].pc = "executing", job' = [job EXCEPT ![j] = IdleJob],
         UNCHANGED <<mode, closing, late>>, exec' = IdleExec, secret' = None
  PROVE  /\ job' \in [Jobs -> [pc : {"idle", "waiting", "locked", "executing"},
                               row : Row \cup {None}, op : Operations \cup {None}]]
         /\ OneWriter' /\ Turns' /\ OutputIsFresh' /\ LateOnes'
<1> USE DEF ApiInv
<1>1. IdleJob \in [pc : {"idle", "waiting", "locked", "executing"},
                   row : Row \cup {None}, op : Operations \cup {None}] /\ IdleJob.pc = "idle"
  BY DEF IdleJob
<1>2. job'[j] = IdleJob /\ \A k \in Jobs \ {j} : job'[k] = job[k]
  BY DEF ApiTypeOK
<1>3. \A k \in Jobs : job'[k].pc \notin {"locked", "executing"}
  BY <1>1, <1>2 DEF OneWriter
<1>4. job' \in [Jobs -> [pc : {"idle", "waiting", "locked", "executing"},
                         row : Row \cup {None}, op : Operations \cup {None}]]
  BY <1>1 DEF ApiTypeOK
<1>5. OneWriter' /\ OutputIsFresh'
  BY <1>3 DEF OneWriter, OutputIsFresh
<1>6. Turns'
  BY <1>1, <1>2, <1>3 DEF Turns, IdleExec
<1>7. LateOnes'
  BY <1>3 DEF LateOnes
<1> QED
  BY <1>4, <1>5, <1>6, <1>7

\* The journal moves while no job starts, ends or takes its turn.
LEMMA JobsStay ==
  ASSUME ApiInv, UNCHANGED <<job, mode, closing, late>>,
         exec' = exec \/ (exec.pc # "idle" /\ exec'.pc # "idle" /\ exec'.op = exec.op),
         exec.pc # "idle" => operation'[exec.op] = operation[exec.op]
  PROVE  /\ job' \in [Jobs -> [pc : {"idle", "waiting", "locked", "executing"},
                               row : Row \cup {None}, op : Operations \cup {None}]]
         /\ OneWriter' /\ Turns' /\ LateOnes'
<1> USE DEF ApiInv
<1>1. job' \in [Jobs -> [pc : {"idle", "waiting", "locked", "executing"},
                         row : Row \cup {None}, op : Operations \cup {None}]]
  BY DEF ApiTypeOK
<1>2. OneWriter' /\ LateOnes'
  BY DEF OneWriter, LateOnes
<1>3. Turns'
  BY DEF Turns
<1> QED
  BY <1>1, <1>2, <1>3

\* accept: the job that holds the writer executes.
LEMMA AcceptKeepsTurns ==
  ASSUME ApiInv, NEW j \in Jobs, NEW o \in Operations, AcceptJob(j, o)
  PROVE  /\ job' \in [Jobs -> [pc : {"idle", "waiting", "locked", "executing"},
                               row : Row \cup {None}, op : Operations \cup {None}]]
         /\ OneWriter' /\ Turns' /\ OutputIsFresh' /\ LateOnes' /\ late' \in Nat
         /\ operation'[o] = job[j].row /\ job[j].row \in Row
<1> USE DEF ApiInv
<1> DEFINE row == job[j].row
<1>1. /\ job[j].pc = "locked" /\ row # None /\ Accept(o, row.subject, row.key, row.request)
      /\ job' = [job EXCEPT ![j].pc = "executing"] /\ UNCHANGED <<closing, secret>>
      /\ late' = IF closing THEN late + 1 ELSE late
  BY DEF AcceptJob, Submitted
<1>2. row \in Row
  BY <1>1 DEF ApiTypeOK
<1>3. row = [subject |-> row.subject, key |-> row.key, request |-> row.request]
  BY <1>2 DEF Row
<1>4. operation'[o] = row
  BY <1>1, <1>3 DEF Accept, JournalInv, JournalTypeOK
<1>5. exec.pc = "idle" /\ mode' = "open" /\ exec'.pc = "accepted" /\ exec'.op = o
  BY <1>1 DEF Accept
<1>6. /\ job'[j].pc = "executing" /\ job'[j].row = row
      /\ \A k \in Jobs \ {j} : job'[k] = job[k] /\ job[k].pc \notin {"locked", "executing"}
  BY <1>1 DEF ApiTypeOK, OneWriter
<1>7. job' \in [Jobs -> [pc : {"idle", "waiting", "locked", "executing"},
                         row : Row \cup {None}, op : Operations \cup {None}]]
  BY <1>1 DEF ApiTypeOK
<1>8. OneWriter'
  BY <1>6 DEF OneWriter
<1>9. Turns'
  BY <1>1, <1>4, <1>5, <1>6 DEF Turns
<1>10. OutputIsFresh'
  BY <1>1, <1>5 DEF OutputIsFresh
<1>11. late \in Nat /\ late = 0
  BY <1>1 DEF LateOnes, ApiTypeOK
<1>12. LateOnes' /\ late' \in Nat
  BY <1>1, <1>6, <1>11 DEF LateOnes, ApiTypeOK
<1> QED
  BY <1>2, <1>4, <1>7, <1>8, <1>9, <1>10, <1>12

\* The answer to a finished operation: its identifier, and its own secret once.
LEMMA AnswerIsOwn ==
  ASSUME ApiInv, NEW j \in Jobs, FinishJob(j), [JournalNext]_journalVars
  PROVE  /\ HandedOnce' /\ AcknowledgedIsRecorded'
         /\ acked' \subseteq [op : Operations, row : Row]
         /\ handed' \in Seq([op : Operations, secret : Operations])
<1> USE DEF ApiInv
<1> DEFINE o == exec.op
           answer == [op |-> o, secret |-> secret]
<1>1. /\ job[j].pc = "executing" /\ Finish
      /\ acked' = acked \cup {[op |-> o, row |-> job[j].row]}
      /\ handed' = handed \/ (handed' = Append(handed, answer)
                              /\ secret # None /\ EffectState(exec.effect) = "succeeded")
  BY DEF FinishJob, Succeed, Submitted, Delivers
<1>2. /\ exec.pc = "applied" /\ o \in Operations /\ Recorded(o) /\ State(o) = "running"
      /\ exec.effect \in Effects
  BY <1>1 DEF Finish, JournalInv, JournalTypeOK, Whereabouts
<1>3. job[j].row \in Row /\ operation[o] = job[j].row
  BY <1>1 DEF Turns, ApiTypeOK
<1>4. operation'[o] = job[j].row
  BY <1>1, <1>3 DEF Finish
<1>5. AcknowledgedIsRecorded'
  BY <1>1, <1>4, ToldStaysTrue DEF AcknowledgedIsRecorded
<1>6. acked' \subseteq [op : Operations, row : Row]
  BY <1>1, <1>2, <1>3 DEF ApiTypeOK
<1>7. CASE handed' = handed
  BY <1>5, <1>6, <1>7, ToldStaysTrue DEF ApiTypeOK
<1>8. CASE /\ handed' = Append(handed, answer)
           /\ secret # None /\ EffectState(exec.effect) = "succeeded"
  <2>1. secret = o /\ answer.op = o /\ answer.secret = o
    BY <1>8 DEF OutputIsFresh
  <2>2. handed \in Seq([op : Operations, secret : Operations])
        /\ answer \in [op : Operations, secret : Operations]
    BY <1>2, <2>1 DEF ApiTypeOK
  <2> HIDE DEF answer
  <2>3. /\ handed' \in Seq([op : Operations, secret : Operations])
        /\ Len(handed) \in Nat /\ DOMAIN handed = 1..Len(handed)
        /\ DOMAIN handed' = 1..(Len(handed) + 1)
        /\ handed'[Len(handed) + 1] = answer
        /\ \A i \in 1..Len(handed) : handed'[i] = handed[i]
    BY <1>8, <2>2
  <2>4. \A i \in 1..Len(handed) : handed[i].secret # o
    BY <1>2, <2>3 DEF HandedOnce
  <2>5. Last(events'[o]).state = "succeeded" /\ operation'[o] # None
    <3>1. AppendEvent(o, "finished", "succeeded", exec.effect) /\ operation' = operation
      BY <1>1, <1>8 DEF Finish
    <3>2. "finished" \in Phases /\ "succeeded" \in States
      BY DEF Phases, States
    <3> QED
      BY <1>2, <3>1, <3>2, AppendEventEffect DEF JournalInv, Recorded
  <2>6. ASSUME NEW i \in DOMAIN handed'
        PROVE  /\ handed'[i].op = handed'[i].secret
               /\ operation'[handed'[i].op] # None
               /\ Last(events'[handed'[i].op]).state = "succeeded"
    <3>1. CASE i \in 1..Len(handed)
      BY <2>3, <3>1, ToldStaysTrue DEF HandedOnce
    <3>2. CASE i = Len(handed) + 1
      BY <2>1, <2>3, <2>5, <3>2
    <3> QED
      BY <2>3, <3>1, <3>2
  <2>7. ASSUME NEW i \in DOMAIN handed', NEW k \in DOMAIN handed',
               handed'[k].secret = handed'[i].secret
        PROVE  k = i
    <3>1. CASE i \in 1..Len(handed) /\ k \in 1..Len(handed)
      BY <2>3, <2>7, <3>1 DEF HandedOnce
    <3>2. CASE i = Len(handed) + 1 \/ k = Len(handed) + 1
      BY <2>1, <2>3, <2>4, <2>7, <3>2
    <3> QED
      BY <2>3, <3>1, <3>2
  <2>8. HandedOnce'
    BY <2>6, <2>7 DEF HandedOnce, Recorded, State
  <2> QED
    BY <1>5, <1>6, <2>3, <2>8
<1> QED
  BY <1>1, <1>7, <1>8

\* Every step of the service keeps the invariant.
LEMMA ApiInvStep == ApiInv /\ [ApiNext]_serviceVars => ApiInv'
<1> SUFFICES ASSUME ApiInv, [ApiNext]_serviceVars PROVE ApiInv'
  OBVIOUS
<1> USE DEF ApiInv
<1> DEFINE JobType == [pc : {"idle", "waiting", "locked", "executing"},
                       row : Row \cup {None}, op : Operations \cup {None}]
           Leaving == [pc : {"idle", "waiting"}, row : Row \cup {None}, op : Operations \cup {None}]
<1>j. [JournalNext]_journalVars
  BY ApiStepIsJournalStep
<1>i. JournalInv'
  BY <1>j, JournalInvStep
<1>t. /\ handed' = handed => HandedOnce'
      /\ acked' = acked => AcknowledgedIsRecorded'
      /\ \A a \in acked : operation'[a.op] = a.row
  BY <1>j, ToldStaysTrue
<1>l. IdleJob \in Leaving /\ IdleJob \in JobType /\ IdleJob.pc = "idle"
  BY DEF IdleJob
<1>c. ASSUME job' \in [Jobs -> JobType], OneWriter', Turns', OutputIsFresh', LateOnes',
             UNCHANGED <<acked, handed, late>>,
             closing' \in BOOLEAN, secret' \in Operations \cup {None}
      PROVE  ApiInv'
  <2>1. ApiTypeOK'
    BY <1>c DEF ApiTypeOK
  <2> QED
    BY <1>c, <1>i, <1>t, <2>1
<1>k. exec' = exec => (exec.pc # "idle" => operation'[exec.op] = operation[exec.op])
  BY <1>j, JournalStepKeeps DEF JournalInv, Whereabouts
<1>1. ASSUME NEW j \in Jobs, NEW row \in Row, Enter(j, row) PROVE ApiInv'
  <2> DEFINE x == [pc |-> "waiting", row |-> row, op |-> None]
  <2>1. /\ job' = [job EXCEPT ![j] = x] /\ job[j].pc # "executing" /\ mode = "open"
        /\ UNCHANGED <<mode, exec, closing, late, secret, acked, handed>> /\ x \in Leaving
    BY <1>1 DEF Enter, Busy, journalVars, callerVars
  <2> HIDE DEF x
  <2>2. job' \in [Jobs -> JobType] /\ OneWriter' /\ Turns' /\ OutputIsFresh' /\ LateOnes'
    BY <1>i, <1>j, <1>k, <2>1, JobLeaves
  <2> QED
    BY <1>c, <2>1, <2>2 DEF ApiTypeOK
<1>2. ASSUME NEW j \in Jobs, NEW o \in Operations, EnterReconcile(j, o) PROVE ApiInv'
  <2> DEFINE x == [pc |-> "waiting", row |-> None, op |-> o]
  <2>1. /\ job' = [job EXCEPT ![j] = x] /\ job[j].pc # "executing" /\ mode = "open"
        /\ UNCHANGED <<mode, exec, closing, late, secret, acked, handed>> /\ x \in Leaving
    BY <1>2 DEF EnterReconcile, Busy, journalVars, callerVars
  <2> HIDE DEF x
  <2>2. job' \in [Jobs -> JobType] /\ OneWriter' /\ Turns' /\ OutputIsFresh' /\ LateOnes'
    BY <1>i, <1>j, <1>k, <2>1, JobLeaves
  <2> QED
    BY <1>c, <2>1, <2>2 DEF ApiTypeOK
<1>3. ASSUME NEW j \in Jobs, NEW o \in Operations, Replay(j, o) PROVE ApiInv'
  <2>1. /\ job[j].pc = "locked" /\ operation[o] = job[j].row /\ job[j].row # None
        /\ UNCHANGED <<operation, mode, exec, closing, late>>
        /\ job' = [job EXCEPT ![j] = IdleJob] /\ secret' = None
        /\ acked' = acked \cup {[op |-> o, row |-> job[j].row]}
        /\ secret = None => handed' = handed
    BY <1>3 DEF Replay, Submitted, SameIntent, Succeed, Consumed, Delivers
  <2>2. secret = None
    BY <2>1 DEF Turns, OutputIsFresh
  <2>3. job' \in [Jobs -> JobType] /\ OneWriter' /\ Turns' /\ OutputIsFresh' /\ LateOnes'
    BY <1>i, <1>j, <1>k, <1>l, <2>1, JobLeaves
  <2>4. job[j].row \in Row
    BY <2>1 DEF ApiTypeOK
  <2>5. acked' \subseteq [op : Operations, row : Row]
    BY <2>1, <2>4 DEF ApiTypeOK
  <2>6. AcknowledgedIsRecorded'
    BY <1>t, <2>1 DEF AcknowledgedIsRecorded
  <2>7. ApiTypeOK'
    BY <2>1, <2>2, <2>3, <2>5 DEF ApiTypeOK
  <2> QED
    BY <1>i, <1>t, <2>1, <2>2, <2>3, <2>6, <2>7
<1>4. ASSUME NEW j \in Jobs, NEW o \in Operations, AcceptJob(j, o) PROVE ApiInv'
  <2>1. /\ UNCHANGED <<closing, secret, handed>>
        /\ acked' = acked \/ acked' = acked \cup {[op |-> o, row |-> job[j].row]}
    BY <1>4 DEF AcceptJob
  <2>2. /\ job' \in [Jobs -> JobType]
        /\ OneWriter' /\ Turns' /\ OutputIsFresh' /\ LateOnes' /\ late' \in Nat
        /\ operation'[o] = job[j].row /\ job[j].row \in Row
    BY <1>4, AcceptKeepsTurns
  <2>3. AcknowledgedIsRecorded'
    BY <1>t, <2>1, <2>2 DEF AcknowledgedIsRecorded
  <2>4. acked' \subseteq [op : Operations, row : Row]
    BY <2>1, <2>2 DEF ApiTypeOK
  <2>5. ApiTypeOK'
    BY <2>1, <2>2, <2>4 DEF ApiTypeOK
  <2> QED
    BY <1>i, <1>t, <2>1, <2>2, <2>3, <2>5
<1>5. ASSUME NEW j \in Jobs, Lock(j) PROVE ApiInv'
  <2>1. /\ job[j].pc = "waiting" /\ job' = [job EXCEPT ![j].pc = "locked"]
        /\ \A k \in Jobs : job[k].pc \notin {"locked", "executing"}
        /\ closing = FALSE
        /\ UNCHANGED <<mode, exec, operation, closing, late, secret, acked, handed>>
    BY <1>5 DEF Lock, Held, journalVars, callerVars
  <2>2. exec.pc = "idle" /\ late = 0
    BY <2>1 DEF Turns, LateOnes
  <2>3. job'[j].pc = "locked" /\ \A k \in Jobs \ {j} : job'[k] = job[k]
    BY <2>1 DEF ApiTypeOK
  <2>4. job' \in [Jobs -> JobType]
    BY <2>1 DEF ApiTypeOK
  <2>5. OneWriter' /\ OutputIsFresh' /\ LateOnes'
    BY <2>1, <2>2, <2>3 DEF OneWriter, OutputIsFresh, LateOnes
  <2>6. Turns'
    BY <2>1, <2>2, <2>3 DEF Turns
  <2> QED
    BY <1>c, <2>1, <2>4, <2>5, <2>6 DEF ApiTypeOK
<1>6. ASSUME NEW j \in Jobs, Refuse(j) \/ Reject(j) \/ ReconcileFails(j) \/ \E e \in Effects : ReconcileJob(j, e)
      PROVE ApiInv'
  <2>1. /\ job' = [job EXCEPT ![j] = IdleJob] /\ job[j].pc # "executing"
        /\ secret' = secret \/ secret' = None
        /\ UNCHANGED <<mode, exec, closing, late, acked, handed>>
    BY <1>6 DEF Refuse, Reject, ReconcileFails, ReconcileJob, Reconcile, Reconciled, Submitted, Fail,
                Consumed, journalVars, callerVars
  <2>2. job' \in [Jobs -> JobType] /\ OneWriter' /\ Turns' /\ OutputIsFresh' /\ LateOnes'
    BY <1>i, <1>j, <1>k, <1>l, <2>1, JobLeaves
  <2> QED
    BY <1>c, <2>1, <2>2 DEF ApiTypeOK
<1>7. ASSUME BeginJob \/ \E e \in Effects, happened \in BOOLEAN : ApplyJob(e, happened) PROVE ApiInv'
  <2>1. /\ UNCHANGED <<job, mode, closing, late, operation, acked, handed>>
        /\ exec.pc \in {"accepted", "started"} /\ exec'.pc \in {"started", "applied"}
        /\ exec'.op = exec.op
    BY <1>7 DEF BeginJob, Begin, ApplyJob, Apply, Returned, apiVars, callerVars, JournalInv, JournalTypeOK
  <2>2. job' \in [Jobs -> JobType] /\ OneWriter' /\ Turns' /\ LateOnes'
    BY <2>1, JobsStay
  <2>3. secret = None /\ exec.op \in Operations
    BY <2>1 DEF OutputIsFresh, JournalInv, Whereabouts
  <2>4. OutputIsFresh' /\ secret' \in Operations \cup {None}
    <3>1. CASE BeginJob
      BY <2>3, <3>1 DEF BeginJob, apiVars, OutputIsFresh
    <3>2. ASSUME NEW e \in Effects, NEW happened \in BOOLEAN, ApplyJob(e, happened)
          PROVE  OutputIsFresh' /\ secret' \in Operations \cup {None}
      <4>1. /\ exec'.pc = "applied" /\ exec'.effect = e /\ exec'.op = exec.op
            /\ secret' = None \/ (secret' = exec.op /\ e = "applied")
        BY <2>3, <3>2 DEF ApplyJob, Apply, Returned, JournalInv, JournalTypeOK
      <4> QED
        BY <2>3, <4>1 DEF OutputIsFresh
    <3> QED
      BY <1>7, <3>1, <3>2
  <2> QED
    BY <1>c, <2>1, <2>2, <2>4 DEF ApiTypeOK
<1>8. ASSUME NEW j \in Jobs, FinishUnread(j) \/ AppendFailsJob(j) PROVE ApiInv'
  <2>1. /\ job[j].pc = "executing" /\ job' = [job EXCEPT ![j] = IdleJob]
        /\ UNCHANGED <<mode, closing, late, acked, handed>> /\ exec' = IdleExec /\ secret' = None
    BY <1>8 DEF FinishUnread, AppendFailsJob, Submitted, Finish, AppendFails, Fail, Consumed, callerVars
  <2>2. job' \in [Jobs -> JobType] /\ OneWriter' /\ Turns' /\ OutputIsFresh' /\ LateOnes'
    BY <2>1, ExecutorLeaves
  <2> QED
    BY <1>c, <2>1, <2>2 DEF ApiTypeOK
<1>9. ASSUME NEW j \in Jobs, FinishJob(j) PROVE ApiInv'
  <2>1. /\ job[j].pc = "executing" /\ job' = [job EXCEPT ![j] = IdleJob]
        /\ UNCHANGED <<mode, closing, late>> /\ exec' = IdleExec /\ secret' = None
    BY <1>9 DEF FinishJob, Submitted, Finish, Succeed, Consumed
  <2>2. job' \in [Jobs -> JobType] /\ OneWriter' /\ Turns' /\ OutputIsFresh' /\ LateOnes'
    BY <2>1, ExecutorLeaves
  <2>3. /\ HandedOnce' /\ AcknowledgedIsRecorded'
        /\ acked' \subseteq [op : Operations, row : Row]
        /\ handed' \in Seq([op : Operations, secret : Operations])
    BY <1>9, <1>j, AnswerIsOwn
  <2>4. ApiTypeOK'
    BY <2>1, <2>2, <2>3 DEF ApiTypeOK
  <2> QED
    BY <1>i, <2>2, <2>3, <2>4
<1>10. ASSUME NEW j \in Jobs, SettleJob(j) PROVE ApiInv'
  <2>1. UNCHANGED <<job, mode, closing, late, operation, acked, handed, exec, secret>>
    BY <1>10 DEF SettleJob, Settle, apiVars, callerVars
  <2>2. job' \in [Jobs -> JobType] /\ OneWriter' /\ Turns' /\ LateOnes'
    BY <2>1, JobsStay
  <2>3. OutputIsFresh'
    BY <2>1 DEF OutputIsFresh
  <2> QED
    BY <1>c, <2>1, <2>2, <2>3 DEF ApiTypeOK
<1>11. CASE CloseAdmission
  <2>1. /\ UNCHANGED <<job, mode, late, operation, acked, handed, exec, secret>>
        /\ closing = FALSE /\ closing' = TRUE
    BY <1>11 DEF CloseAdmission, journalVars, callerVars, ApiTypeOK
  <2>2. job' \in [Jobs -> JobType] /\ OneWriter' /\ Turns' /\ OutputIsFresh'
    BY <2>1 DEF ApiTypeOK, OneWriter, Turns, OutputIsFresh
  <2>3. LateOnes'
    BY <2>1 DEF LateOnes
  <2> QED
    BY <1>c, <2>1, <2>2, <2>3 DEF ApiTypeOK
<1>12. CASE Reopen
  <2>1. /\ UNCHANGED <<job, closing, late, operation, acked, handed, exec, secret>>
        /\ mode # "open"
    BY <1>12 DEF Reopen, Open, Opened, Recover, apiVars, callerVars
  <2>2. \A j \in Jobs : job[j].pc = "idle"
    BY <2>1 DEF Turns
  <2>3. job' \in [Jobs -> JobType] /\ OneWriter' /\ OutputIsFresh' /\ LateOnes'
    BY <2>1 DEF ApiTypeOK, OneWriter, OutputIsFresh, LateOnes
  <2>4. Turns'
    BY <2>1, <2>2 DEF Turns
  <2> QED
    BY <1>c, <2>1, <2>3, <2>4 DEF ApiTypeOK
<1>13. CASE Exit
  <2>1. /\ job' = [j \in Jobs |-> IdleJob] /\ closing' = FALSE /\ secret' = None /\ late' = 0
        /\ UNCHANGED <<acked, handed>> /\ exec'.pc = "idle"
    BY <1>13 DEF Exit, Crash, IdleExec, callerVars
  <2>2. \A j \in Jobs : job'[j].pc = "idle"
    BY <1>l, <2>1
  <2>3. job' \in [Jobs -> JobType]
    BY <1>l, <2>1
  <2>4. OneWriter' /\ Turns' /\ OutputIsFresh' /\ LateOnes'
    BY <2>1, <2>2 DEF OneWriter, Turns, OutputIsFresh, LateOnes
  <2>5. ApiTypeOK'
    BY <2>1, <2>3 DEF ApiTypeOK
  <2> QED
    BY <1>i, <1>t, <2>1, <2>4, <2>5
<1>14. CASE UNCHANGED serviceVars
  <2>1. UNCHANGED <<job, mode, closing, late, operation, acked, handed, exec, secret>>
    BY <1>14 DEF serviceVars, journalVars, apiVars, callerVars
  <2>2. job' \in [Jobs -> JobType] /\ OneWriter' /\ Turns' /\ LateOnes'
    BY <2>1, JobsStay
  <2>3. OutputIsFresh'
    BY <2>1 DEF OutputIsFresh
  <2> QED
    BY <1>c, <2>1, <2>2, <2>3 DEF ApiTypeOK
<1> QED
  BY <1>1, <1>2, <1>3, <1>4, <1>5, <1>6, <1>7, <1>8, <1>9, <1>10, <1>11, <1>12, <1>13, <1>14
  DEF ApiNext

\* The invariant of the service.
LEMMA ApiInvariant == ApiSpec => []ApiInv
  BY ApiInvInit, ApiInvStep, PTL DEF ApiSpec

-----------------------------------------------------------------------------
(* What the service promises.                                              *)

\* The jobs use the journal as its own executor does: every behaviour of the
\* service is one of the journal.
THEOREM ApiImplementsJournal == ApiSpec => JournalSpec
<1>1. ApiInit => JournalInit
  BY DEF ApiInit
<1>2. ApiInv /\ [ApiNext]_serviceVars => [JournalNext]_journalVars
  BY ApiStepIsJournalStep
<1> QED
  BY <1>1, <1>2, ApiInvariant, PTL DEF ApiSpec, JournalSpec

\* A succeeded operation has happened and a failed one has not, whatever jobs
\* interleave, fail or are cut off by the end of the process.
THEOREM ApiTellsTheTruth == ApiSpec => []OutcomeIsTrue
  BY ApiImplementsJournal, JournalTellsTheTruth, PTL

\* A retried submission never has its effect twice.
THEOREM ApiAppliesOnce == ApiSpec => []AppliedOnce
  BY ApiImplementsJournal, JournalAppliesOnce, PTL

\* The journal's history is append-only under the service.
THEOREM ApiSettlesForGood == ApiSpec => SettledIsFinal
  BY ApiImplementsJournal, JournalSettlesForGood, PTL

\* After close_admission only the job that held the writer is still accepted.
THEOREM AdmissionIsClosed == ApiSpec => []AdmissionCloses
<1>1. ApiInv => AdmissionCloses
  BY DEF ApiInv, LateOnes, AdmissionCloses
<1> QED
  BY <1>1, ApiInvariant, PTL

\* An identifier in an answer names its own submission, for good.
THEOREM AcknowledgementsAreTrue == ApiSpec => []AcknowledgedIsRecorded
<1>1. ApiInv => AcknowledgedIsRecorded
  BY DEF ApiInv
<1> QED
  BY <1>1, ApiInvariant, PTL

\* A credential is in at most one answer, to the operation that issued it, and
\* leaves the dispatcher before another job gets the writer.
THEOREM SecretsAreOwn == ApiSpec => []SecretIsOwn
<1>1. ApiInv => SecretIsOwn
  <2> SUFFICES ASSUME ApiInv PROVE SecretIsOwn
    OBVIOUS
  <2>1. secret # None => Held
    BY DEF ApiInv, OutputIsFresh, Turns, Held
  <2> QED
    BY <2>1 DEF ApiInv, HandedOnce, SecretIsOwn
<1> QED
  BY <1>1, ApiInvariant, PTL
=============================================================================
