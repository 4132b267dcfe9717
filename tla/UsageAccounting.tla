-------------------------- MODULE UsageAccounting --------------------------
(* Accounting of model calls: the proxy's attempts (src/proxy.rs,           *)
(* src/usage), the bounded queue of the usage sink, the thread that talks   *)
(* to the recorder (src/extensions/usage_runtime.rs) and the recorder's     *)
(* ledger (UsageRecorder).                                                  *)
(*                                                                          *)
(* An attempt reserves a slot of the queue for its final event before it    *)
(* queues its first one, and sends the final event through that slot when   *)
(* it finishes or is dropped.  In durable_local mode every delivery waits   *)
(* for the recorder's answer or a deadline; a deadline may pass at any      *)
(* time.  What the events say is UsageContract's subject; here an event is  *)
(* its attempt, revision and kind.                                          *)
EXTENDS UsageRecorder

CONSTANTS
    Calls,        \* upstream attempts, each used once
    Kinds,        \* how responses are forwarded: "json", "stream"
    Modes,        \* "off", "best_effort", "durable_local"
    Capacity,     \* slots of the queue
    MaxInFlight,  \* permits of the proxy
    MaxRevision   \* bound on the usage updates of an attempt

VARIABLES
    mode,       \* Mode of the recorder binding
    phase,      \* where each call's handler stands
    kind,       \* how its response is forwarded
    revision,   \* revision of the attempt's latest event
    permit,     \* the attempt holds the reserved slot of its final event
    ack,        \* the answer to the delivery the call waits for
    goal,       \* what the handler does after the final event's answer
    queue,      \* the channel to the worker thread
    current,    \* the delivery the worker thread is busy with
    worker,     \* "up" or "down"
    sent,       \* history: the request went upstream
    excused     \* history: calls of before a worker failure or a crash

callVars == <<phase, kind, revision, permit, ack, goal, sent>>
accountingVars == <<mode, phase, kind, revision, permit, ack, goal, queue, current,
                    worker, sent, excused, events, tombstones, identities, outbox,
                    bound, serving, batch, remote, owed>>

Durable == mode = "durable_local"

EventKindOf(r, final) == IF final THEN Finished ELSE IF r = 0 THEN "attempt_started"
                                                     ELSE "usage_updated"

EventOf(c, r, final) ==
    [id |-> <<c, r>>, attempt |-> c, revision |-> r,
     kind |-> EventKindOf(r, final), identity |-> c]

(* What the worker thread is busy with: an event, and whether the recorder  *)
(* has committed it.                                                        *)
UsageMessage ==
    [id : Calls \X Nat, attempt : Calls, revision : Nat,
     kind : {"attempt_started", "usage_updated", Finished}, identity : Calls]

Delivery == [event : UsageMessage, stored : BOOLEAN]

ASSUME AccountingAssumption ==
    /\ Capacity \in Nat
    /\ None \notin BOOLEAN /\ None \notin Delivery

(* Slots that are neither filled nor reserved.                              *)
Free == Capacity - Len(queue) - Cardinality({c \in Calls : permit[c]})

Live(c) == phase[c] \notin {"arrived", "refused", "failed", "released", "left", "lost"}

Waiting(c) == phase[c] \in {"start_ack", "update_ack", "finish_ack"}

AccountingInit ==
    /\ mode \in Modes
    /\ phase = [c \in Calls |-> "arrived"]
    /\ kind \in [Calls -> Kinds]
    /\ revision = [c \in Calls |-> 0]
    /\ permit = [c \in Calls |-> FALSE]
    /\ ack = [c \in Calls |-> None]
    /\ goal = [c \in Calls |-> None]
    /\ queue = <<>>
    /\ current = None
    /\ worker = "up"
    /\ sent = [c \in Calls |-> FALSE]
    /\ excused = {}
    /\ events = {} /\ tombstones = {} /\ identities = {} /\ outbox = {} /\ bound = {}
    /\ serving = {}
    /\ batch = None
    /\ remote = [d \in Destinations |-> {}]
    /\ owed = {}

(****************************************************************************)
(* Queueing events.                                                         *)
(****************************************************************************)
(* Attempt::deliver of an event that takes a free slot.                     *)
Enqueue(c, r) ==
    /\ queue' = Append(queue, EventOf(c, r, FALSE))
    /\ ack' = [ack EXCEPT ![c] = None]

(* Mutant of SendFinal: the slot is not reserved.                           *)
SendFinalUnreserved(c) ==
    /\ permit' = [permit EXCEPT ![c] = FALSE]
    /\ revision' = [revision EXCEPT ![c] = @ + 1]
    /\ ack' = [ack EXCEPT ![c] = None]
    /\ queue' = IF worker = "up" /\ Free > 0
                THEN Append(queue, EventOf(c, revision[c] + 1, TRUE)) ELSE queue

(* The final event goes through the reserved slot; once the worker is gone  *)
(* the channel is closed and the event vanishes.                            *)
SendFinal(c) ==
    /\ permit' = [permit EXCEPT ![c] = FALSE]
    /\ revision' = [revision EXCEPT ![c] = @ + 1]
    /\ ack' = [ack EXCEPT ![c] = None]
    /\ queue' = IF worker = "up" THEN Append(queue, EventOf(c, revision[c] + 1, TRUE))
                ELSE queue

(* Mutant of DropAttempt: an attempt that is dropped says nothing.          *)
DropAttemptSilently(c, next) ==
    /\ phase' = [phase EXCEPT ![c] = next]
    /\ permit' = [permit EXCEPT ![c] = FALSE]
    /\ UNCHANGED <<revision, ack, queue, goal>>

(* Drop of an unfinished attempt: the final event, and nobody waits for it. *)
DropAttempt(c, next) ==
    /\ phase' = [phase EXCEPT ![c] = next]
    /\ IF permit[c] THEN SendFinal(c) ELSE UNCHANGED <<permit, revision, ack, queue>>
    /\ UNCHANGED goal

(* Attempt::finish, finish_both: once per attempt.                          *)
Finish(c, next) ==
    /\ IF permit[c] THEN SendFinal(c) ELSE UNCHANGED <<permit, revision, ack, queue>>
    /\ IF permit[c] /\ Durable
       THEN /\ phase' = [phase EXCEPT ![c] = "finish_ack"]
            /\ goal' = [goal EXCEPT ![c] = next]
       ELSE /\ phase' = [phase EXCEPT ![c] = next]
            /\ UNCHANGED goal

otherVars == <<mode, kind, current, worker, excused>>

(****************************************************************************)
(* One call, from its arrival to the end of its response.                   *)
(****************************************************************************)
(* A permit of the proxy comes first; a request that gets none, or does not *)
(* pass the checks up to Route::admit, leaves no trace.                     *)
Admit(c) ==
    /\ phase[c] = "arrived"
    /\ \/ /\ Cardinality({d \in Calls : Live(d)}) < MaxInFlight
          /\ phase' = [phase EXCEPT ![c] = "reserving"]
       \/ phase' = [phase EXCEPT ![c] = "refused"]
    /\ UNCHANGED <<revision, permit, ack, goal, queue, sent, otherVars, recorderVars>>

(* Attempt::start: the slot of the final event. Without a recorder nothing  *)
(* is recorded; a best-effort attempt that gets no slot is not recorded.    *)
Reserve(c) ==
    /\ phase[c] = "reserving"
    /\ LET granted == mode # "off" /\ worker = "up" /\ Free > 0
       IN  /\ permit' = [permit EXCEPT ![c] = granted]
           /\ phase' = [phase EXCEPT ![c] = IF granted THEN "starting"
                                            ELSE IF Durable THEN "refused"
                                            ELSE "dispatch"]
    /\ UNCHANGED <<revision, ack, goal, queue, sent, otherVars, recorderVars>>

(* Then the first event. A durable attempt that cannot queue it in time is  *)
(* dropped, and the call refused.                                           *)
QueueStart(c) ==
    /\ phase[c] = "starting"
    /\ worker = "up" /\ Free > 0
    /\ Enqueue(c, 0)
    /\ phase' = [phase EXCEPT ![c] = IF Durable THEN "start_ack" ELSE "dispatch"]
    /\ UNCHANGED <<revision, permit, goal, sent, otherVars, recorderVars>>

SkipStart(c) ==
    /\ phase[c] = "starting"
    /\ worker = "down" \/ Free <= 0
    /\ IF Durable THEN DropAttempt(c, "refused")
       ELSE /\ phase' = [phase EXCEPT ![c] = "dispatch"]
            /\ UNCHANGED <<revision, permit, ack, goal, queue>>
    /\ UNCHANGED <<sent, otherVars, recorderVars>>

(* Mutant of StartAnswer: the deadline lets the call pass.                  *)
StartAnswerLenient(c) ==
    /\ phase[c] = "start_ack"
    /\ phase' = [phase EXCEPT ![c] = "dispatch"]
    /\ UNCHANGED <<revision, permit, ack, goal, queue, sent, otherVars, recorderVars>>

StartAnswer(c) ==
    /\ phase[c] = "start_ack"
    /\ \/ /\ ack[c] = TRUE
          /\ phase' = [phase EXCEPT ![c] = "dispatch"]
          /\ UNCHANGED <<revision, permit, ack, goal, queue>>
       \/ /\ ack[c] # TRUE                  \* refused, or the deadline passed
          /\ DropAttempt(c, "refused")
    /\ UNCHANGED <<sent, otherVars, recorderVars>>

Dispatch(c) ==
    /\ phase[c] = "dispatch"
    /\ sent' = [sent EXCEPT ![c] = TRUE]
    /\ phase' = [phase EXCEPT ![c] = "sent"]
    /\ UNCHANGED <<revision, permit, ack, goal, queue, otherVars, recorderVars>>

(* The request cannot be represented for the route: an attempt that is      *)
(* already open is dropped.                                                 *)
PrepareFails(c) ==
    /\ phase[c] = "dispatch"
    /\ DropAttempt(c, "failed")
    /\ UNCHANGED <<sent, otherVars, recorderVars>>

(* The upstream's headers: a failure finishes the attempt, an unsupported   *)
(* encoding or type returns and drops it.                                   *)
Headers(c) ==
    /\ phase[c] = "sent"
    /\ \/ Finish(c, "failed")
       \/ DropAttempt(c, "failed")
       \/ /\ phase' = [phase EXCEPT ![c] = "open"]
          /\ UNCHANGED <<revision, permit, ack, goal, queue>>
    /\ UNCHANGED <<sent, otherVars, recorderVars>>

(* What follows a delivery that failed: a stream is interrupted and still   *)
(* finishes its attempt, a JSON response returns and drops it.              *)
Interrupt(c) ==
    IF kind[c] = "stream" THEN Finish(c, "failed") ELSE DropAttempt(c, "failed")

(* A usage object in the upstream's answer: observe_payload.                *)
Observe(c) ==
    /\ phase[c] = "open"
    /\ permit[c] /\ revision[c] < MaxRevision
    /\ IF worker = "up" /\ Free > 0
       THEN /\ revision' = [revision EXCEPT ![c] = @ + 1]
            /\ Enqueue(c, revision[c] + 1)
            /\ phase' = [phase EXCEPT ![c] = IF Durable THEN "update_ack" ELSE "open"]
            /\ UNCHANGED <<permit, goal>>
       ELSE IF Durable
       THEN /\ revision' = [revision EXCEPT ![c] = @ + 1]
            /\ phase' = [phase EXCEPT ![c] = "interrupted"]
            /\ UNCHANGED <<permit, ack, goal, queue>>
       ELSE /\ revision' = [revision EXCEPT ![c] = @ + 1]
            /\ UNCHANGED <<phase, permit, ack, goal, queue>>
    /\ UNCHANGED <<sent, otherVars, recorderVars>>

UpdateAnswer(c) ==
    /\ phase[c] = "update_ack"
    /\ phase' = [phase EXCEPT ![c] = IF ack[c] = TRUE THEN "open" ELSE "interrupted"]
    /\ UNCHANGED <<revision, permit, ack, goal, queue, sent, otherVars, recorderVars>>

Interrupted(c) ==
    /\ phase[c] = "interrupted"
    /\ Interrupt(c)
    /\ UNCHANGED <<sent, otherVars, recorderVars>>

(* A recognised final response: the attempt finishes first.                 *)
Terminal(c) ==
    /\ phase[c] = "open"
    /\ Finish(c, "released")
    /\ UNCHANGED <<sent, otherVars, recorderVars>>

(* The body cannot be read or converted, times out, or ends without a       *)
(* recognised final response.                                               *)
Broken(c) ==
    /\ phase[c] = "open"
    /\ \/ Finish(c, "failed")
       \/ kind[c] = "json" /\ DropAttempt(c, "failed")
    /\ UNCHANGED <<sent, otherVars, recorderVars>>

FinishAnswer(c) ==
    /\ phase[c] = "finish_ack"
    /\ phase' = [phase EXCEPT ![c] = IF ack[c] = TRUE THEN goal[c] ELSE "failed"]
    /\ UNCHANGED <<revision, permit, ack, goal, queue, sent, otherVars, recorderVars>>

(* The client leaves: the handler's future is dropped wherever it is.       *)
Leave(c) ==
    /\ Live(c)
    /\ DropAttempt(c, "left")
    /\ UNCHANGED <<sent, otherVars, recorderVars>>

(****************************************************************************)
(* The worker thread and the recorder.                                      *)
(****************************************************************************)
Take ==
    /\ worker = "up" /\ current = None /\ queue # <<>>
    /\ current' = [event |-> Head(queue), stored |-> FALSE]
    /\ queue' = Tail(queue)
    /\ UNCHANGED <<mode, callVars, worker, excused, recorderVars>>

(* The recorder commits the event it has been sent.                         *)
Commit ==
    /\ current # None /\ ~current.stored
    /\ Record(current.event)
    /\ current' = [current EXCEPT !.stored = serving' # None]
    /\ UNCHANGED <<mode, callVars, queue, worker, excused, batch>>

Answered(c, answer) ==
    IF Waiting(c) /\ c = current.event.attempt /\ revision[c] = current.event.revision
    THEN answer ELSE ack[c]

Acknowledge ==
    /\ current # None /\ current.stored
    /\ ack' = [c \in Calls |-> Answered(c, TRUE)]
    /\ current' = None
    /\ UNCHANGED <<mode, phase, kind, revision, permit, goal, sent, queue, worker, excused,
                   recorderVars>>

(* No valid answer within the deadline: the thread ends, the queue with it, *)
(* and the recorder is killed. It is not started again.                     *)
WorkerFails ==
    /\ worker = "up" /\ current # None
    /\ ack' = [c \in Calls |-> Answered(c, FALSE)]
    /\ worker' = "down"
    /\ current' = None /\ queue' = <<>>
    /\ serving' = None
    /\ excused' = {c \in Calls : phase[c] # "arrived"}
    /\ UNCHANGED <<mode, phase, kind, revision, permit, goal, sent, storeVars, batch,
                   remote, owed>>

(* The gateway exits without warning and is started again.                  *)
Restart ==
    /\ phase' = [c \in Calls |-> IF Live(c) THEN "lost" ELSE phase[c]]
    /\ permit' = [c \in Calls |-> FALSE]
    /\ queue' = <<>> /\ current' = None
    /\ worker' = "up" /\ serving' = {}
    /\ excused' = {c \in Calls : phase[c] # "arrived"}
    /\ excused' # excused
    /\ UNCHANGED <<mode, kind, revision, ack, goal, sent, storeVars, batch, remote, owed>>

----------------------------------------------------------------------------
CallStep(c) ==
    \/ Reserve(c) \/ QueueStart(c) \/ SkipStart(c) \/ StartAnswer(c) \/ Dispatch(c)
    \/ PrepareFails(c) \/ Headers(c) \/ Observe(c) \/ UpdateAnswer(c) \/ Interrupted(c) \/ Terminal(c)
    \/ Broken(c) \/ FinishAnswer(c)

WorkerStep == Take \/ Commit \/ Acknowledge

AccountingNext ==
    \/ \E c \in Calls : Admit(c) \/ CallStep(c) \/ Leave(c)
    \/ WorkerStep
    \/ WorkerFails
    \/ Restart

(* The response of the call is a streamed body: it is polled on the         *)
(* client's demand only, and no deadline covers the whole of it.            *)
Streaming(c) ==
    /\ kind[c] = "stream"
    /\ phase[c] \in {"open", "update_ack", "interrupted", "finish_ack"}

HandlerStep(c) == ~Streaming(c) /\ CallStep(c)
BodyStep(c) == Streaming(c) /\ CallStep(c)

(* Up to the response every wait of a handler has a deadline, and a JSON    *)
(* body is read there, up to a size limit; the worker thread polls the      *)
(* queue.  So both go on.  A streamed body may stop for good.               *)
AccountingSpec ==
    /\ AccountingInit
    /\ [][AccountingNext]_accountingVars
    /\ \A c \in Calls : WF_accountingVars(HandlerStep(c))
    /\ WF_accountingVars(WorkerStep)

----------------------------------------------------------------------------
StoredFinal(c) == \E e \in events : e.attempt = c /\ e.kind = Finished

(* durable_local: no request goes upstream before the start of its attempt  *)
(* is in the ledger, and no recognised final response reaches the client    *)
(* before its end is (docs/usage-accounting.md, Delivery guarantees).       *)
CommitPrecedesEffect ==
    Durable => \A c \in Calls :
        /\ sent[c] => EventOf(c, 0, FALSE) \in events
        /\ phase[c] = "released" => StoredFinal(c)

(* However an attempt ends (finished, dropped on an error, abandoned by its *)
(* client, with the queue full) its final event has a slot: it is queued,   *)
(* with the recorder or stored, unless the worker or the process failed.    *)
EndIsNeverCrowdedOut ==
    \A c \in Calls \ excused :
        revision[c] > 0 /\ ~permit[c] /\ (mode # "off") =>
            \/ \E i \in DOMAIN queue : queue[i].attempt = c /\ queue[i].kind = Finished
            \/ current # None /\ current.event.attempt = c /\ current.event.kind = Finished
            \/ StoredFinal(c)

Recorded(c) == StoredFinal(c) \/ c \in excused

(* An attempt that holds its slot comes to a recorded end or to a streamed  *)
(* body, whatever its client does, and an end that is sent is recorded.  A  *)
(* stream comes to its end if its consumer reads on or leaves and its       *)
(* upstream does not send for ever (BodyStep is fair): a consumer that only *)
(* stops reading keeps the slot (docs/troubleshooting.md, capacity).  A     *)
(* failure of the worker or the process is excused.                         *)
AttemptsEnd ==
    \A c \in Calls :
        /\ permit[c] ~> (Recorded(c) \/ Streaming(c))
        /\ (revision[c] > 0 /\ ~permit[c]) ~> Recorded(c)
        /\ WF_accountingVars(BodyStep(c)) => (permit[c] ~> Recorded(c))
============================================================================
