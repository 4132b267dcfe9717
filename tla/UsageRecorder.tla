--------------------------- MODULE UsageRecorder ---------------------------
(* The usage recorder (extensions/usage-recorder): a SQLite ledger of usage *)
(* events fed over the gateway's pipe, an outbox of events still owed to    *)
(* each export destination, an export thread with a connection of its own,  *)
(* and the maintenance commands that need the writer lock.                  *)
(*                                                                          *)
(* An event is a record with its event_id, attempt, revision, kind and the  *)
(* identity of its attempt; the digest of its bytes is the record itself.   *)
(* One producer, the store's own, sends them all.  A destination stands for *)
(* its id and its configuration together.  SQLite transactions are atomic   *)
(* and durable; the clock, and with it the backoff between two deliveries,  *)
(* is left out: a pending row may be sent again at any time.                *)
EXTENDS Integers, FiniteSets, Sequences

CONSTANTS
    Events,        \* events offered to the recorder in any order, repeatedly
    Destinations,  \* export destinations that may be configured
    MaxBatch,      \* events of one export batch
    None

ASSUME RecorderAssumption ==
    /\ \A e \in Events : e.revision \in Nat
    /\ None \notin {"receipts", "retryable", "permanent"}

VARIABLES
    events,        \* usage_events
    tombstones,    \* usage_tombstones
    identities,    \* usage_attempts: {<<attempt, identity>>}
    outbox,        \* usage_outbox: rows [event, destination, state]
    bound,         \* destinations table
    serving,       \* the destinations of the recorder.json in use, None when
                   \* no process holds the writer lock
    batch,         \* the export in progress, or None
    remote,        \* what each destination has stored
    owed           \* history: every <<event, destination>> ever in the outbox

storeVars == <<events, tombstones, identities, outbox, bound>>
recorderVars == <<events, tombstones, identities, outbox, bound,
                  serving, batch, remote, owed>>

Finished == "attempt_finished"

OfAttempt(rows, a) == {r \in rows : r.attempt = a}

RecorderInit ==
    /\ events = {} /\ tombstones = {} /\ identities = {}
    /\ outbox = {} /\ bound = {}
    /\ serving = None
    /\ batch = None
    /\ remote = [d \in Destinations |-> {}]
    /\ owed = {}

(****************************************************************************)
(* serve: take the writer lock, bind the configured destinations.           *)
(****************************************************************************)
Uncommitted(d) == {r \in outbox : r.destination = d /\ r.state # "committed"}

(* bind_destinations: a destination that is still owed events may not be    *)
(* dropped from the configuration.                                          *)
CanBind(config) == \A d \in bound \ config : Uncommitted(d) = {}

Serve(config) ==
    /\ serving = None
    /\ CanBind(config)
    /\ serving' = config
    /\ bound' = bound \union config
    /\ UNCHANGED <<events, tombstones, identities, outbox, batch, remote, owed>>

(* End of input: the export thread is joined before the lock is released.   *)
Stop ==
    /\ serving # None
    /\ batch = None
    /\ serving' = None
    /\ UNCHANGED <<events, tombstones, identities, outbox, bound, batch, remote, owed>>

(* The gateway kills the child, or it crashes, at any moment.               *)
Crash ==
    /\ serving # None
    /\ serving' = None
    /\ batch' = None
    /\ UNCHANGED <<events, tombstones, identities, outbox, bound, remote, owed>>

(****************************************************************************)
(* Store::record, one immediate transaction.                                *)
(****************************************************************************)
SamePlace(e, r) ==
    r.id = e.id \/ (r.attempt = e.attempt /\ r.revision = e.revision)

Retired(e) == \E t \in tombstones : t.attempt = e.attempt /\ t.kind = Finished

(* Mutants of Contradicts: an end is taken below a later update; the        *)
(* identity of the attempt is not compared.                                 *)
ContradictsUnordered(e) ==
    \/ Retired(e)
    \/ \E p \in identities : p[1] = e.attempt /\ p[2] # e.identity
    \/ \E r \in OfAttempt(events, e.attempt) :
          r.kind = Finished /\ (e.revision >= r.revision \/ e.kind = Finished)

ContradictsUnidentified(e) ==
    \/ Retired(e)
    \/ e.kind = Finished /\ \E r \in OfAttempt(events, e.attempt) : r.revision > e.revision
    \/ \E r \in OfAttempt(events, e.attempt) :
          r.kind = Finished /\ (e.revision >= r.revision \/ e.kind = Finished)

(* The rules for an event no stored row shares a place with.                *)
Contradicts(e) ==
    \/ Retired(e)
    \/ \E p \in identities : p[1] = e.attempt /\ p[2] # e.identity
    \/ e.kind = Finished /\ \E r \in OfAttempt(events, e.attempt) : r.revision > e.revision
    \/ \E r \in OfAttempt(events, e.attempt) :
          r.kind = Finished /\ (e.revision >= r.revision \/ e.kind = Finished)

Status(e) ==
    LET prior == {r \in events \union tombstones : SamePlace(e, r)}
    IN  IF prior # {}
        THEN IF prior = {e} THEN "duplicate" ELSE "conflict"
        ELSE IF Contradicts(e) THEN "conflict" ELSE "committed"

Insert(e) ==
    /\ events' = events \union {e}
    /\ identities' = identities \union {<<e.attempt, e.identity>>}
    /\ outbox' = outbox \union
          {[event |-> e, destination |-> d, state |-> "pending"] :
              d \in serving}
    /\ owed' = owed \union ({e} \X serving)

(* One event of the pipe: a conflict ends the recorder without an answer,   *)
(* anything else is acknowledged.                                           *)
Record(e) ==
    /\ serving # None
    /\ CASE Status(e) = "committed" ->
              Insert(e) /\ UNCHANGED serving
         [] Status(e) = "duplicate" ->
              UNCHANGED <<events, identities, outbox, serving, owed>>
         [] OTHER ->
              serving' = None /\ UNCHANGED <<events, identities, outbox, owed>>
    /\ UNCHANGED <<tombstones, bound, remote>>

RecordInput(e) ==
    /\ Status(e) = "conflict" => batch = None     \* the export thread is joined
    /\ Record(e)
    /\ UNCHANGED batch

(****************************************************************************)
(* The export thread, concurrent with the pipe: read a batch, call the      *)
(* destination, write the outcome.                                          *)
(****************************************************************************)
(* The pending rows of a destination; those whose backoff is not over are   *)
(* left for a later batch, as any of them may be here.                      *)
Pending(d) == {r \in outbox : r.destination = d /\ r.state = "pending"}

(* Batches are ordered by observation time, which a clock set back can turn *)
(* around: any order is considered.                                         *)
Orders(rows) ==
    {order \in UNION {[1..n -> {r.event : r \in rows}] : n \in 1..MaxBatch} :
        \A i, j \in DOMAIN order : order[i] = order[j] => i = j}

ExportRead(d, order) ==
    /\ serving # None
    /\ d \in serving
    /\ batch = None
    /\ batch' = [destination |-> d, events |-> order, result |-> None, receipts |-> <<>>]
    /\ UNCHANGED <<events, tombstones, identities, outbox, bound, serving, remote, owed>>

(* pg_batch, one transaction of the destination; an HTTP collector promises *)
(* the same, and may also reject an event.                                  *)
RemoteStatus(stored, e) ==
    LET prior == {r \in stored : SamePlace(e, r)}
        rows == OfAttempt(stored, e.attempt)
    IN  IF prior # {} THEN IF prior = {e} THEN "duplicate" ELSE "conflict"
        ELSE IF \E r \in rows :
                   \/ r.identity # e.identity
                   \/ e.kind = Finished /\ r.revision > e.revision
                   \/ r.kind = Finished /\ (e.revision >= r.revision \/ e.kind = Finished)
        THEN "conflict"
        ELSE "committed"

(* The answer to event i of the batch, and what is stored after the first i. *)
ReceiptOf(rejected, stored, i) ==
    IF i \in rejected THEN "rejected" ELSE RemoteStatus(stored, batch.events[i])

Stored(rejected) ==
    LET After[i \in 0..Len(batch.events)] ==
            IF i = 0 THEN remote[batch.destination]
            ELSE IF ReceiptOf(rejected, After[i - 1], i) = "committed"
                 THEN After[i - 1] \union {batch.events[i]}
                 ELSE After[i - 1]
    IN  After

Deliver(rejected) ==
    /\ batch # None /\ batch.result = None
    /\ LET stored == Stored(rejected)
           receipts == [i \in DOMAIN batch.events |-> ReceiptOf(rejected, stored[i - 1], i)]
       IN  /\ remote' = [remote EXCEPT ![batch.destination] = stored[Len(batch.events)]]
           /\ \/ batch' = [batch EXCEPT !.result = "receipts", !.receipts = receipts]
              \/ batch' = [batch EXCEPT !.result = "retryable"]   \* the answer is lost
              \/ batch' = [batch EXCEPT !.result = "permanent"]   \* or unreadable
    /\ UNCHANGED <<events, tombstones, identities, outbox, bound, serving, owed>>

(* The destination is not reached, or answers with an error; a destination  *)
(* that does not take the event's version is a permanent error.             *)
Undelivered(result) ==
    /\ batch # None /\ batch.result = None
    /\ batch' = [batch EXCEPT !.result = result]
    /\ UNCHANGED <<events, tombstones, identities, outbox, bound, serving, remote, owed>>

RowState(i) ==
    CASE batch.result = "permanent" -> "blocked"
      [] batch.result = "retryable" -> "pending"
      [] OTHER -> CASE batch.receipts[i] \in {"committed", "duplicate"} -> "committed"
                    [] batch.receipts[i] = "conflict" -> "conflict"
                    [] OTHER -> "blocked"

ExportWrite ==
    /\ batch # None /\ batch.result # None
    /\ LET Place(r) == {i \in DOMAIN batch.events :
                           r.destination = batch.destination /\ r.event = batch.events[i]}
       IN  outbox' = {IF Place(r) = {} THEN r
                      ELSE [r EXCEPT !.state = RowState(CHOOSE i \in Place(r) : TRUE)] :
                          r \in outbox}
    /\ batch' = None
    /\ UNCHANGED <<events, tombstones, identities, bound, serving, remote, owed>>

(****************************************************************************)
(* Maintenance: the commands take the writer lock, so nothing is served.    *)
(****************************************************************************)
RetryBlocked(d) ==
    /\ serving = None
    /\ outbox' = {IF r.destination = d /\ r.state = "blocked"
                  THEN [r EXCEPT !.state = "pending"] ELSE r : r \in outbox}
    /\ outbox' # outbox
    /\ UNCHANGED <<events, tombstones, identities, bound, serving, batch, remote, owed>>

(* Mutant of Prunable: only pending rows hold an attempt back.              *)
PrunableBlocked ==
    {a \in {r.attempt : r \in events} :
        /\ \E r \in OfAttempt(events, a) :
              /\ r.kind = Finished
              /\ \A s \in OfAttempt(events, a) : s.revision <= r.revision
        /\ \A r \in outbox : r.event.attempt = a => r.state # "pending"}

(* The attempts whose newest event is final and of which nothing is owed.   *)
Prunable ==
    {a \in {r.attempt : r \in events} :
        /\ \E r \in OfAttempt(events, a) :
              /\ r.kind = Finished
              /\ \A s \in OfAttempt(events, a) : s.revision <= r.revision
        /\ \A r \in outbox : r.event.attempt = a => r.state = "committed"}

(* prune: which of them are older than the given date is left open.         *)
Prune(old) ==
    /\ serving = None
    /\ old # {} /\ old \subseteq Prunable
    /\ LET gone == {r \in events : r.attempt \in old}
       IN  /\ outbox' = {r \in outbox : r.event \notin gone}
           /\ tombstones' = tombstones \union gone
           /\ events' = events \ gone
    /\ UNCHANGED <<identities, bound, serving, batch, remote, owed>>

----------------------------------------------------------------------------
RecorderNext ==
    \/ \E config \in SUBSET Destinations : Serve(config)
    \/ Stop
    \/ Crash
    \/ \E e \in Events : RecordInput(e)
    \/ \E d \in Destinations :
          \/ \E order \in Orders(Pending(d)) : ExportRead(d, order)
          \/ RetryBlocked(d)
    \/ batch # None /\ \E rejected \in SUBSET DOMAIN batch.events : Deliver(rejected)
    \/ \E result \in {"retryable", "permanent"} : Undelivered(result)
    \/ ExportWrite
    \/ \E old \in SUBSET Prunable : Prune(old)

RecorderSpec == RecorderInit /\ [][RecorderNext]_recorderVars

----------------------------------------------------------------------------
(* However events arrive (late, twice, altered, after a restart or a prune) *)
(* the ledger of an attempt ends with its final event: it has one at most,  *)
(* and no row beside or behind it, so usage_current shows the outcome.      *)
LedgerIsSettled ==
    \A f \in events \union tombstones : f.kind = Finished =>
        \A r \in OfAttempt(events \union tombstones, f.attempt) :
            r = f \/ (r.kind # Finished /\ r.revision < f.revision)

(* What the ledger owes a destination it goes on owing until the            *)
(* destination has stored it: lost answers, blocked batches, crashes        *)
(* between delivery and its record, removed destinations, retries and       *)
(* pruning lose nothing.                                                    *)
OwedUntilDelivered ==
    \A p \in owed :
        \/ p[1] \in remote[p[2]]
        \/ \E r \in Uncommitted(p[2]) : r.event = p[1]

(* The destination never refuses an event as contradicting what it has,     *)
(* whatever order the batches come in: the ledger's rules and pg_batch's    *)
(* admit the same histories.                                                *)
ExportNeverConflicts == \A r \in outbox : r.state # "conflict"
============================================================================
