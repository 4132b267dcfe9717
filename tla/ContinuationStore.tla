------------------------- MODULE ContinuationStore -------------------------
(***************************************************************************)
(* The durable continuation store of the gateway: the SQLite tables        *)
(* sessions, attempts, records, transitions and protection, and every      *)
(* business transaction of the ContinuationStore trait                     *)
(* (src/src/continuation/sqlite.rs).  A transaction either commits as one  *)
(* step or changes nothing, so a rejected call is not a step here.         *)
(*                                                                         *)
(* StoreNext is the store under callers that know its current rows: any    *)
(* transaction the store accepts, in any order, with a crash of the        *)
(* gateway process between any two of them.  A record is finalized as the  *)
(* child of the session's head.  The store itself does not check that for  *)
(* built-in routes; that the request path of the gateway nevertheless does *)
(* no more than StoreNext is what ManagedProxy's refinement shows.         *)
(***************************************************************************)
EXTENDS Integers, FiniteSets, FiniteSetsExt

CONSTANTS
    Sessions,    \* session identifiers (uuid, chosen fresh by create)
    Attempts,    \* attempt identifiers (resp_<uuid>, chosen fresh by begin)
    Origins,     \* route, realm and generation a session is created for
    Inputs,      \* digests of a cleaned request payload
    Portables,   \* digests of a host-approved portable history
    Keys,        \* fingerprints of protection keys a process can start with
    Reserves,    \* values of max_response_bytes a process can start with
    Sizes,       \* lengths of a sealed envelope
    Limit,       \* max_store_bytes
    MaxEpoch,    \* bound: host transitions that open an epoch beyond it are cut
    None         \* SQL NULL, Option::None

ASSUME SizeAssumption ==
    /\ Reserves \subseteq Nat
    /\ Sizes \subseteq Nat
    /\ Limit \in Nat
    /\ MaxEpoch \in Nat \ {0}

VARIABLES
    session,      \* table sessions: one JSON value per row
    attempt,      \* table attempts
    record,       \* table records
    transitions,  \* table transitions: the host decisions, append-only
    bound,        \* table protection: the fingerprint of the first key
    up            \* key of the process that owns the store, None when no process does

storeVars == <<session, attempt, record, transitions, bound, up>>

InFlight == {"pending", "compacting_pending"}
SessionStatus == {"absent", "ready", "compacting", "awaiting_compaction", "unknown"} \cup InFlight
AttemptStatus == {"absent", "pending", "finalized", "unknown"}
TransitionKinds == {"compact_begin", "compact_commit", "recover"}

SessionRow == [status : SessionStatus, epoch : Nat, revision : Nat,
               origin : Origins \cup {None}, head : Attempts \cup {None},
               pendingTools : BOOLEAN, portable : Portables \cup {None}]

AttemptRow == [status : AttemptStatus, session : Sessions \cup {None}, epoch : Nat,
               input : Inputs \cup {None}, reserve : Nat]

\* A finalized replay record: what one response adds to the conversation.  Its
\* digest identifies it, so the record stands for its own digest.
Replay == [response : Attempts, session : Sessions, epoch : Nat,
           parent : Attempts \cup {None}, tools : BOOLEAN, size : Sizes]

ASSUME NoneAssumption ==
    None \notin Attempts \cup Sessions \cup Portables \cup Keys \cup Replay

\* sealed = None: the finalized row is there and its envelope column is NULL.
RecordRow == [replay : Replay \cup {None}, sealed : Keys \cup {None}]

Rows == {a \in Attempts : attempt[a].status # "absent"}

\* SELECT COALESCE(SUM(reserve),0) FROM attempts
Used == MapThenSumSet(LAMBDA a : attempt[a].reserve, Rows)

StoreInit ==
    /\ session = [s \in Sessions |->
                    [status |-> "absent", epoch |-> 0, revision |-> 0, origin |-> None,
                     head |-> None, pendingTools |-> FALSE, portable |-> None]]
    /\ attempt = [a \in Attempts |->
                    [status |-> "absent", session |-> None, epoch |-> 0,
                     input |-> None, reserve |-> 0]]
    /\ record = [a \in Attempts |-> [replay |-> None, sealed |-> None]]
    /\ transitions = {}
    /\ bound = None
    /\ up = None

\* save: the row with another status and the next revision.
Advanced(row, status) ==
    [status |-> status, epoch |-> row.epoch, revision |-> row.revision + 1, origin |-> row.origin,
     head |-> row.head, pendingTools |-> row.pendingTools, portable |-> row.portable]

-----------------------------------------------------------------------------
(* create: a fresh row, epoch 1, revision 1.                               *)

Create(s, o) ==
    /\ up # None
    /\ session[s].status = "absent"
    /\ session' = [session EXCEPT ![s] =
                     [status |-> "ready", epoch |-> 1, revision |-> 1, origin |-> o,
                      head |-> None, pendingTools |-> FALSE, portable |-> None]]
    /\ UNCHANGED <<attempt, record, transitions, bound, up>>

(***************************************************************************)
(* begin: compare-and-set on revision and head, then capacity, then the    *)
(* insert under UNIQUE(session, epoch, input_digest).                      *)
(***************************************************************************)
\* reserve == 0 or used + reserve > limit is "store capacity".
Fits(reserve) == reserve > 0 /\ Used + reserve <= Limit

\* Mutant of InputUnused: the table has no UNIQUE(session, epoch, input_digest).
InputUnchecked(s, i) == TRUE

InputUnused(s, i) ==
    \A b \in Rows : ~ ( /\ attempt[b].session = s
                        /\ attempt[b].epoch = session[s].epoch
                        /\ attempt[b].input = i )

\* Mutant of CanBegin: the revision and the head of the caller's copy are not compared.
CanBeginStale(s, revision, parent, i, reserve) ==
    /\ up # None
    /\ session[s].status \in {"ready", "compacting"}
    /\ Fits(reserve)
    /\ InputUnused(s, i)

CanBegin(s, revision, parent, i, reserve) ==
    /\ up # None
    /\ session[s].revision = revision
    /\ session[s].status \in {"ready", "compacting"}
    /\ session[s].head = parent
    /\ Fits(reserve)
    /\ InputUnused(s, i)

Begin(s, revision, parent, a, i, reserve) ==
    /\ CanBegin(s, revision, parent, i, reserve)
    /\ attempt[a].status = "absent"
    /\ attempt' = [attempt EXCEPT ![a] =
                     [status |-> "pending", session |-> s, epoch |-> session[s].epoch,
                      input |-> i, reserve |-> reserve]]
    /\ session' = [session EXCEPT ![s] =
                     Advanced(session[s], IF session[s].status = "compacting"
                                          THEN "compacting_pending" ELSE "pending")]
    /\ UNCHANGED <<record, transitions, bound, up>>

(***************************************************************************)
(* finalize: the attempt row must still be pending in the session's        *)
(* current epoch; the record row, the attempt status and the session head  *)
(* commit together.                                                        *)
(***************************************************************************)
\* Mutant of EnvelopeFits: the envelope is compared with the store, not the reservation.
EnvelopeFitsLimit(a, replay) == replay.size <= Limit

EnvelopeFits(a, replay) == replay.size <= attempt[a].reserve

CanFinalize(s, a, replay) ==
    /\ up # None
    /\ attempt[a].session = s
    /\ attempt[a].epoch = session[s].epoch
    /\ attempt[a].status = "pending"
    /\ EnvelopeFits(a, replay)
    /\ session[s].status \in InFlight

\* The session row after its attempt a was finalized.
Continued(row, a, replay) ==
    [status |-> IF row.status = "compacting_pending" THEN "awaiting_compaction" ELSE "ready",
     epoch |-> row.epoch, revision |-> row.revision + 1, origin |-> row.origin,
     head |-> a, pendingTools |-> replay.tools, portable |-> row.portable]

Finalize(s, a, replay) ==
    /\ CanFinalize(s, a, replay)
    /\ record' = [record EXCEPT ![a] = [replay |-> replay, sealed |-> up]]
    /\ attempt' = [attempt EXCEPT ![a].status = "finalized"]
    /\ session' = [session EXCEPT ![s] = Continued(session[s], a, replay)]
    /\ UNCHANGED <<transitions, bound, up>>

(***************************************************************************)
(* uncertain: only an attempt that is still pending becomes unknown, and   *)
(* only then is its session blocked.                                       *)
(***************************************************************************)
\* Mutant of CanMarkUncertain: the UPDATE forgets AND status='pending'.
CanMarkUncertainAny(s, a) ==
    /\ up # None
    /\ attempt[a].session = s

CanMarkUncertain(s, a) ==
    /\ up # None
    /\ attempt[a].session = s
    /\ attempt[a].status = "pending"

MarkUncertain(s, a) ==
    /\ CanMarkUncertain(s, a)
    /\ attempt' = [attempt EXCEPT ![a].status = "unknown"]
    /\ session' = [session EXCEPT ![s] = Advanced(session[s], "unknown")]
    /\ UNCHANGED <<record, transitions, bound, up>>

\* repair: fill a NULL envelope of a finalized record with the same digest.
Repair(a, replay) ==
    /\ up # None
    /\ record[a].replay = replay
    /\ record[a].replay # None
    /\ record[a].sealed = None
    /\ attempt[a].status = "finalized"
    /\ EnvelopeFits(a, replay)
    /\ record' = [record EXCEPT ![a].sealed = up]
    /\ UNCHANGED <<session, attempt, transitions, bound, up>>

(***************************************************************************)
(* transition: the host's explicit decision on a session nobody is using.  *)
(***************************************************************************)
OpensEpoch(s, kind) ==
    \/ kind = "recover"
    \/ kind = "compact_commit" /\ session[s].status = "awaiting_compaction"

Quiet(s) == session[s].status \notin InFlight \cup {"absent"}

CanTransition(s, revision, kind, portable) ==
    /\ up # None
    /\ Quiet(s)
    /\ session[s].revision = revision
    /\ \/ kind = "compact_begin" /\ session[s].status = "ready" /\ ~session[s].pendingTools
       \/ OpensEpoch(s, kind) /\ portable # None /\ session[s].epoch < MaxEpoch

\* Mutant of NewEpoch: the new epoch still continues from the old head.
NewEpochKeepsHead(row, portable) ==
    [status |-> "ready", epoch |-> row.epoch + 1, revision |-> row.revision + 1,
     origin |-> row.origin, head |-> row.head, pendingTools |-> FALSE, portable |-> portable]

NewEpoch(row, portable) ==
    [status |-> "ready", epoch |-> row.epoch + 1, revision |-> row.revision + 1,
     origin |-> row.origin, head |-> None, pendingTools |-> FALSE, portable |-> portable]

Decided(s, kind) ==
    transitions \cup {[session |-> s, revision |-> session[s].revision + 1, kind |-> kind]}

Transition(s, revision, kind, portable) ==
    /\ CanTransition(s, revision, kind, portable)
    /\ session' = [session EXCEPT ![s] =
                     IF kind = "compact_begin"
                     THEN Advanced(session[s], "compacting")
                     ELSE NewEpoch(session[s], portable)]
    /\ transitions' = Decided(s, kind)
    /\ UNCHANGED <<attempt, record, bound, up>>

-----------------------------------------------------------------------------
(***************************************************************************)
(* open: the recovery transaction marks every pending attempt, and its     *)
(* session, unknown; it commits before the key is compared with the bound  *)
(* fingerprint, so a process started with another key leaves that mark and *)
(* then refuses to serve.                                                  *)
(***************************************************************************)
\* Mutant of Recovered: recovery settles the attempts and forgets their sessions.
RecoveredNone(s) == FALSE

Recovered(s) ==
    \E a \in Attempts : attempt[a].session = s /\ attempt[a].status = "pending"

\* Mutant of RecoveredRow: recovery keeps the revision.
RecoveredRowSameRevision(row) == [row EXCEPT !.status = "unknown"]

RecoveredRow(row) == Advanced(row, "unknown")

\* Mutant of Serving: the bound fingerprint is not compared.
ServingAny(k) == k

\* bind_protection: the first key is bound, any other is refused.
Serving(k) == IF bound \in {None, k} THEN k ELSE None

Open(k) ==
    /\ up = None
    /\ session' = [s \in Sessions |->
                     IF Recovered(s) THEN RecoveredRow(session[s]) ELSE session[s]]
    /\ attempt' = [a \in Attempts |->
                     IF attempt[a].status = "pending"
                     THEN [attempt[a] EXCEPT !.status = "unknown"]
                     ELSE attempt[a]]
    /\ bound' = IF bound = None THEN k ELSE bound
    /\ up' = Serving(k)
    /\ UNCHANGED <<record, transitions>>

\* The owning process exits or is killed; every committed row stays.
Crash ==
    /\ up # None
    /\ up' = None
    /\ UNCHANGED <<session, attempt, record, transitions, bound>>

\* Outside the program: an incomplete restore loses the payload of one record.
LosePayload(a) ==
    /\ up = None
    /\ record[a].sealed # None
    /\ record' = [record EXCEPT ![a].sealed = None]
    /\ UNCHANGED <<session, attempt, transitions, bound, up>>

-----------------------------------------------------------------------------
\* The record of a turn that continues the session's head.
Child(s, a, tools, size) ==
    [response |-> a, session |-> s, epoch |-> session[s].epoch,
     parent |-> session[s].head, tools |-> tools, size |-> size]

StoreNext ==
    \/ \E s \in Sessions, o \in Origins : Create(s, o)
    \/ \E s \in Sessions, a \in Attempts, i \in Inputs, r \in Reserves :
          Begin(s, session[s].revision, session[s].head, a, i, r)
    \/ \E s \in Sessions, a \in Attempts, tools \in BOOLEAN, size \in Sizes :
          Finalize(s, a, Child(s, a, tools, size))
    \/ \E s \in Sessions, a \in Attempts : MarkUncertain(s, a)
    \/ \E a \in Attempts : Repair(a, record[a].replay)
    \/ \E s \in Sessions, kind \in TransitionKinds, p \in Portables \cup {None} :
          Transition(s, session[s].revision, kind, p)
    \/ \E k \in Keys : Open(k)
    \/ Crash
    \/ \E a \in Attempts : LosePayload(a)

StoreSpec == StoreInit /\ [][StoreNext]_storeVars

-----------------------------------------------------------------------------
(* Properties.                                                             *)

\* Every table row has the columns sqlite.rs declares; an id that was never
\* inserted is "absent".
StoreTypeOK ==
    /\ session \in [Sessions -> SessionRow]
    /\ attempt \in [Attempts -> AttemptRow]
    /\ record \in [Attempts -> RecordRow]
    /\ transitions \subseteq [session : Sessions, revision : Nat, kind : TransitionKinds]
    /\ bound \in Keys \cup {None}
    /\ up \in Keys \cup {None}

\* A session says it is in flight exactly while one attempt of its current epoch
\* is pending, and it never has two.  begin, finalize, uncertain, transition and
\* the recovery of open each write the two tables separately; this relates them,
\* also across a crash.
OneInFlight ==
    /\ \A a \in Attempts : attempt[a].status = "pending" =>
          /\ session[attempt[a].session].status \in InFlight
          /\ session[attempt[a].session].epoch = attempt[a].epoch
    /\ \A s \in Sessions : session[s].status \in InFlight =>
          \E a \in Attempts : attempt[a].session = s /\ attempt[a].status = "pending"
    /\ \A a, b \in Attempts :
          (/\ attempt[a].status = "pending" /\ attempt[b].status = "pending"
           /\ attempt[a].session = attempt[b].session) => a = b

\* An attempt whose outcome is unknown blocks its session until the host opens a
\* new epoch: no path of the store makes the session usable in the same epoch.
UnknownBlocks ==
    \A a \in Attempts :
       attempt[a].status = "unknown" =>
          \/ session[attempt[a].session].status = "unknown"
          \/ session[attempt[a].session].epoch > attempt[a].epoch

\* The head a session continues from is a finalized attempt of that session and
\* of that epoch, with its record: nothing pending, unknown or of an earlier
\* epoch is ever the parent of the next turn.
HeadIsFinalized ==
    \A s \in Sessions : session[s].head # None =>
       /\ attempt[session[s].head].status = "finalized"
       /\ attempt[session[s].head].session = s
       /\ attempt[session[s].head].epoch = session[s].epoch
       /\ record[session[s].head].replay # None

\* The session rows and the attempt rows tell the same story: in flight, blocked
\* or continuing from a finalized head.  One of the two tables written without
\* the other, by any transaction or by recovery, breaks it.
SessionsMatchAttempts == OneInFlight /\ UnknownBlocks /\ HeadIsFinalized

\* The finalized records of one epoch of a session form one chain that ends in
\* the head: no two turns continue the same parent, every parent is a record of
\* the same epoch, and nothing continues the head yet.  A lost compare-and-set
\* between two connections would fork it.
HistoryIsAChain ==
    /\ \A a, b \in Attempts :
          (/\ record[a].replay # None /\ record[b].replay # None /\ a # b
           /\ record[a].replay.session = record[b].replay.session
           /\ record[a].replay.epoch = record[b].replay.epoch)
          => record[a].replay.parent # record[b].replay.parent
    /\ \A a \in Attempts :
          (record[a].replay # None /\ record[a].replay.parent # None) =>
             LET p == record[a].replay.parent IN
             /\ record[p].replay # None
             /\ record[p].replay.session = record[a].replay.session
             /\ record[p].replay.epoch = record[a].replay.epoch
    /\ \A a \in Attempts :
          (/\ record[a].replay # None
           /\ record[a].replay.epoch = session[record[a].replay.session].epoch)
          => /\ session[record[a].replay.session].head # None
             /\ record[a].replay.parent # session[record[a].replay.session].head

\* Which rows exist together: an attempt belongs to an existing session and to one
\* of its epochs so far, and exactly the finalized attempts have a record, which
\* carries the attempt's session and epoch.
RowsAgree ==
    /\ \A a \in Attempts :
          /\ attempt[a].status = "absent" => attempt[a].session = None
          /\ attempt[a].status # "absent" =>
                /\ attempt[a].session \in Sessions
                /\ session[attempt[a].session].status # "absent"
                /\ attempt[a].epoch <= session[attempt[a].session].epoch
    /\ \A a \in Attempts :
          /\ record[a].replay # None <=> attempt[a].status = "finalized"
          /\ record[a].replay # None =>
                /\ record[a].replay.session = attempt[a].session
                /\ record[a].replay.epoch = attempt[a].epoch

\* A payload on disk can be opened by every process that is allowed to serve: a
\* process with another key never gets to seal or repair one.
EnvelopesReadable ==
    /\ \A a \in Attempts : record[a].sealed \in {None, bound}
    /\ up # None => up = bound

\* What the compare-and-set of begin and transition rests on: no session row ever
\* changes without a larger revision, recovery at open included.
RevisionAdvances ==
    [][\A s \in Sessions : session'[s] # session[s] =>
          session'[s].revision > session[s].revision]_storeVars

\* A settled outcome is final: finalized and unknown attempts never change again
\* (recovery and repair never manufacture a completion) and the digest of a
\* finalized record is never rewritten.
OutcomeIsFinal ==
    [][\A a \in Attempts :
          attempt[a].status \in {"finalized", "unknown"} =>
             /\ attempt'[a] = attempt[a]
             /\ record'[a].replay = record[a].replay]_storeVars
=============================================================================
