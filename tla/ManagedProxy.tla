---------------------------- MODULE ManagedProxy ----------------------------
(***************************************************************************)
(* Managed requests of the gateway (src/src/proxy_managed.rs) on top of    *)
(* the continuation store.  A request is a future that its HTTP connection *)
(* owns: it can be dropped at every await.  Store transactions run on      *)
(* blocking threads (Runtime::access), so a transaction that was submitted *)
(* still runs after its request is gone; what it answers is then lost.     *)
(* The guard struct Attempt marks an unfinished attempt uncertain, by one  *)
(* more submitted transaction, when the request that holds it ends.        *)
(***************************************************************************)
EXTENDS ContinuationStore

CONSTANTS
    Requests,        \* concurrent connections
    PluginOrigins,   \* origins whose route is a provider plugin (V3 records)
    MaxJobs          \* bound: submitted transactions that outlive their request

VARIABLES
    req,         \* what each request's future holds
    jobs,        \* submitted store transactions nobody awaits any more
    sends,       \* provider calls made for each attempt
    published    \* attempts whose terminal event and envelope reached the client

vars == <<session, attempt, record, transitions, bound, up, req, jobs, sends, published>>

NoRow == [status |-> "absent", epoch |-> 0, revision |-> 0, origin |-> None,
          head |-> None, pendingTools |-> FALSE, portable |-> None]

Idle == [pc |-> "idle", sid |-> None, snap |-> NoRow, prev |-> None, prepared |-> FALSE,
         input |-> None, att |-> None, tools |-> FALSE, size |-> 0]

Stages == {"idle", "verify", "admitted", "reserving", "sent", "finalizing", "recording"}

Request == [pc : Stages, sid : Sessions \cup {None}, snap : SessionRow,
            prev : Attempts \cup {None}, prepared : BOOLEAN, input : Inputs \cup {None},
            att : Attempts \cup {None}, tools : BOOLEAN, size : Nat]

ProxyInit ==
    /\ StoreInit
    /\ req = [r \in Requests |-> Idle]
    /\ jobs = {}
    /\ sends = [a \in Attempts |-> 0]
    /\ published = {}

Plugin(x) == x.snap.origin \in PluginOrigins

\* The record a request finalizes: metadata of the session it read at the start.
NewReplay(x) == [response |-> x.att, session |-> x.sid, epoch |-> x.snap.epoch,
                 parent |-> x.snap.head, tools |-> x.tools, size |-> x.size]

(***************************************************************************)
(* The end of a request: the function returns, or its future is dropped.   *)
(* A transaction in progress is detached; the guard, if the request holds  *)
(* one, submits uncertain.                                                 *)
(***************************************************************************)
Detached(x) ==
    CASE x.pc = "reserving"  -> {[op |-> "begin", of |-> x]}
      [] x.pc = "finalizing" -> {[op |-> "finalize", of |-> x]}
      [] OTHER               -> {}

\* Drop for Attempt: not after mark_finalized.
GuardDrops(x) == x.att # None /\ x.pc # "recording"

Dropped(x) == IF GuardDrops(x) THEN {[op |-> "uncertain", of |-> x]} ELSE {}

Leave(r, more) ==
    /\ req' = [req EXCEPT ![r] = Idle]
    /\ jobs' = jobs \cup more
    /\ Cardinality(jobs') <= MaxJobs

-----------------------------------------------------------------------------
(* responses(): the session is read once; this copy is used to the end.    *)

Arrive(r, s) ==
    /\ up # None
    /\ req[r].pc = "idle"
    /\ session[s].status \in {"ready", "compacting"}
    /\ req' = [req EXCEPT ![r] = [Idle EXCEPT !.pc = "verify", !.sid = s, !.snap = session[s]]]
    /\ UNCHANGED <<storeVars, jobs, sends, published>>

(***************************************************************************)
(* history(): one restore_record per encrypted_content the client sends    *)
(* back, each an access of its own.  Only an envelope this gateway sealed  *)
(* authenticates, so the tokens are published records.  The comparison of  *)
(* the public items with the record's prefix digest and output can only    *)
(* reject; it is the Abandon of this stage.                                *)
(***************************************************************************)
Restorable(x, a) ==
    /\ a \in published
    /\ record[a].replay # None
    /\ attempt[a].status = "finalized"
    /\ record[a].replay.session = x.sid
    /\ record[a].replay.epoch = x.snap.epoch
    /\ Plugin(x) => session[x.sid] = x.snap
    /\ record[a].replay.parent = x.prev

\* A repair is submitted like every transaction; one that commits after its
\* request is gone is this step followed by Abandon.
RestoreToken(r, a) ==
    /\ up # None
    /\ req[r].pc = "verify"
    /\ Restorable(req[r], a)
    /\ IF record[a].sealed = None
       THEN Repair(a, record[a].replay)
       ELSE UNCHANGED storeVars
    /\ req' = [req EXCEPT ![r].prev = a]
    /\ UNCHANGED <<jobs, sends, published>>

\* Mutant of HistoryComplete: the client may leave out the latest turns.
HistoryUnended(x) == TRUE

\* if previous != session.head { reject }
HistoryComplete(x) == x.prev = x.snap.head

Admit(r, i) ==
    /\ up # None
    /\ req[r].pc = "verify"
    /\ HistoryComplete(req[r])
    /\ req' = [req EXCEPT ![r].pc = "admitted", ![r].input = i]
    /\ UNCHANGED <<storeVars, jobs, sends, published>>

\* Recorder admission and ManagedDispatch::prepare; a provider plugin receives
\* replay bytes only once the attempt is reserved.
Prepare(r) ==
    /\ req[r].pc = "admitted"
    /\ ~req[r].prepared
    /\ Plugin(req[r]) => req[r].att # None
    /\ req' = [req EXCEPT ![r].prepared = TRUE]
    /\ UNCHANGED <<storeVars, jobs, sends, published>>

\* reserve_attempt: submit begin with the revision and head of the copy.
Reserve(r) ==
    /\ req[r].pc = "admitted"
    /\ req[r].att = None
    /\ Plugin(req[r]) \/ req[r].prepared
    /\ req' = [req EXCEPT ![r].pc = "reserving"]
    /\ UNCHANGED <<storeVars, jobs, sends, published>>

\* Mutant of BeginFor: begin is retried with the row as it is now.
BeginForRetried(x, a) ==
    \E reserve \in Reserves :
       Begin(x.sid, session[x.sid].revision, session[x.sid].head, a, x.input, reserve)

BeginFor(x, a) ==
    \E reserve \in Reserves : Begin(x.sid, x.snap.revision, x.snap.head, a, x.input, reserve)

Reserved(r, a) ==
    /\ req[r].pc = "reserving"
    /\ BeginFor(req[r], a)
    /\ req' = [req EXCEPT ![r].pc = "admitted", ![r].att = a]
    /\ UNCHANGED <<jobs, sends, published>>

\* The begin of a request that is gone: its attempt id is returned to nobody.
LateBegin(j, a) ==
    /\ j \in jobs /\ j.op = "begin"
    /\ BeginFor(j.of, a)
    /\ jobs' = jobs \ {j}
    /\ UNCHANGED <<req, sends, published>>

\* The provider call.
Dispatch(r) ==
    /\ req[r].pc = "admitted"
    /\ req[r].prepared
    /\ req[r].att # None
    /\ req' = [req EXCEPT ![r].pc = "sent"]
    /\ sends' = [sends EXCEPT ![req[r].att] = @ + 1]
    /\ UNCHANGED <<storeVars, jobs, published>>

\* The provider's reply is complete and decoded; finalize_checked is submitted.
Complete(r, tools, size) ==
    /\ req[r].pc = "sent"
    /\ req' = [req EXCEPT ![r].pc = "finalizing", ![r].tools = tools, ![r].size = size]
    /\ UNCHANGED <<storeVars, jobs, sends, published>>

(***************************************************************************)
(* finalize_checked: a V3 record is checked against the session row and    *)
(* the payload of its parent before the store's own checks.                *)
(***************************************************************************)
ProviderCheckpoint(x) ==
    /\ session[x.sid].epoch = x.snap.epoch
    /\ session[x.sid].head = x.snap.head
    /\ session[x.sid].status \in InFlight
    /\ x.snap.head # None =>
         /\ attempt[x.snap.head].status = "finalized"
         /\ record[x.snap.head].sealed # None
         /\ record[x.snap.head].replay.session = x.sid
         /\ record[x.snap.head].replay.epoch = x.snap.epoch

FinalizeFor(x) ==
    /\ Plugin(x) => ProviderCheckpoint(x)
    /\ Finalize(x.sid, x.att, NewReplay(x))

\* Mutant of Finalized: the result of finalize_checked is ignored.
FinalizedUnchecked(r) ==
    /\ req[r].pc = "finalizing"
    /\ req' = [req EXCEPT ![r].pc = "recording"]
    /\ UNCHANGED <<storeVars, jobs, sends, published>>

Finalized(r) ==
    /\ req[r].pc = "finalizing"
    /\ FinalizeFor(req[r])
    /\ req' = [req EXCEPT ![r].pc = "recording"]
    /\ UNCHANGED <<jobs, sends, published>>

LateFinalize(j) ==
    /\ j \in jobs /\ j.op = "finalize"
    /\ FinalizeFor(j.of)
    /\ jobs' = jobs \ {j}
    /\ UNCHANGED <<req, sends, published>>

\* A submitted transaction is refused by its guards or by SQLite; the request,
\* if it still waits, returns an error.
Refused(r) ==
    /\ req[r].pc \in {"reserving", "finalizing"}
    /\ Leave(r, Dropped(req[r]))
    /\ UNCHANGED <<storeVars, sends, published>>

LateRefused(j) ==
    /\ j \in jobs
    /\ jobs' = jobs \ {j}
    /\ UNCHANGED <<storeVars, req, sends, published>>

LateUncertain(j) ==
    /\ j \in jobs /\ j.op = "uncertain"
    /\ MarkUncertain(j.of.sid, j.of.att)
    /\ jobs' = jobs \ {j}
    /\ UNCHANGED <<req, sends, published>>

\* The recorder acknowledged the final event: terminal events and envelope go out.
Publish(r) ==
    /\ req[r].pc = "recording"
    /\ Leave(r, {})
    /\ published' = published \cup {req[r].att}
    /\ UNCHANGED <<storeVars, sends>>

\* An early return, a timeout, an invalid reply, a recorder failure or a client
\* that disconnects: the request ends wherever it is.
Abandon(r) ==
    /\ req[r].pc # "idle"
    /\ Leave(r, Detached(req[r]) \cup Dropped(req[r]))
    /\ UNCHANGED <<storeVars, sends, published>>

\* The process dies with every future and every submitted transaction.
Kill ==
    /\ Crash
    /\ req' = [r \in Requests |-> Idle]
    /\ jobs' = {}
    /\ UNCHANGED <<sends, published>>

Host ==
    /\ \/ \E s \in Sessions, o \in Origins : Create(s, o)
       \/ \E s \in Sessions, kind \in TransitionKinds, p \in Portables \cup {None} :
             Transition(s, session[s].revision, kind, p)
       \/ \E k \in Keys : Open(k)
       \/ \E a \in Attempts : LosePayload(a)
    /\ UNCHANGED <<req, jobs, sends, published>>

ProxyNext ==
    \/ Host
    \/ Kill
    \/ \E r \in Requests :
         \/ \E s \in Sessions : Arrive(r, s)
         \/ \E a \in Attempts : RestoreToken(r, a) \/ Reserved(r, a)
         \/ \E i \in Inputs : Admit(r, i)
         \/ \E t \in BOOLEAN, z \in Sizes : Complete(r, t, z)
         \/ Prepare(r) \/ Reserve(r) \/ Dispatch(r) \/ Finalized(r)
         \/ Refused(r) \/ Publish(r) \/ Abandon(r)
    \/ \E j \in jobs :
         \/ \E a \in Attempts : LateBegin(j, a)
         \/ LateFinalize(j) \/ LateUncertain(j) \/ LateRefused(j)

ProxySpec == ProxyInit /\ [][ProxyNext]_vars

-----------------------------------------------------------------------------
(* Properties.                                                             *)

\* The futures hold session copies, attempt ids and stages of the code.
ProxyTypeOK ==
    /\ StoreTypeOK
    /\ req \in [Requests -> Request]
    /\ jobs \subseteq [op : {"begin", "finalize", "uncertain"}, of : Request]
    /\ sends \in [Attempts -> Nat]
    /\ published \subseteq Attempts

\* What the client has been given is durable: an envelope or terminal event is
\* out only for a finalized attempt, whatever was cancelled, killed or lost since.
PublishedIsDurable ==
    \A a \in published : attempt[a].status = "finalized" /\ record[a].replay # None

\* No turn is built on a response the client never received: the parent of every
\* finalized record was published, also when the recorder failed after an earlier
\* finalization or two requests raced on one session.
ParentsArePublished ==
    \A a \in Attempts :
       (record[a].replay # None /\ record[a].replay.parent # None) =>
          record[a].replay.parent \in published

\* The provider is called at most once for one payload in one epoch of a session,
\* over retries, racing connections, cancelled reservations and restarts.
AtMostOnceInference ==
    /\ \A a \in Attempts : sends[a] <= 1
    /\ \A a, b \in Attempts :
         (/\ sends[a] > 0 /\ sends[b] > 0 /\ a # b
          /\ attempt[a].session = attempt[b].session
          /\ attempt[a].epoch = attempt[b].epoch) => attempt[a].input # attempt[b].input

\* At the moment of a provider call its attempt is the pending one of the current
\* epoch, the session still has the head whose history was verified, and no
\* attempt of that epoch has an unknown outcome.
DispatchIsCurrent ==
    [][\A r \in Requests : Dispatch(r) =>
          LET x == req[r] IN
          /\ attempt[x.att].status = "pending"
          /\ attempt[x.att].epoch = session[x.sid].epoch
          /\ session[x.sid].head = x.snap.head
          /\ \A b \in Attempts : (/\ attempt[b].session = x.sid
                                  /\ attempt[b].epoch = session[x.sid].epoch)
                                 => attempt[b].status # "unknown"]_vars

\* What docs/interactions.md says of a pending attempt: when nothing can still
\* settle it (no live request and no submitted transaction holds it), the host's
\* recover decision is accepted and opens a new epoch without a restart.
PendingIsRecoverable ==
    \A a \in Attempts : (up # None /\ attempt[a].status = "pending") =>
       \/ \E r \in Requests : req[r].att = a
       \/ \E j \in jobs : j.of.att = a
       \/ Quiet(attempt[a].session)
=============================================================================
