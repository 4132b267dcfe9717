------------------------------ MODULE TeamHttp ------------------------------
(***************************************************************************)
(* The team entry point (src/crates/team-http): the request ledger, the    *)
(* set of live requests, the request slots, and the futures that admit,    *)
(* forward and end a model request or create a managed session at the peer *)
(* gateway.  A future can be dropped at every await.  Admission runs on a  *)
(* blocking thread under the ledger's mutex and is not stopped by that;    *)
(* the guard it returns is then dropped with its result.                   *)
(***************************************************************************)
EXTENDS Integers, FiniteSets

CONSTANTS
    Connections,   \* concurrent HTTP calls
    Subjects,      \* subjects, each with one model credential
    Ids,           \* admission identifiers (uuid, chosen fresh by admit)
    Names,         \* public session identifiers (uuid, chosen fresh)
    Keys,          \* idempotency keys of session creation
    Internals,     \* session identifiers of the peer gateway
    GatewayIds,    \* x-request-id values of the peer
    Origins,       \* origin digests of the managed route at the peer
    MaxInFlight,   \* Limits.max_in_flight
    MaxVersion,    \* bound: changes of a subject's authorization
    None           \* absent row, Option::None

VARIABLES
    auth,      \* the authority: version and whether the credential is usable
    peer,      \* PeerSource::current: the managed route's origin
    conn,      \* what each future, its job and its guard hold
    row,       \* tables requests, request_events and links
    live,      \* Service.live
    intent,    \* table sessions
    binding,   \* table session_bindings
    posts,     \* creations sent to the peer and not yet handled by it
    created,   \* the peer's sessions: the intent each was created for
    calls,     \* model calls that reached the peer
    late       \* admissions committed after their authorization had changed

vars == <<auth, peer, conn, row, live, intent, binding, posts, created, calls, late>>

Kinds == {"plain", "managed", "create"}

Intent == [subject : Subjects, key : Keys, origin : Origins]

\* gid is the link to a gateway request of the peer's producer; ended stands for the finished event, whichever transport end it names.
Row == [subject : Subjects, version : Nat, gid : GatewayIds \cup {None}, ended : BOOLEAN]

ASSUME TeamAssumption ==
    /\ MaxInFlight \in Nat /\ MaxVersion \in Nat
    /\ None \notin Ids \cup Names \cup Internals \cup GatewayIds \cup Origins \cup Subjects
    /\ None \notin Row /\ None \notin Intent

Stages == {"idle", "authed", "queued", "locked", "committed", "guarded", "sent", "streaming",
           "ending", "posting"}

\* name: x-team-session of a call, the public identifier of a session being created.
\* gone: the future was dropped while its blocking job runs on.
Connection == [pc : Stages, kind : Kinds \cup {None}, subject : Subjects \cup {None}, version : Nat,
               key : Keys \cup {None}, name : Names \cup {None}, peer : Origins \cup {None},
               internal : Internals \cup {None}, id : Ids \cup {None}, gone : BOOLEAN]

Idle == [pc |-> "idle", kind |-> None, subject |-> None, version |-> 0, key |-> None,
         name |-> None, peer |-> None, internal |-> None, id |-> None, gone |-> FALSE]

TeamInit ==
    /\ auth = [s \in Subjects |-> [version |-> 0, enabled |-> TRUE]]
    /\ peer \in Origins
    /\ conn = [r \in Connections |-> Idle]
    /\ row = [i \in Ids |-> None]
    /\ live = {}
    /\ intent = [n \in Names |-> None]
    /\ binding = [n \in Names |-> None]
    /\ posts = {}
    /\ created = [x \in Internals |-> None]
    /\ calls = {}
    /\ late = {}

Set(r, x) == conn' = [conn EXCEPT ![r] = x]

\* The permit of a model request moves into its job and its guard; that of a session
\* creation stays with the future.
Permits == {r \in Connections :
              conn[r].pc # "idle" /\ ~(conn[r].kind = "create" /\ conn[r].gone)}

\* The mutex of the ledger is held by the job between refresh and the end of admission.
LedgerFree == \A r \in Connections : conn[r].pc \notin {"locked", "committed"}

Current(s, version) == auth[s].enabled /\ auth[s].version = version

-----------------------------------------------------------------------------
(* responses and create_session up to the blocking job.                    *)

\* permit and authenticate.
Arrive(r, s, kind, key, name) ==
    /\ conn[r].pc = "idle"
    /\ Cardinality(Permits) < MaxInFlight
    /\ auth[s].enabled
    /\ Set(r, [Idle EXCEPT !.pc = "authed", !.kind = kind, !.subject = s,
                           !.version = auth[s].version, !.key = key, !.name = name])
    /\ UNCHANGED <<auth, peer, row, live, intent, binding, posts, created, calls, late>>

\* The body is read and the job handed to a blocking thread.
Submit(r) ==
    /\ conn[r].pc = "authed"
    /\ Set(r, [conn[r] EXCEPT !.pc = "queued"])
    /\ UNCHANGED <<auth, peer, row, live, intent, binding, posts, created, calls, late>>

-----------------------------------------------------------------------------
(* The blocking job: ledger mutex, peer, refresh, session lookup, INSERT.  *)

\* Mutant of Resolves: the lookup does not compare the subject.
ResolvesAny(x, o, i) ==
    \/ x.kind \in {"plain", "create"} /\ i = None
    \/ /\ x.kind = "managed" /\ x.name # None
       /\ intent[x.name] # None
       /\ intent[x.name].origin = o
       /\ i = binding[x.name] /\ i # None

\* Ledger::session, and the origin the session was created for: the internal
\* session i that a call of x is sent with.
Resolves(x, o, i) ==
    \/ x.kind \in {"plain", "create"} /\ i = None
    \/ /\ x.kind = "managed" /\ x.name # None
       /\ intent[x.name] # None
       /\ intent[x.name].subject = x.subject
       /\ intent[x.name].origin = o
       /\ i = binding[x.name] /\ i # None

\* Mutant of LockRefresh: what authenticate returned is used without a refresh.
LockStale(r, i) ==
    /\ conn[r].pc = "queued"
    /\ LedgerFree
    /\ Resolves(conn[r], peer, i)
    /\ Set(r, [conn[r] EXCEPT !.pc = "locked", !.peer = peer, !.internal = i])
    /\ UNCHANGED <<auth, peer, row, live, intent, binding, posts, created, calls, late>>

LockRefresh(r, i) ==
    /\ conn[r].pc = "queued"
    /\ LedgerFree
    /\ Current(conn[r].subject, conn[r].version)
    /\ Resolves(conn[r], peer, i)
    /\ Set(r, [conn[r] EXCEPT !.pc = "locked", !.peer = peer, !.internal = i])
    /\ UNCHANGED <<auth, peer, row, live, intent, binding, posts, created, calls, late>>

\* admit: the row commits before anything is sent.
Admit(r, i) ==
    /\ conn[r].pc = "locked" /\ conn[r].kind # "create"
    /\ row[i] = None
    /\ row' = [row EXCEPT ![i] =
                 [subject |-> conn[r].subject, version |-> conn[r].version,
                  gid |-> None, ended |-> FALSE]]
    /\ late' = IF Current(conn[r].subject, conn[r].version) THEN late ELSE late \cup {i}
    /\ Set(r, [conn[r] EXCEPT !.pc = "committed", !.id = i])
    /\ UNCHANGED <<auth, peer, live, intent, binding, posts, created, calls>>

\* The job marks the request live, builds its guard and releases the mutex.
Return(r) ==
    /\ conn[r].pc = "committed"
    /\ live' = live \cup {conn[r].id}
    /\ Set(r, [conn[r] EXCEPT !.pc = "guarded"])
    /\ UNCHANGED <<auth, peer, row, intent, binding, posts, created, calls, late>>

\* Mutant of Fresh: the table has no UNIQUE(subject, idempotency_key).
FreshAlways(s, k) == TRUE

Fresh(s, k) == \A n \in Names : intent[n] # None => intent[n].subject # s \/ intent[n].key # k

\* session_intent: a new intent, for the origin of the peer as the job saw it.  A
\* future that is still there sends the creation to the peer, once.
Intend(r, n) ==
    /\ conn[r].pc = "locked" /\ conn[r].kind = "create"
    /\ Fresh(conn[r].subject, conn[r].key)
    /\ intent[n] = None
    /\ intent' = [intent EXCEPT ![n] = [subject |-> conn[r].subject, key |-> conn[r].key,
                                       origin |-> conn[r].peer]]
    /\ \/ conn[r].gone /\ Set(r, Idle) /\ posts' = posts
       \/ /\ ~conn[r].gone
          /\ Set(r, [conn[r] EXCEPT !.pc = "posting", !.name = n])
          /\ posts' = posts \cup {n}
    /\ UNCHANGED <<auth, peer, row, live, binding, created, calls, late>>

\* Every early return without a guard: a refused refresh, lookup or write, a known
\* idempotency key, no free job, a malformed body.
Reject(r) ==
    /\ conn[r].pc \in {"authed", "queued", "locked"}
    /\ Set(r, Idle)
    /\ UNCHANGED <<auth, peer, row, live, intent, binding, posts, created, calls, late>>

-----------------------------------------------------------------------------
(* The admitted request.                                                   *)

\* send: the peer receives the call once; the client retries nothing.
Call(r) ==
    /\ conn[r].pc = "guarded" /\ ~conn[r].gone
    /\ calls' = calls \cup {[id |-> conn[r].id, subject |-> conn[r].subject,
                            internal |-> conn[r].internal, peer |-> conn[r].peer]}
    /\ Set(r, [conn[r] EXCEPT !.pc = "sent"])
    /\ UNCHANGED <<auth, peer, row, live, intent, binding, posts, created, late>>

\* INSERT INTO links: a producer and gateway request have one owner.
Link(i, g) == g = None \/ \A k \in Ids : row[k] # None => row[k].gid # g

\* Response headers: their evidence commits with the link or not at all, and a
\* failure does not stop the response.
Headers(r, g) ==
    /\ conn[r].pc = "sent"
    /\ LedgerFree
    /\ \/ /\ Link(conn[r].id, g)
          /\ row' = [row EXCEPT ![conn[r].id] = [@ EXCEPT !.gid = g]]
       \/ row' = row
    /\ Set(r, [conn[r] EXCEPT !.pc = "streaming"])
    /\ UNCHANGED <<auth, peer, live, intent, binding, posts, created, calls, late>>

\* Guard::finish, first half: the request is no longer live.
Ending(r) ==
    /\ live' = live \ {conn[r].id}
    /\ Set(r, [conn[r] EXCEPT !.pc = "ending"])
    /\ UNCHANGED <<auth, peer, row, intent, binding, posts, created, calls, late>>

\* The connection fails or the headers time out; the body ends, is lost, idles or
\* exceeds its limit.
TransportEnds(r) == conn[r].pc \in {"sent", "streaming"} /\ Ending(r)

\* Guard::finish, second half: the end is recorded, or that fails; then the permit
\* is released.
Finish(r) ==
    /\ conn[r].pc = "ending"
    /\ LedgerFree
    /\ \/ row' = [row EXCEPT ![conn[r].id] = [@ EXCEPT !.ended = TRUE]]
       \/ row' = row
    /\ Set(r, Idle)
    /\ UNCHANGED <<auth, peer, live, intent, binding, posts, created, calls, late>>

-----------------------------------------------------------------------------
(* Session creation at the peer.                                           *)

\* The peer handles a creation, also when nobody waits for its answer any more.
PeerCreates(n, x) ==
    /\ n \in posts
    /\ created[x] = None
    /\ created' = [created EXCEPT ![x] = n]
    /\ posts' = posts \ {n}
    /\ UNCHANGED <<auth, peer, conn, row, live, intent, binding, calls, late>>

\* The answer arrives; bind_session, under UNIQUE(internal).
Bind(r, x) ==
    /\ conn[r].pc = "posting"
    /\ LedgerFree
    /\ created[x] = conn[r].name
    /\ \A n \in Names : binding[n] # x
    /\ binding' = [binding EXCEPT ![conn[r].name] = x]
    /\ Set(r, Idle)
    /\ UNCHANGED <<auth, peer, row, live, intent, posts, created, calls, late>>

\* A lost, late or refused answer, a failed write or a dropped future: the session
\* stays unconfirmed.
Unconfirmed(r) ==
    /\ conn[r].pc = "posting"
    /\ Set(r, Idle)
    /\ UNCHANGED <<auth, peer, row, live, intent, binding, posts, created, calls, late>>

-----------------------------------------------------------------------------
(* The client, the host and the process.                                   *)

\* Mutant of Disconnect: the guard is not part of the result that is dropped.
DisconnectLoses(r) ==
    /\ conn[r].pc \in {"queued", "locked", "committed", "guarded"}
    /\ Set(r, IF conn[r].pc = "guarded" THEN Idle ELSE [conn[r] EXCEPT !.gone = TRUE])
    /\ UNCHANGED <<auth, peer, row, live, intent, binding, posts, created, calls, late>>

\* The future is dropped: its job runs on; its guard, or the guard in the result
\* that its job returns to nobody, finishes.
Disconnect(r) ==
    \/ /\ conn[r].pc \in {"queued", "locked", "committed"} /\ ~conn[r].gone
       /\ Set(r, [conn[r] EXCEPT !.gone = TRUE])
       /\ UNCHANGED <<auth, peer, row, live, intent, binding, posts, created, calls, late>>
    \/ /\ conn[r].pc \in {"guarded", "sent", "streaming"}
       /\ Ending(r)

\* The host changes a subject's permissions, or revokes and replaces its credential.
ChangeAuthority(s, enabled) ==
    /\ auth[s].version < MaxVersion
    /\ auth' = [auth EXCEPT ![s] = [version |-> auth[s].version + 1, enabled |-> enabled]]
    /\ UNCHANGED <<peer, conn, row, live, intent, binding, posts, created, calls, late>>

ReplacePeer(o) ==
    /\ peer' = o
    /\ UNCHANGED <<auth, conn, row, live, intent, binding, posts, created, calls, late>>

\* The process ends; the ledger stays and nothing in it is completed on reopening.
Crash ==
    /\ conn' = [r \in Connections |-> Idle]
    /\ live' = {}
    /\ UNCHANGED <<auth, peer, row, intent, binding, posts, created, calls, late>>

TeamNext ==
    \/ \E r \in Connections :
         \/ \E s \in Subjects :
              \/ Arrive(r, s, "plain", None, None)
              \/ \E n \in Names : Arrive(r, s, "managed", None, n)
              \/ \E k \in Keys : Arrive(r, s, "create", k, None)
         \/ Submit(r)
         \/ \E i \in Internals \cup {None} : LockRefresh(r, i)
         \/ \E i \in Ids : Admit(r, i)
         \/ \E n \in Names : Intend(r, n)
         \/ Return(r) \/ Reject(r) \/ Call(r)
         \/ \E g \in GatewayIds \cup {None} : Headers(r, g)
         \/ TransportEnds(r) \/ Finish(r)
         \/ \E x \in Internals : Bind(r, x)
         \/ Unconfirmed(r) \/ Disconnect(r)
    \/ \E s \in Subjects, e \in BOOLEAN : ChangeAuthority(s, e)
    \/ \E o \in Origins : ReplacePeer(o)
    \/ \E n \in Names, x \in Internals : PeerCreates(n, x)
    \/ Crash

TeamSpec == TeamInit /\ [][TeamNext]_vars

-----------------------------------------------------------------------------
(* Properties.                                                             *)

\* Connections, ledger rows and the peer's sessions have the types of the crate.
TeamTypeOK ==
    /\ auth \in [Subjects -> [version : Nat, enabled : BOOLEAN]]
    /\ peer \in Origins
    /\ conn \in [Connections -> Connection]
    /\ row \in [Ids -> Row \cup {None}]
    /\ live \subseteq Ids /\ late \subseteq Ids
    /\ intent \in [Names -> Intent \cup {None}]
    /\ binding \in [Names -> Internals \cup {None}]
    /\ posts \subseteq Names
    /\ created \in [Internals -> Names \cup {None}]
    /\ calls \subseteq [id : Ids, subject : Subjects, internal : Internals \cup {None},
                        peer : Origins]

\* A request is active exactly while a guard for it exists that will end it: a
\* caller cancelled before, during or after admission leaves no orphan that the
\* usage view would show as active.
ActiveIsOwned ==
    \A i \in Ids : i \in live <=>
       \E r \in Connections : conn[r].id = i /\ conn[r].pc \in {"guarded", "sent", "streaming"}

\* When a subject's authorization changes, at most one request is still admitted
\* under the old one: the job that had refreshed it and holds the ledger.
OneLateAdmission ==
    \A i, j \in late :
       (row[i].subject = row[j].subject /\ row[i].version = row[j].version) => i = j

\* Every call to the peer was admitted in the ledger for its subject beforehand, and
\* the session it carries was created at the peer for an intent of that subject and
\* for the origin the peer was registered with, over lost answers, replaced peers
\* and restarts.
CallsAreAdmitted ==
    \A c \in calls :
       /\ row[c.id] # None /\ row[c.id].subject = c.subject
       /\ c.internal # None =>
            /\ created[c.internal] # None
            /\ intent[created[c.internal]].subject = c.subject
            /\ intent[created[c.internal]].origin = c.peer

\* A subject's idempotency key creates at most one session at the peer, whatever
\* answers are lost and however often the creation is retried.
CreatedOnce ==
    \A x, y \in Internals :
       (/\ created[x] # None /\ created[y] # None
        /\ intent[created[x]].subject = intent[created[y]].subject
        /\ intent[created[x]].key = intent[created[y]].key) => x = y
=============================================================================
