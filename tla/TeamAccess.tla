----------------------------- MODULE TeamAccess -----------------------------
(***************************************************************************)
(* The team authority (src/crates/team-access): members, credentials and   *)
(* effect receipts in one SQLite store, changed by the manager under the   *)
(* management journal in another, and the authenticator that reads both    *)
(* through connections of its own.  An effect and its receipt commit       *)
(* together; the store and the journal never do.                           *)
(***************************************************************************)
EXTENDS ManagementJournal

CONSTANTS
    Members,      \* subjects of the team
    Credentials   \* credential identifiers, each issued at most once

VARIABLES
    member,      \* table subjects: revision and the permission to do anything at all
    credential,  \* table credentials
    receipt,     \* table receipts: the credential an operation issued
    secret,      \* the executor's output slot
    delivered,   \* credentials whose secret was returned to the host
    held,        \* authorization version a caller got for a credential
    stale,       \* credentials whose authority changed after their version was read
    confirmed    \* Authority.confirmed: issuance evidence seen once

accessVars == <<member, credential, receipt, secret, delivered, held, stale, confirmed>>
vars == <<journalVars, accessVars>>

Command == [kind : {"register"}, member : Members, enabled : BOOLEAN]
           \cup [kind : {"change"}, member : Members, enabled : BOOLEAN]
           \cup [kind : {"issue"}, member : Members, cred : Credentials]
           \cup [kind : {"revoke"}, cred : Credentials]
           \cup {c \in [kind : {"rotate"}, cred : Credentials, replacement : Credentials] :
                   c.cred # c.replacement}

MemberRow == [revision : Nat, enabled : BOOLEAN]
CredentialRow == [member : Members, revoked : BOOLEAN, operation : Operations]
Version == [revision : Nat, enabled : BOOLEAN, revoked : BOOLEAN]
Receipt == [issued : Credentials \cup {None}]

ASSUME AccessAssumption ==
    /\ None \notin Members \cup Credentials
    /\ None \notin MemberRow /\ None \notin CredentialRow
    /\ None \notin Version /\ None \notin Receipt
    /\ Requests \subseteq Command

\* A new store, or one with members registered under an earlier journal.
AccessInit ==
    /\ JournalInit
    /\ member \in [Members -> {None, [revision |-> 1, enabled |-> TRUE]}]
    /\ credential = [c \in Credentials |-> None]
    /\ receipt = [o \in Operations |-> None]
    /\ secret = None
    /\ delivered = {}
    /\ held = [c \in Credentials |-> None]
    /\ stale = {}
    /\ confirmed = {}

-----------------------------------------------------------------------------
(* The manager.                                                            *)

\* validate, under the write transaction that is held until apply.
Validate(q) ==
    CASE q.kind = "register" -> member[q.member] = None
      [] q.kind = "change"   -> member[q.member] # None
      [] q.kind = "issue"    -> /\ member[q.member] # None /\ member[q.member].enabled
                                /\ credential[q.cred] = None
      [] q.kind = "revoke"   -> credential[q.cred] # None /\ ~credential[q.cred].revoked
      [] q.kind = "rotate"   -> /\ credential[q.cred] # None /\ ~credential[q.cred].revoked
                                /\ member[credential[q.cred].member].enabled
                                /\ credential[q.replacement] = None

AAccept(o, s, k, q) ==
    /\ Validate(q)
    /\ Accept(o, s, k, q)
    /\ UNCHANGED accessVars

ABegin == Begin /\ UNCHANGED accessVars

Cmd == operation[exec.op].request

\* Mutant of Changed: a change of permissions keeps the revision.
ChangedInPlace(m, enabled) == [member EXCEPT ![m] = [revision |-> @.revision, enabled |-> enabled]]

Changed(m, enabled) == [member EXCEPT ![m] = [revision |-> @.revision + 1, enabled |-> enabled]]

\* revoke.
Revoked(c) == [credential EXCEPT ![c] = [@ EXCEPT !.revoked = TRUE]]

\* issue: a row that names the operation it was issued by.
Issued(rows, m, c) ==
    [rows EXCEPT ![c] = [member |-> m, revoked |-> FALSE, operation |-> exec.op]]

\* rotate: the old credential is revoked in the same transaction.
Rotated(c, d) == Issued(Revoked(c), credential[c].member, d)

\* The credential a command issues.
New(q) == IF q.kind = "issue" THEN q.cred ELSE IF q.kind = "rotate" THEN q.replacement ELSE None

\* The rows a command touches: a version read before it is stale.
Touched(q) ==
    {c \in Credentials : credential[c] # None /\
       \/ q.kind = "change" /\ credential[c].member = q.member
       \/ q.kind \in {"revoke", "rotate"} /\ c = q.cred}

\* One transaction: the rows and the receipt.
Commit ==
    /\ member' = CASE Cmd.kind = "register" ->
                        [member EXCEPT ![Cmd.member] = [revision |-> 1, enabled |-> Cmd.enabled]]
                   [] Cmd.kind = "change"   -> Changed(Cmd.member, Cmd.enabled)
                   [] OTHER                 -> member
    /\ credential' = CASE Cmd.kind = "issue"  -> Issued(credential, Cmd.member, Cmd.cred)
                       [] Cmd.kind = "revoke" -> Revoked(Cmd.cred)
                       [] Cmd.kind = "rotate" -> Rotated(Cmd.cred, Cmd.replacement)
                       [] OTHER               -> credential
    /\ receipt' = [receipt EXCEPT ![exec.op] = [issued |-> New(Cmd)]]
    /\ stale' = stale \cup Touched(Cmd)

\* Mutant of Applied: a commit that reports an error is taken not to have happened.
AppliedWrongly ==
    \/ Returned("applied", TRUE) /\ Commit /\ secret' = New(Cmd)
    \/ Returned("not_applied", TRUE) /\ Commit /\ secret' = None

\* apply: commit; or roll back; or a commit whose result is not known.
Applied ==
    \/ Returned("applied", TRUE) /\ Commit /\ secret' = New(Cmd)
    \/ Returned("not_applied", FALSE) /\ UNCHANGED <<member, credential, receipt, stale>> /\ secret' = None
    \/ Returned("uncertain", TRUE) /\ Commit /\ secret' = None
    \/ Returned("uncertain", FALSE) /\ UNCHANGED <<member, credential, receipt, stale>> /\ secret' = None

AApply == Applied /\ UNCHANGED <<delivered, held, confirmed>>

\* execute returns: the secret leaves only with a recorded success.
AFinish ==
    /\ Finish
    /\ delivered' = IF exec.effect = "applied" /\ secret # None
                    THEN delivered \cup {secret} ELSE delivered
    /\ secret' = None
    /\ UNCHANGED <<member, credential, receipt, held, stale, confirmed>>

\* A row of the journal is not written: execute fails and the secret is dropped.
AAppendFails ==
    /\ AppendFails
    /\ secret' = None
    /\ UNCHANGED <<member, credential, receipt, delivered, held, stale, confirmed>>

ASettle(o) == (Settle(o) \/ Recover(o)) /\ UNCHANGED accessVars

\* reconcile: only a receipt is evidence.
Evidence(o) == IF receipt[o] # None THEN "applied" ELSE "uncertain"

AReconcile(o) == Reconciled(o, Evidence(o)) /\ UNCHANGED accessVars

AOpen == (Open \/ Opened) /\ UNCHANGED accessVars

\* The manager dies; inside apply its transaction was committed or was not.
ACrash ==
    /\ mode # "closed"
    /\ mode' = "closed"
    /\ exec' = IdleExec
    /\ \/ UNCHANGED <<member, credential, receipt, stale, done>>
       \/ exec.pc = "started" /\ Commit /\ done' = done \cup {exec.op}
    /\ secret' = None
    /\ UNCHANGED <<operation, events, delivered, held, confirmed>>

-----------------------------------------------------------------------------
(* The authenticator.                                                      *)

Active(c) ==
    /\ credential[c] # None /\ ~credential[c].revoked
    /\ member[credential[c].member] # None /\ member[credential[c].member].enabled

\* Digest over the credential, the revision and the permissions.
VersionOf(c) == [revision |-> member[credential[c].member].revision,
                 enabled |-> member[credential[c].member].enabled,
                 revoked |-> credential[c].revoked]

\* principal: one read transaction for the rows.
Lookup(c) ==
    /\ Active(c)
    /\ held' = [held EXCEPT ![c] = VersionOf(c)]
    /\ stale' = stale \ {c}
    /\ UNCHANGED <<journalVars, member, credential, receipt, secret, delivered, confirmed>>

\* Mutant of Issuance: the row in the team store is taken as evidence.
IssuanceUnrecorded(c) == receipt[credential[c].operation] = [issued |-> c]

\* The journal records the issuance as succeeded, and its receipt names this credential.
Issuance(c) ==
    /\ Recorded(credential[c].operation)
    /\ State(credential[c].operation) = "succeeded"
    /\ receipt[credential[c].operation] = [issued |-> c]

\* principal, later: the audit read and verify_issuance, cached when positive.
Confirm(c) ==
    /\ held[c] # None
    /\ Issuance(c)
    /\ confirmed' = confirmed \cup {c}
    /\ UNCHANGED <<journalVars, member, credential, receipt, secret, delivered, held, stale>>

\* The authenticator is reopened.
Forget ==
    /\ confirmed' = {}
    /\ held' = [c \in Credentials |-> None]
    /\ stale' = {}
    /\ UNCHANGED <<journalVars, member, credential, receipt, secret, delivered>>

AccessNext ==
    \/ \E o \in Operations, s \in Subjects, k \in Keys, q \in Requests : AAccept(o, s, k, q)
    \/ ABegin \/ AApply \/ AFinish \/ AAppendFails
    \/ \E o \in Operations : ASettle(o) \/ AReconcile(o)
    \/ AOpen \/ ACrash
    \/ \E c \in Credentials : Lookup(c) \/ Confirm(c)
    \/ Forget

AccessSpec == AccessInit /\ [][AccessNext]_vars

-----------------------------------------------------------------------------
(* Properties.                                                             *)

\* The two stores and the authenticator have the types of the crate.
AccessTypeOK ==
    /\ JournalTypeOK
    /\ member \in [Members -> MemberRow \cup {None}]
    /\ credential \in [Credentials -> CredentialRow \cup {None}]
    /\ receipt \in [Operations -> Receipt \cup {None}]
    /\ secret \in Credentials \cup {None}
    /\ delivered \subseteq Credentials /\ stale \subseteq Credentials
    /\ held \in [Credentials -> Version \cup {None}]
    /\ confirmed \subseteq Credentials

\* The host authenticates a credential, or holds its secret, only when the journal
\* has recorded its issuance as succeeded; and once a rotated credential can be used,
\* the one it replaced is revoked: whatever commit, result row or answer was lost.
UsableIsAudited ==
    /\ \A c \in confirmed \cup delivered : State(credential[c].operation) = "succeeded"
    /\ \A c \in confirmed :
         LET q == operation[credential[c].operation].request IN
         q.kind = "rotate" => credential[q.cred].revoked

\* A refresh notices every change: a version read before the member's permissions or
\* the credential changed never equals the current one again, also when a permission
\* was withdrawn and granted again.
RefreshSeesChange ==
    \A c \in stale : held[c] # None => held[c] # VersionOf(c)
=============================================================================
