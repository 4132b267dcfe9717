-------------------------- MODULE TeamAccessProofs --------------------------
(***************************************************************************)
(* Proofs about the team authority, for any number of members,             *)
(* credentials and operations.                                             *)
(*                                                                         *)
(* The argument has two halves.  First, the manager is an adapter of the   *)
(* journal: every step of AccessSpec is a step of JournalSpec, because the *)
(* only evidence reconcile accepts, a receipt, is written by the           *)
(* transaction that has the effect.  So everything proved of the journal   *)
(* holds here.  Second, Validate still holds when the command is applied   *)
(* (the write transaction is kept), so a credential row is written once,   *)
(* by the operation it names, and a revision only grows.                   *)
(***************************************************************************)
EXTENDS TeamAccess, ManagementJournalProofs

-----------------------------------------------------------------------------
(* The inductive invariant.                                                *)

\* A receipt is written with its effect, and a credential with its receipt; the
\* one a rotation replaced was revoked in the same transaction.
Evidenced ==
    /\ \A o \in Operations : receipt[o] # None => o \in done
    /\ \A c \in Credentials : credential[c] # None =>
          LET o == credential[c].operation IN
          /\ receipt[o] = [issued |-> c]
          /\ member[credential[c].member] # None
          /\ operation[o].request.kind = "rotate" =>
                /\ operation[o].request.cred \in Credentials
                /\ credential[operation[o].request.cred] # None
                /\ credential[operation[o].request.cred].revoked

\* Until apply the command is still valid; a secret is that of the operation
\* that has been applied and not yet recorded.
ExecutorHolds ==
    /\ exec.pc \in {"accepted", "started"} => Validate(Cmd)
    /\ secret # None => /\ exec.pc = "applied" /\ exec.effect = "applied"
                        /\ credential[secret] # None
                        /\ credential[secret].operation = exec.op

\* A version that was read is not newer than the rows, and older in its revision
\* or its revocation once they changed.
VersionsAge ==
    \A c \in Credentials : held[c] # None =>
       /\ credential[c] # None /\ ~held[c].revoked
       /\ held[c].revision <= member[credential[c].member].revision
       /\ c \in stale => \/ held[c].revision < member[credential[c].member].revision
                         \/ credential[c].revoked

\* What the host uses was issued by an operation that succeeded.
Audited ==
    \A c \in confirmed \cup delivered :
       credential[c] # None /\ State(credential[c].operation) = "succeeded"

AccessInv ==
    JournalInv /\ AccessTypeOK /\ Evidenced /\ ExecutorHolds /\ VersionsAge /\ Audited

-----------------------------------------------------------------------------
(* Commands, rows and what one transaction writes.                         *)

\* The fields a command has, by its kind.
LEMMA CommandFields ==
  ASSUME NEW q \in Requests
  PROVE  /\ q.kind \in {"register", "change", "issue", "revoke", "rotate"}
         /\ q.kind = "register" => q.member \in Members /\ q.enabled \in BOOLEAN
         /\ q.kind = "change" => q.member \in Members /\ q.enabled \in BOOLEAN
         /\ q.kind = "issue" => q.member \in Members /\ q.cred \in Credentials
         /\ q.kind = "revoke" => q.cred \in Credentials
         /\ q.kind = "rotate" => /\ q.cred \in Credentials /\ q.replacement \in Credentials
                                 /\ q.cred # q.replacement
<1>1. q \in Command
  BY AccessAssumption
<1> QED
  BY <1>1 DEF Command

\* The executor's command while there is one.
LEMMA ExecutorsCommand ==
  ASSUME AccessInv, exec.pc # "idle"
  PROVE  exec.op \in Operations /\ Recorded(exec.op) /\ operation[exec.op] \in Row /\ Cmd \in Requests
  BY DEF AccessInv, JournalInv, JournalTypeOK, Whereabouts, Recorded, Row, Cmd

\* What a transaction leaves of the rows, whichever command it is for.
Grown ==
    /\ \A m \in Members : member[m] # None =>
          member'[m] # None /\ member[m].revision <= member'[m].revision
    /\ \A c \in Credentials : credential[c] # None =>
          /\ credential'[c] # None
          /\ credential'[c].member = credential[c].member
          /\ credential'[c].operation = credential[c].operation
          /\ credential[c].revoked => credential'[c].revoked

\* Rows that were not there before are those of the command, and what it replaces
\* is revoked.
Added ==
    \A c \in Credentials : credential[c] = None /\ credential'[c] # None =>
       /\ c = New(Cmd)
       /\ credential'[c].operation = exec.op
       /\ member'[credential'[c].member] # None
       /\ Cmd.kind = "rotate" =>
             /\ Cmd.cred \in Credentials
             /\ credential'[Cmd.cred] # None /\ credential'[Cmd.cred].revoked

\* A row that was touched shows it in its revision or its revocation.
Shown ==
    \A c \in Touched(Cmd) :
       \/ member[credential[c].member].revision < member'[credential[c].member].revision
       \/ credential'[c].revoked

\* Commit, for a command that is valid.
LEMMA CommitEffect ==
  ASSUME AccessInv, exec.pc = "started", Commit
  PROVE  /\ member' \in [Members -> MemberRow \cup {None}]
         /\ credential' \in [Credentials -> CredentialRow \cup {None}]
         /\ receipt' \in [Operations -> Receipt \cup {None}]
         /\ stale' \subseteq Credentials
         /\ Grown /\ Added /\ Shown
         /\ New(Cmd) # None => New(Cmd) \in Credentials /\ credential'[New(Cmd)] # None
         /\ New(Cmd) # None => credential'[New(Cmd)].operation = exec.op
<1> DEFINE q == Cmd
<1>1. exec.op \in Operations /\ q \in Requests
  BY ExecutorsCommand
<1>2. /\ member \in [Members -> MemberRow \cup {None}]
      /\ credential \in [Credentials -> CredentialRow \cup {None}]
      /\ receipt \in [Operations -> Receipt \cup {None}]
      /\ stale \subseteq Credentials
      /\ Validate(q)
      /\ \A c \in Credentials : credential[c] # None => member[credential[c].member] # None
  BY DEF AccessInv, AccessTypeOK, ExecutorHolds, Evidenced
<1>3. New(q) \in Credentials \cup {None}
  BY <1>1, CommandFields DEF New
<1>4. receipt' \in [Operations -> Receipt \cup {None}] /\ stale' \subseteq Credentials
  BY <1>1, <1>2, <1>3 DEF Commit, Receipt, Touched
<1>5. CASE q.kind = "register"
  <2>1. /\ q.member \in Members /\ q.enabled \in BOOLEAN /\ member[q.member] = None
        /\ member' = [member EXCEPT ![q.member] = [revision |-> 1, enabled |-> q.enabled]]
        /\ credential' = credential
    BY <1>1, <1>2, <1>5, CommandFields DEF Commit, Validate
  <2>2. [revision |-> 1, enabled |-> q.enabled] \in MemberRow
    BY <2>1 DEF MemberRow
  <2>3. New(q) = None /\ Touched(q) = {}
    BY <1>5 DEF New, Touched
  <2>4. member' \in [Members -> MemberRow \cup {None}]
    BY <1>2, <2>1, <2>2
  <2>5. \A m \in Members : member[m] # None => member'[m] = member[m]
    BY <1>2, <2>1
  <2>6. \A m \in Members : member[m] # None => member[m].revision \in Nat
    BY <1>2 DEF MemberRow
  <2>7. Grown /\ Added /\ Shown
    BY <2>1, <2>3, <2>5, <2>6 DEF Grown, Added, Shown
  <2> QED
    BY <1>2, <1>4, <2>1, <2>3, <2>4, <2>7
<1>6. CASE q.kind = "change"
  <2>1. /\ q.member \in Members /\ q.enabled \in BOOLEAN /\ member[q.member] # None
        /\ member' = [member EXCEPT ![q.member] = [revision |-> member[q.member].revision + 1,
                                                   enabled |-> q.enabled]]
        /\ credential' = credential
    BY <1>1, <1>2, <1>6, CommandFields DEF Commit, Validate, Changed
  <2>2. \A m \in Members : member[m] # None => member[m].revision \in Nat
    BY <1>2 DEF MemberRow
  <2>3. [revision |-> member[q.member].revision + 1, enabled |-> q.enabled] \in MemberRow
    BY <2>1, <2>2 DEF MemberRow
  <2>4. New(q) = None /\ \A c \in Touched(q) : c \in Credentials /\ credential[c].member = q.member
    BY <1>6 DEF New, Touched
  <2>5. member' \in [Members -> MemberRow \cup {None}]
    BY <1>2, <2>1, <2>3
  <2>6. /\ member'[q.member].revision = member[q.member].revision + 1
        /\ member'[q.member] # None
        /\ \A m \in Members \ {q.member} : member'[m] = member[m]
    BY <1>2, <2>1, <2>3, AccessAssumption
  <2>7. Grown /\ Added /\ Shown
    BY <2>1, <2>2, <2>4, <2>6 DEF Grown, Added, Shown
  <2> QED
    BY <1>2, <1>4, <2>1, <2>4, <2>5, <2>7
<1>7. \A c \in Credentials, m \in Members :
         [member |-> m, revoked |-> FALSE, operation |-> exec.op] \in CredentialRow
  BY <1>1 DEF CredentialRow
<1>8. \A m \in Members : member[m] # None => member[m].revision <= member[m].revision
  BY <1>2 DEF MemberRow
<1>9. CASE q.kind = "issue"
  <2> DEFINE new == [member |-> q.member, revoked |-> FALSE, operation |-> exec.op]
  <2>1. /\ q.member \in Members /\ q.cred \in Credentials /\ member[q.member] # None
        /\ credential[q.cred] = None
        /\ member' = member
        /\ credential' = [credential EXCEPT ![q.cred] = new]
    BY <1>1, <1>2, <1>9, CommandFields DEF Commit, Validate, Issued
  <2>2. new \in CredentialRow /\ new # None
    BY <1>7, <2>1, AccessAssumption
  <2>3. New(q) = q.cred /\ Touched(q) = {}
    BY <1>9 DEF New, Touched
  <2>4. credential' \in [Credentials -> CredentialRow \cup {None}]
    BY <1>2, <2>1, <2>2
  <2>5. credential'[q.cred] = new /\ \A c \in Credentials \ {q.cred} : credential'[c] = credential[c]
    BY <1>2, <2>1
  <2>6. Grown /\ Added /\ Shown
    BY <1>8, <1>9, <2>1, <2>2, <2>3, <2>5 DEF Grown, Added, Shown
  <2> QED
    BY <1>2, <1>4, <2>1, <2>2, <2>3, <2>4, <2>5, <2>6
<1>10. \A c \in Credentials : credential[c] # None =>
          /\ [credential[c] EXCEPT !.revoked = TRUE] \in CredentialRow
          /\ [credential[c] EXCEPT !.revoked = TRUE].revoked = TRUE
          /\ [credential[c] EXCEPT !.revoked = TRUE].member = credential[c].member
          /\ [credential[c] EXCEPT !.revoked = TRUE].operation = credential[c].operation
  BY <1>2 DEF CredentialRow
<1>11. CASE q.kind = "revoke"
  <2> DEFINE old == [credential[q.cred] EXCEPT !.revoked = TRUE]
  <2>1. /\ q.cred \in Credentials /\ credential[q.cred] # None
        /\ member' = member
        /\ credential' = [credential EXCEPT ![q.cred] = old]
    BY <1>1, <1>2, <1>11, CommandFields DEF Commit, Validate, Revoked
  <2>2. /\ old \in CredentialRow /\ old # None /\ old.revoked = TRUE
        /\ old.member = credential[q.cred].member /\ old.operation = credential[q.cred].operation
    BY <1>10, <2>1, AccessAssumption
  <2>3. New(q) = None /\ Touched(q) \subseteq {q.cred}
    BY <1>11 DEF New, Touched
  <2> HIDE DEF old
  <2>4. credential' \in [Credentials -> CredentialRow \cup {None}]
    BY <1>2, <2>1, <2>2
  <2>5. credential'[q.cred] = old /\ \A c \in Credentials \ {q.cred} : credential'[c] = credential[c]
    BY <1>2, <2>1
  <2>6. Grown
    BY <1>8, <2>1, <2>2, <2>5 DEF Grown
  <2>7. Added
    BY <2>1, <2>5 DEF Added
  <2>8. Shown
    BY <2>2, <2>3, <2>5 DEF Shown
  <2> QED
    BY <1>2, <1>4, <2>1, <2>3, <2>4, <2>6, <2>7, <2>8
<1>12. CASE q.kind = "rotate"
  <2> DEFINE old == [credential[q.cred] EXCEPT !.revoked = TRUE]
             new == [member |-> credential[q.cred].member, revoked |-> FALSE, operation |-> exec.op]
  <2>1. /\ q.cred \in Credentials /\ q.replacement \in Credentials /\ q.cred # q.replacement
        /\ credential[q.cred] # None /\ credential[q.replacement] = None
        /\ member' = member
        /\ credential' = [[credential EXCEPT ![q.cred] = old] EXCEPT ![q.replacement] = new]
    BY <1>1, <1>2, <1>12, CommandFields DEF Commit, Validate, Rotated, Revoked, Issued
  <2>2. /\ old \in CredentialRow /\ old # None /\ old.revoked = TRUE
        /\ old.member = credential[q.cred].member /\ old.operation = credential[q.cred].operation
    BY <1>10, <2>1, AccessAssumption
  <2>3. credential[q.cred].member \in Members /\ member[credential[q.cred].member] # None
    BY <1>2, <2>1 DEF CredentialRow
  <2>4. /\ new \in CredentialRow /\ new # None
        /\ new.member = credential[q.cred].member /\ new.operation = exec.op
    BY <1>7, <2>1, <2>3, AccessAssumption
  <2>5. New(q) = q.replacement /\ Touched(q) \subseteq {q.cred}
    BY <1>12 DEF New, Touched
  <2> HIDE DEF old, new
  <2>6. /\ credential'[q.cred] = old /\ credential'[q.replacement] = new
        /\ \A c \in Credentials \ {q.cred, q.replacement} : credential'[c] = credential[c]
    BY <1>2, <2>1
  <2>7. credential' \in [Credentials -> CredentialRow \cup {None}]
    BY <1>2, <2>1, <2>2, <2>4
  <2>8. Grown
    BY <1>8, <2>1, <2>2, <2>6 DEF Grown
  <2>9. Added
    <3>1. ASSUME NEW c \in Credentials, credential[c] = None, credential'[c] # None
          PROVE  c = q.replacement
      BY <2>1, <2>6, <3>1
    <3>2. credential'[q.replacement].operation = exec.op
      BY <2>4, <2>6
    <3>3. member'[credential'[q.replacement].member] # None
      BY <2>1, <2>3, <2>4, <2>6
    <3>4. credential'[q.cred] # None /\ credential'[q.cred].revoked
      BY <2>2, <2>6
    <3> QED
      BY <2>1, <2>5, <3>1, <3>2, <3>3, <3>4 DEF Added
  <2>10. Shown
    BY <2>2, <2>5, <2>6 DEF Shown
  <2> QED
    BY <1>2, <1>4, <2>1, <2>4, <2>5, <2>6, <2>7, <2>8, <2>9, <2>10
<1> QED
  BY <1>1, <1>5, <1>6, <1>9, <1>11, <1>12, CommandFields

-----------------------------------------------------------------------------
(* The manager is an adapter of the journal.                               *)

\* Every step of the authority is a step of the journal or leaves it alone; the
\* evidence a reconciliation uses is true.
LEMMA AccessStepIsJournalStep ==
  ASSUME AccessInv, [AccessNext]_vars
  PROVE  [JournalNext]_journalVars
<1>1. ASSUME NEW o \in Operations, NEW s \in Subjects, NEW k \in Keys, NEW q \in Requests,
             AAccept(o, s, k, q)
      PROVE JournalNext
  BY <1>1 DEF AAccept, JournalNext
<1>2. CASE ABegin
  BY <1>2 DEF ABegin, JournalNext
<1>3. CASE AApply
  <2>1. "applied" \in Effects /\ "not_applied" \in Effects /\ "uncertain" \in Effects
        /\ TRUE \in BOOLEAN /\ FALSE \in BOOLEAN
    BY DEF Effects
  <2>2. \/ Returned("applied", TRUE) \/ Returned("not_applied", FALSE)
        \/ Returned("uncertain", TRUE) \/ Returned("uncertain", FALSE)
    BY <1>3 DEF AApply, Applied
  <2>3. \/ Apply("applied", TRUE) \/ Apply("not_applied", FALSE)
        \/ Apply("uncertain", TRUE) \/ Apply("uncertain", FALSE)
    BY <2>2 DEF Apply, Truthful
  <2> QED
    BY <2>1, <2>3 DEF JournalNext
<1>4. CASE AFinish \/ AAppendFails
  BY <1>4 DEF AFinish, AAppendFails, JournalNext
<1>5. ASSUME NEW o \in Operations, ASettle(o) PROVE JournalNext
  BY <1>5 DEF ASettle, JournalNext
<1>6. ASSUME NEW o \in Operations, AReconcile(o) PROVE JournalNext
  <2>1. Evidence(o) \in Effects /\ Truthful(Evidence(o), o \in done)
    BY DEF Evidence, Effects, Truthful, AccessInv, Evidenced
  <2>2. Reconcile(o, Evidence(o))
    BY <1>6, <2>1 DEF AReconcile, Reconcile
  <2> QED
    BY <2>1, <2>2 DEF JournalNext
<1>7. CASE AOpen
  BY <1>7 DEF AOpen, JournalNext
<1>8. CASE ACrash
  BY <1>8 DEF ACrash, Crash, JournalNext
<1>9. ASSUME NEW c \in Credentials, Lookup(c) \/ Confirm(c) PROVE UNCHANGED journalVars
  BY <1>9 DEF Lookup, Confirm
<1>10. CASE Forget \/ UNCHANGED vars
  BY <1>10 DEF Forget, vars
<1> QED
  BY <1>1, <1>2, <1>3, <1>4, <1>5, <1>6, <1>7, <1>8, <1>9, <1>10 DEF AccessNext

\* The operation of a credential, and how it is kept.
LEMMA CredentialsOperation ==
  ASSUME AccessInv, NEW c \in Credentials, credential[c] # None
  PROVE  /\ credential[c].operation \in Operations /\ credential[c].member \in Members
         /\ credential[c].operation \in done
         /\ receipt[credential[c].operation] = [issued |-> c]
         /\ member[credential[c].member] \in MemberRow
<1>1. credential[c] \in CredentialRow
  BY DEF AccessInv, AccessTypeOK
<1>2. [issued |-> c] \in Receipt
  BY DEF Receipt
<1> QED
  BY <1>1, <1>2, AccessAssumption DEF CredentialRow, AccessInv, Evidenced, AccessTypeOK

\* Steps that leave the team store alone keep what its rows say.
LEMMA RowsUnchangedKeeps ==
  ASSUME AccessInv, [JournalNext]_journalVars, UNCHANGED <<member, credential, receipt>>
  PROVE  /\ Evidenced'
         /\ UNCHANGED <<held, stale>> => VersionsAge'
         /\ UNCHANGED <<confirmed, delivered>> => Audited'
<1> USE DEF AccessInv
<1>1. /\ done \subseteq done'
      /\ \A o \in done : /\ operation'[o] = operation[o]
                         /\ State(o) = "succeeded" => State(o)' = "succeeded"
  BY JournalStepKeeps DEF State
<1>2. Evidenced'
  BY <1>1, CredentialsOperation DEF Evidenced
<1>3. UNCHANGED <<held, stale>> => VersionsAge'
  BY DEF VersionsAge
<1>4. ASSUME UNCHANGED <<confirmed, delivered>> PROVE Audited'
  <2> SUFFICES ASSUME NEW c \in confirmed \cup delivered
               PROVE  credential[c] # None /\ Last(events'[credential[c].operation]).state = "succeeded"
    BY <1>4 DEF Audited, State
  <2>1. c \in Credentials /\ credential[c] # None /\ State(credential[c].operation) = "succeeded"
    BY DEF Audited, AccessTypeOK
  <2> QED
    BY <1>1, <2>1, CredentialsOperation DEF State
<1> QED
  BY <1>2, <1>3, <1>4

\* A transaction keeps it too: rows only grow, and what is new is evidenced.
LEMMA CommitKeeps ==
  ASSUME AccessInv, exec.pc = "started", Commit, done' = done \cup {exec.op},
         UNCHANGED <<operation, events, held, confirmed, delivered>>
  PROVE  Evidenced' /\ VersionsAge' /\ Audited'
<1> USE DEF AccessInv
<1>1. /\ Grown /\ Added /\ Shown
      /\ New(Cmd) # None => New(Cmd) \in Credentials /\ credential'[New(Cmd)] # None
      /\ member' \in [Members -> MemberRow \cup {None}]
      /\ credential' \in [Credentials -> CredentialRow \cup {None}]
  BY CommitEffect
<1>2. /\ receipt' = [receipt EXCEPT ![exec.op] = [issued |-> New(Cmd)]]
      /\ stale' = stale \cup Touched(Cmd)
  BY DEF Commit
<1>3. exec.op \in Operations /\ exec.op \notin done /\ receipt[exec.op] = None
  BY ExecutorsCommand DEF JournalInv, Whereabouts, Evidenced
<1>4. /\ receipt'[exec.op] = [issued |-> New(Cmd)]
      /\ \A o \in Operations \ {exec.op} : receipt'[o] = receipt[o]
  BY <1>2, <1>3 DEF AccessTypeOK
<1>5. Evidenced'
  <2>1. \A o \in Operations : receipt'[o] # None => o \in done'
    BY <1>4 DEF Evidenced
  <2>2. ASSUME NEW c \in Credentials, credential'[c] # None
        PROVE  LET o == credential'[c].operation IN
               /\ receipt'[o] = [issued |-> c]
               /\ member'[credential'[c].member] # None
               /\ operation[o].request.kind = "rotate" =>
                    /\ operation[o].request.cred \in Credentials
                    /\ credential'[operation[o].request.cred] # None
                    /\ credential'[operation[o].request.cred].revoked
    <3>1. CASE credential[c] = None
      BY <1>1, <1>4, <2>2, <3>1 DEF Added, Cmd
    <3>2. CASE credential[c] # None
      <4>1. /\ credential[c].operation \in Operations /\ credential[c].operation \in done
            /\ credential[c].member \in Members
            /\ receipt[credential[c].operation] = [issued |-> c]
        BY <3>2, CredentialsOperation
      <4>2. receipt'[credential[c].operation] = [issued |-> c]
        BY <1>3, <1>4, <4>1
      <4>3. /\ credential'[c].member = credential[c].member
            /\ credential'[c].operation = credential[c].operation
        BY <1>1, <3>2 DEF Grown
      <4> QED
        BY <1>1, <3>2, <4>1, <4>2, <4>3 DEF Grown, Evidenced
    <3> QED
      BY <3>1, <3>2
  <2> QED
    BY <2>1, <2>2 DEF Evidenced
<1>6. VersionsAge'
  <2> SUFFICES ASSUME NEW c \in Credentials, held[c] # None
               PROVE  /\ credential'[c] # None /\ ~held[c].revoked
                      /\ held[c].revision <= member'[credential'[c].member].revision
                      /\ c \in stale' => \/ held[c].revision < member'[credential'[c].member].revision
                                         \/ credential'[c].revoked
    BY DEF VersionsAge
  <2> DEFINE m == credential[c].member
  <2>1. /\ credential[c] # None /\ ~held[c].revoked
        /\ held[c].revision <= member[m].revision
        /\ c \in stale => held[c].revision < member[m].revision \/ credential[c].revoked
    BY DEF VersionsAge
  <2>2. m \in Members /\ member[m] \in MemberRow /\ member[m] # None
    BY <2>1, CredentialsOperation DEF Evidenced
  <2>3. /\ credential'[c] # None /\ credential'[c].member = m
        /\ credential[c].revoked => credential'[c].revoked
        /\ member[m].revision <= member'[m].revision /\ member'[m] # None
    BY <1>1, <2>1, <2>2 DEF Grown
  <2>4. member[m].revision \in Nat /\ member'[m].revision \in Nat /\ held[c].revision \in Nat
    BY <1>1, <2>2, <2>3 DEF MemberRow, AccessTypeOK, Version
  <2>5. c \in Touched(Cmd) => member[m].revision < member'[m].revision \/ credential'[c].revoked
    BY <1>1 DEF Shown
  <2> HIDE DEF m
  <2> QED
    BY <1>2, <2>1, <2>3, <2>4, <2>5
<1>7. Audited'
  <2> SUFFICES ASSUME NEW c \in confirmed \cup delivered
               PROVE  credential'[c] # None /\ Last(events[credential'[c].operation]).state = "succeeded"
    BY DEF Audited, State
  <2>1. c \in Credentials /\ credential[c] # None /\ State(credential[c].operation) = "succeeded"
    BY DEF Audited, AccessTypeOK
  <2> QED
    BY <1>1, <2>1 DEF Grown, State
<1> QED
  BY <1>5, <1>6, <1>7

-----------------------------------------------------------------------------
(* Preservation, one step per action.                                      *)

\* A new store, or one with members of an earlier journal.
LEMMA AccessInvInit == AccessInit => AccessInv
<1> SUFFICES ASSUME AccessInit PROVE AccessInv
  OBVIOUS
<1>1. JournalInv
  BY JournalInvInit DEF AccessInit
<1>2. [revision |-> 1, enabled |-> TRUE] \in MemberRow
  BY DEF MemberRow
<1>3. AccessTypeOK
  BY <1>1, <1>2 DEF AccessInit, AccessTypeOK, JournalInv
<1>4. Evidenced /\ ExecutorHolds /\ VersionsAge /\ Audited
  BY DEF AccessInit, JournalInit, IdleExec, Evidenced, ExecutorHolds, VersionsAge, Audited
<1> QED
  BY <1>1, <1>3, <1>4 DEF AccessInv

\* Steps of the journal alone keep the executor's command valid.
LEMMA JournalOnlyKeeps ==
  ASSUME AccessInv, JournalInv', [JournalNext]_journalVars, UNCHANGED accessVars,
         exec'.pc \in {"accepted", "started"} => Validate(operation'[exec'.op].request),
         secret # None => exec' = exec
  PROVE  AccessInv'
<1> USE DEF AccessInv
<1>1. UNCHANGED <<member, credential, receipt, held, stale, confirmed, delivered, secret>>
  BY DEF accessVars
<1>2. Evidenced' /\ VersionsAge' /\ Audited'
  BY <1>1, RowsUnchangedKeeps
<1>3. AccessTypeOK'
  BY <1>1 DEF AccessTypeOK, JournalInv
<1>4. ExecutorHolds'
  BY <1>1 DEF ExecutorHolds, Validate, Cmd
<1> QED
  BY <1>2, <1>3, <1>4

\* Every step of the manager, the authenticator and the process keeps the invariant.
LEMMA AccessInvStep == AccessInv /\ [AccessNext]_vars => AccessInv'
<1> SUFFICES ASSUME AccessInv, [AccessNext]_vars PROVE AccessInv'
  OBVIOUS
<1> USE DEF AccessInv
<1>j. [JournalNext]_journalVars /\ JournalInv'
  BY AccessStepIsJournalStep, JournalInvStep
<1>t. JournalTypeOK'
  BY <1>j DEF JournalInv
<1>s. exec.pc # "applied" => secret = None
  BY DEF ExecutorHolds
<1>1. ASSUME NEW o \in Operations, NEW s \in Subjects, NEW k \in Keys, NEW q \in Requests,
             AAccept(o, s, k, q)
      PROVE AccessInv'
  <2>1. /\ exec.pc = "idle" /\ exec'.pc = "accepted" /\ exec'.op = o
        /\ operation'[o].request = q /\ Validate(q) /\ UNCHANGED accessVars
    BY <1>1 DEF AAccept, Accept, AccessTypeOK, JournalTypeOK
  <2>2. Validate(operation'[exec'.op].request) /\ secret = None
    BY <1>s, <2>1
  <2> QED
    BY <1>j, <2>1, <2>2, JournalOnlyKeeps
<1>2. CASE ABegin
  <2>1. /\ exec.pc = "accepted" /\ exec'.op = exec.op /\ operation' = operation
        /\ UNCHANGED accessVars
    BY <1>2 DEF ABegin, Begin, AccessTypeOK, JournalTypeOK
  <2>2. Validate(operation'[exec'.op].request) /\ secret = None
    BY <1>s, <2>1 DEF ExecutorHolds, Cmd
  <2> QED
    BY <1>j, <2>1, <2>2, JournalOnlyKeeps
<1>3. CASE AApply
  <2>1. /\ exec.pc = "started" /\ exec'.pc = "applied" /\ exec'.op = exec.op
        /\ UNCHANGED <<operation, events, mode, delivered, held, confirmed>>
    BY <1>3 DEF AApply, Applied, Returned, AccessTypeOK, JournalTypeOK
  <2>2. \/ /\ Commit /\ done' = done \cup {exec.op}
           /\ secret' = None \/ (secret' = New(Cmd) /\ exec'.effect = "applied")
        \/ /\ UNCHANGED <<member, credential, receipt, stale>> /\ secret' = None
    BY <1>3 DEF AApply, Applied, Returned, AccessTypeOK, JournalTypeOK
  <2>3. CASE UNCHANGED <<member, credential, receipt, stale>> /\ secret' = None
    <3>1. Evidenced' /\ VersionsAge' /\ Audited'
      BY <1>j, <2>1, <2>3, RowsUnchangedKeeps
    <3>2. AccessTypeOK' /\ ExecutorHolds'
      BY <1>t, <2>1, <2>3 DEF AccessTypeOK, ExecutorHolds
    <3> QED
      BY <1>j, <3>1, <3>2
  <2>4. CASE /\ Commit /\ done' = done \cup {exec.op}
             /\ secret' = None \/ (secret' = New(Cmd) /\ exec'.effect = "applied")
    <3>1. Evidenced' /\ VersionsAge' /\ Audited'
      BY <2>1, <2>4, CommitKeeps
    <3>2. /\ member' \in [Members -> MemberRow \cup {None}]
          /\ credential' \in [Credentials -> CredentialRow \cup {None}]
          /\ receipt' \in [Operations -> Receipt \cup {None}]
          /\ stale' \subseteq Credentials
          /\ New(Cmd) # None => /\ New(Cmd) \in Credentials /\ credential'[New(Cmd)] # None
                                /\ credential'[New(Cmd)].operation = exec.op
      BY <2>1, <2>4, CommitEffect
    <3>3. AccessTypeOK'
      BY <1>t, <2>1, <2>4, <3>2 DEF AccessTypeOK
    <3>4. ExecutorHolds'
      BY <2>1, <2>4, <3>2 DEF ExecutorHolds
    <3> QED
      BY <1>j, <3>1, <3>3, <3>4
  <2> QED
    BY <2>2, <2>3, <2>4
<1>4. CASE AFinish
  <2>1. /\ exec.pc = "applied" /\ exec' = IdleExec /\ secret' = None
        /\ UNCHANGED <<member, credential, receipt, held, stale, confirmed>>
        /\ delivered' = IF exec.effect = "applied" /\ secret # None
                        THEN delivered \cup {secret} ELSE delivered
    BY <1>4 DEF AFinish, Finish
  <2>2. Evidenced' /\ VersionsAge'
    BY <1>j, <2>1, RowsUnchangedKeeps
  <2>3. AccessTypeOK' /\ ExecutorHolds'
    BY <1>t, <2>1 DEF AccessTypeOK, ExecutorHolds, IdleExec
  <2>4. \A c \in confirmed \cup delivered :
           credential[c] # None /\ Last(events'[credential[c].operation]).state = "succeeded"
    <3> SUFFICES ASSUME NEW c \in confirmed \cup delivered
                 PROVE  /\ credential[c] # None
                        /\ Last(events'[credential[c].operation]).state = "succeeded"
      OBVIOUS
    <3>1. c \in Credentials /\ credential[c] # None /\ State(credential[c].operation) = "succeeded"
      BY DEF Audited, AccessTypeOK
    <3>2. credential[c].operation \in done
      BY <3>1, CredentialsOperation
    <3> QED
      BY <1>j, <3>1, <3>2, JournalStepKeeps
  <2>5. ASSUME secret # None
        PROVE  credential[secret] # None /\ Last(events'[credential[secret].operation]).state = "succeeded"
    <3>1. exec.effect = "applied" /\ credential[secret] # None /\ credential[secret].operation = exec.op
      BY <2>5 DEF ExecutorHolds
    <3>2. exec.op \in Operations /\ AppendEvent(exec.op, "finished", "succeeded", "applied")
      BY <1>4, <3>1, ExecutorsCommand, EffectStates DEF AFinish, Finish
    <3>3. "finished" \in Phases /\ "succeeded" \in States /\ "applied" \in Effects \cup {None}
      BY DEF Phases, States, Effects
    <3>4. Last(events'[exec.op]).state = "succeeded"
      BY <3>2, <3>3, AppendEventEffect DEF JournalInv
    <3> QED
      BY <3>1, <3>4
  <2>6. Audited'
    BY <2>1, <2>4, <2>5 DEF Audited, State
  <2> QED
    BY <1>j, <2>2, <2>3, <2>6
<1>5. CASE AAppendFails
  <2>1. /\ exec' = IdleExec /\ secret' = None
        /\ UNCHANGED <<member, credential, receipt, held, stale, confirmed, delivered>>
    BY <1>5 DEF AAppendFails, AppendFails
  <2>2. Evidenced' /\ VersionsAge' /\ Audited'
    BY <1>j, <2>1, RowsUnchangedKeeps
  <2>3. AccessTypeOK' /\ ExecutorHolds'
    BY <1>t, <2>1 DEF AccessTypeOK, ExecutorHolds, IdleExec
  <2> QED
    BY <1>j, <2>2, <2>3
<1>6. ASSUME NEW o \in Operations, ASettle(o) \/ AReconcile(o) PROVE AccessInv'
  <2>1. exec.pc = "idle" /\ exec' = exec /\ UNCHANGED accessVars
    BY <1>6 DEF ASettle, Settle, Recover, AReconcile, Reconciled, JournalInv, Whereabouts
  <2> QED
    BY <1>j, <2>1, JournalOnlyKeeps
<1>7. CASE AOpen
  <2>1. exec.pc = "idle" /\ exec' = exec /\ UNCHANGED accessVars
    BY <1>7 DEF AOpen, Open, Opened, JournalInv, Whereabouts
  <2> QED
    BY <1>j, <2>1, JournalOnlyKeeps
<1>8. CASE ACrash
  <2>1. /\ exec' = IdleExec /\ secret' = None /\ UNCHANGED <<operation, events, delivered, held, confirmed>>
        /\ \/ UNCHANGED <<member, credential, receipt, stale, done>>
           \/ exec.pc = "started" /\ Commit /\ done' = done \cup {exec.op}
    BY <1>8 DEF ACrash
  <2>2. ExecutorHolds'
    BY <2>1 DEF ExecutorHolds, IdleExec
  <2>3. CASE UNCHANGED <<member, credential, receipt, stale, done>>
    <3>1. Evidenced' /\ VersionsAge' /\ Audited'
      BY <1>j, <2>1, <2>3, RowsUnchangedKeeps
    <3>2. AccessTypeOK'
      BY <1>t, <2>1, <2>3 DEF AccessTypeOK
    <3> QED
      BY <1>j, <2>2, <3>1, <3>2
  <2>4. CASE exec.pc = "started" /\ Commit /\ done' = done \cup {exec.op}
    <3>1. Evidenced' /\ VersionsAge' /\ Audited'
      BY <2>1, <2>4, CommitKeeps
    <3>2. AccessTypeOK'
      BY <1>t, <2>1, <2>4, CommitEffect DEF AccessTypeOK
    <3> QED
      BY <1>j, <2>2, <3>1, <3>2
  <2> QED
    BY <2>1, <2>3, <2>4
<1>9. ASSUME NEW c \in Credentials, Lookup(c) PROVE AccessInv'
  <2>1. /\ Active(c) /\ held' = [held EXCEPT ![c] = VersionOf(c)] /\ stale' = stale \ {c}
        /\ UNCHANGED <<operation, events, mode, exec, done, member, credential, receipt, secret,
                       delivered, confirmed>>
    BY <1>9 DEF Lookup, journalVars
  <2>2. credential[c] # None /\ ~credential[c].revoked
    BY <2>1 DEF Active
  <2>3. credential[c] \in CredentialRow /\ member[credential[c].member] \in MemberRow
    BY <2>2, CredentialsOperation DEF AccessTypeOK
  <2>4. VersionOf(c) \in Version
    BY <2>3 DEF VersionOf, Version, CredentialRow, MemberRow
  <2>5. /\ VersionOf(c).revision = member[credential[c].member].revision
        /\ member[credential[c].member].revision \in Nat
        /\ VersionOf(c).revoked = credential[c].revoked
    BY <2>3 DEF VersionOf, MemberRow
  <2>6. AccessTypeOK'
    BY <1>t, <2>1, <2>4 DEF AccessTypeOK
  <2>7. VersionsAge'
    <3> SUFFICES ASSUME NEW d \in Credentials, held'[d] # None
                 PROVE  /\ credential[d] # None /\ ~held'[d].revoked
                        /\ held'[d].revision <= member[credential[d].member].revision
                        /\ d \in stale' => \/ held'[d].revision < member[credential[d].member].revision
                                           \/ credential[d].revoked
      BY <2>1 DEF VersionsAge
    <3>1. CASE d = c
      <4>1. held'[d] = VersionOf(c) /\ d \notin stale'
        BY <2>1, <3>1 DEF AccessTypeOK
      <4> QED
        BY <2>2, <2>5, <3>1, <4>1
    <3>2. CASE d # c
      <4>1. held'[d] = held[d] /\ (d \in stale' <=> d \in stale)
        BY <2>1, <3>2 DEF AccessTypeOK
      <4> QED
        BY <4>1 DEF VersionsAge
    <3> QED
      BY <3>1, <3>2
  <2>8. Evidenced' /\ Audited'
    BY <1>j, <2>1, RowsUnchangedKeeps
  <2>9. ExecutorHolds'
    BY <2>1 DEF ExecutorHolds, Validate, Cmd
  <2> QED
    BY <1>j, <2>6, <2>7, <2>8, <2>9
<1>10. ASSUME NEW c \in Credentials, Confirm(c) PROVE AccessInv'
  <2>1. /\ held[c] # None /\ Issuance(c) /\ confirmed' = confirmed \cup {c}
        /\ UNCHANGED <<operation, events, mode, exec, done, member, credential, receipt, secret,
                       delivered, held, stale>>
    BY <1>10 DEF Confirm, journalVars
  <2>2. credential[c] # None /\ State(credential[c].operation) = "succeeded"
    BY <2>1 DEF Issuance, VersionsAge
  <2>3. Audited'
    BY <2>1, <2>2 DEF Audited, State
  <2>4. Evidenced' /\ VersionsAge'
    BY <1>j, <2>1, RowsUnchangedKeeps
  <2>5. AccessTypeOK' /\ ExecutorHolds'
    BY <1>t, <2>1 DEF AccessTypeOK, ExecutorHolds, Validate, Cmd
  <2> QED
    BY <1>j, <2>3, <2>4, <2>5
<1>11. CASE Forget
  <2>1. /\ confirmed' = {} /\ held' = [c \in Credentials |-> None] /\ stale' = {}
        /\ UNCHANGED <<operation, events, mode, exec, done, member, credential, receipt, secret,
                       delivered>>
    BY <1>11 DEF Forget, journalVars
  <2>2. Audited' /\ VersionsAge'
    BY <2>1 DEF Audited, VersionsAge, State
  <2>3. Evidenced'
    BY <1>j, <2>1, RowsUnchangedKeeps
  <2>4. AccessTypeOK' /\ ExecutorHolds'
    BY <1>t, <2>1 DEF AccessTypeOK, ExecutorHolds, Validate, Cmd
  <2> QED
    BY <1>j, <2>2, <2>3, <2>4
<1>12. CASE UNCHANGED vars
  <2>1. exec' = exec /\ operation' = operation /\ UNCHANGED accessVars
    BY <1>12 DEF vars, journalVars
  <2>2. exec'.pc \in {"accepted", "started"} => Validate(operation'[exec'.op].request)
    BY <2>1 DEF ExecutorHolds, Cmd
  <2> QED
    BY <1>j, <2>1, <2>2, JournalOnlyKeeps
<1> QED
  BY <1>1, <1>2, <1>3, <1>4, <1>5, <1>6, <1>7, <1>8, <1>9, <1>10, <1>11, <1>12 DEF AccessNext

\* The inductive invariant holds of every reachable state.
LEMMA AccessInvariant == AccessSpec => []AccessInv
  BY AccessInvInit, AccessInvStep, PTL DEF AccessSpec

-----------------------------------------------------------------------------
(* What the authority promises.                                            *)

\* The authority implements the journal: lost commits, crashes inside apply and
\* receipts found later never make it take a step the journal would not.
THEOREM AccessImplementsJournal == AccessSpec => JournalSpec
<1>1. AccessInit => JournalInit
  BY DEF AccessInit
<1>2. AccessInv /\ [AccessNext]_vars => [JournalNext]_journalVars
  BY AccessStepIsJournalStep
<1> QED
  BY <1>1, <1>2, AccessInvariant, PTL DEF AccessSpec, JournalSpec

\* So the journal's outcomes are true of the team store as well.
THEOREM AccessTellsTheTruth == AccessSpec => []OutcomeIsTrue
  BY AccessImplementsJournal, JournalTellsTheTruth, PTL

\* Only a credential whose issuance is recorded as succeeded is authenticated or
\* handed out, and the one it replaced is revoked by then.
THEOREM AccessIsAudited == AccessSpec => []UsableIsAudited
<1>1. AccessInv => UsableIsAudited
  BY DEF AccessInv, AccessTypeOK, Audited, Evidenced, UsableIsAudited
<1> QED
  BY <1>1, AccessInvariant, PTL

\* A version that was read before a change never equals the current one again.
THEOREM AccessChangesAreSeen == AccessSpec => []RefreshSeesChange
<1>1. AccessInv => RefreshSeesChange
  <2> SUFFICES ASSUME AccessInv, NEW c \in stale, held[c] # None, held[c] = VersionOf(c) PROVE FALSE
    BY DEF RefreshSeesChange
  <2> DEFINE m == credential[c].member
  <2>1. c \in Credentials /\ credential[c] # None /\ ~held[c].revoked
        /\ (held[c].revision < member[m].revision \/ credential[c].revoked)
    BY DEF AccessInv, AccessTypeOK, VersionsAge
  <2>2. member[m].revision \in Nat
    BY <2>1, CredentialsOperation DEF MemberRow
  <2>3. held[c].revision = member[m].revision /\ held[c].revoked = credential[c].revoked
    BY DEF VersionOf
  <2> HIDE DEF m
  <2> QED
    BY <2>1, <2>2, <2>3
<1> QED
  BY <1>1, AccessInvariant, PTL
=============================================================================
