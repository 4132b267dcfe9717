------------------------- MODULE ManagedProxyProofs -------------------------
(***************************************************************************)
(* Proofs about the continuation store and about managed requests, for any *)
(* number of connections, sessions, attempts, keys, epochs and detached    *)
(* transactions and any sizes and limit.                                   *)
(*                                                                         *)
(* The store: type correctness is inductive by itself.  The safety         *)
(* properties are not, since they look an attempt's session up and compare *)
(* epochs: RowsAgree says which rows exist together, and with it the whole *)
(* conjunction StoreInv is inductive.                                      *)
(*                                                                         *)
(* Requests: a future, alive or detached with its transaction, holds a     *)
(* copy of a session row.  Since every change of a row gives it another    *)
(* revision, a copy with the current revision is the current row (Copies); *)
(* so begin reserves for the history that was verified, and until the      *)
(* attempt is settled the session cannot move (AttemptsAreOwn).  An        *)
(* attempt is held by one live request or by what that request left behind,*)
(* never both (OneHolder): it is still pending when the provider is        *)
(* called, and is called once.  Every transaction a request submits is     *)
(* then one that StoreSpec allows.                                         *)
(***************************************************************************)
EXTENDS ManagedProxy, TLAPS

-----------------------------------------------------------------------------
(* Type correctness.                                                       *)

\* The empty tables are well typed.
LEMMA StoreTypeInit == StoreInit => StoreTypeOK
  BY DEF StoreInit, StoreTypeOK, SessionRow, AttemptRow, RecordRow, SessionStatus, AttemptStatus,
         InFlight

\* The rewrites of a whole session row keep its columns.
LEMMA RowUpdates ==
  ASSUME NEW row \in SessionRow
  PROVE  /\ \A status \in SessionStatus : Advanced(row, status) \in SessionRow
         /\ \A p \in Portables \cup {None} : NewEpoch(row, p) \in SessionRow
         /\ \A a \in Attempts, replay \in Replay : Continued(row, a, replay) \in SessionRow
  BY DEF Advanced, NewEpoch, Continued, SessionRow, SessionStatus, Replay

\* Every transaction, and the recovery of open, writes well-typed rows.
LEMMA StoreTypeStep == StoreTypeOK /\ [StoreNext]_storeVars => StoreTypeOK'
<1> SUFFICES ASSUME StoreTypeOK, [StoreNext]_storeVars PROVE StoreTypeOK'
  OBVIOUS
<1> USE DEF StoreTypeOK
<1>1. ASSUME NEW s \in Sessions, NEW o \in Origins, Create(s, o) PROVE StoreTypeOK'
  BY <1>1 DEF Create, SessionRow, SessionStatus
<1>2. ASSUME NEW s \in Sessions, NEW a \in Attempts, NEW i \in Inputs, NEW r \in Reserves,
             Begin(s, session[s].revision, session[s].head, a, i, r)
      PROVE StoreTypeOK'
  <2>1. session' \in [Sessions -> SessionRow]
    BY <1>2, RowUpdates DEF Begin, SessionStatus, InFlight
  <2>2. attempt' \in [Attempts -> AttemptRow]
    BY <1>2, SizeAssumption DEF Begin, SessionRow, AttemptRow, AttemptStatus
  <2> QED
    BY <1>2, <2>1, <2>2 DEF Begin
<1>3. ASSUME NEW s \in Sessions, NEW a \in Attempts, NEW tools \in BOOLEAN, NEW size \in Sizes,
             Finalize(s, a, Child(s, a, tools, size))
      PROVE StoreTypeOK'
  <2>1. Child(s, a, tools, size) \in Replay
    BY DEF Child, Replay, SessionRow
  <2>2. session' \in [Sessions -> SessionRow]
    BY <1>3, <2>1, RowUpdates DEF Finalize
  <2>3. attempt' \in [Attempts -> AttemptRow]
    BY <1>3 DEF Finalize, AttemptRow, AttemptStatus
  <2>4. record' \in [Attempts -> RecordRow]
    BY <1>3, <2>1 DEF Finalize, RecordRow, CanFinalize
  <2> QED
    BY <1>3, <2>2, <2>3, <2>4 DEF Finalize
<1>4. ASSUME NEW s \in Sessions, NEW a \in Attempts, MarkUncertain(s, a) PROVE StoreTypeOK'
  <2>1. session' \in [Sessions -> SessionRow]
    BY <1>4, RowUpdates DEF MarkUncertain, SessionStatus
  <2> QED
    BY <1>4, <2>1 DEF MarkUncertain, AttemptRow, AttemptStatus
<1>5. ASSUME NEW a \in Attempts, Repair(a, record[a].replay) PROVE StoreTypeOK'
  BY <1>5 DEF Repair, RecordRow
<1>6. ASSUME NEW s \in Sessions, NEW kind \in TransitionKinds, NEW p \in Portables \cup {None},
             Transition(s, session[s].revision, kind, p)
      PROVE StoreTypeOK'
  <2>1. session' \in [Sessions -> SessionRow]
    BY <1>6, RowUpdates DEF Transition, SessionStatus
  <2>2. transitions' \subseteq [session : Sessions, revision : Nat, kind : TransitionKinds]
    BY <1>6 DEF Transition, Decided, SessionRow
  <2> QED
    BY <1>6, <2>1, <2>2 DEF Transition
<1>7. ASSUME NEW k \in Keys, Open(k) PROVE StoreTypeOK'
  <2>1. session' \in [Sessions -> SessionRow]
    <3> SUFFICES ASSUME NEW s \in Sessions PROVE session'[s] \in SessionRow
      BY <1>7 DEF Open
    <3>1. session'[s] = IF Recovered(s) THEN RecoveredRow(session[s]) ELSE session[s]
      BY <1>7 DEF Open
    <3>2. RecoveredRow(session[s]) \in SessionRow
      BY RowUpdates DEF RecoveredRow, SessionStatus
    <3> QED
      BY <3>1, <3>2
  <2>2. attempt' \in [Attempts -> AttemptRow]
    BY <1>7 DEF Open, AttemptRow, AttemptStatus
  <2>3. bound' \in Keys \cup {None} /\ up' \in Keys \cup {None}
    BY <1>7 DEF Open, Serving
  <2> QED
    BY <1>7, <2>1, <2>2, <2>3 DEF Open
<1>8. ASSUME Crash PROVE StoreTypeOK'
  BY <1>8 DEF Crash
<1>9. ASSUME NEW a \in Attempts, LosePayload(a) PROVE StoreTypeOK'
  BY <1>9 DEF LosePayload, RecordRow
<1>10. CASE UNCHANGED storeVars
  BY <1>10 DEF storeVars
<1> QED
  BY <1>1, <1>2, <1>3, <1>4, <1>5, <1>6, <1>7, <1>8, <1>9, <1>10 DEF StoreNext

\* Every reachable state of the store is well typed, whatever transactions,
\* crashes and reopenings led to it.
THEOREM StoreTypeCorrect == StoreSpec => []StoreTypeOK
  BY StoreTypeInit, StoreTypeStep, PTL DEF StoreSpec

-----------------------------------------------------------------------------
(* The inductive invariant.                                                *)

StoreInv == StoreTypeOK /\ RowsAgree /\ SessionsMatchAttempts /\ HistoryIsAChain

\* The empty tables satisfy it.
LEMMA StoreInvInit == StoreInit => StoreInv
<1> SUFFICES ASSUME StoreInit PROVE StoreInv
  OBVIOUS
<1>1. StoreTypeOK
  BY StoreTypeInit
<1>2. RowsAgree
  BY DEF StoreInit, RowsAgree
<1>3. SessionsMatchAttempts
  BY DEF StoreInit, SessionsMatchAttempts, OneInFlight, UnknownBlocks, HeadIsFinalized, InFlight
<1>4. HistoryIsAChain
  BY DEF StoreInit, HistoryIsAChain
<1> QED
  BY <1>1, <1>2, <1>3, <1>4 DEF StoreInv

\* create: no attempt refers to a session that does not exist yet.
LEMMA CreateKeepsInv ==
  ASSUME StoreInv, StoreTypeOK', NEW s \in Sessions, NEW o \in Origins, Create(s, o)
  PROVE  StoreInv'
<1> USE DEF StoreInv
<1>1. /\ session' = [session EXCEPT ![s] = session'[s]]
      /\ session'[s].status = "ready" /\ session'[s].head = None
      /\ attempt' = attempt /\ record' = record
      /\ session[s].status = "absent"
  BY DEF Create, StoreTypeOK
<1>2. \A a \in Attempts : attempt[a].session # s
  BY <1>1, NoneAssumption DEF RowsAgree
<1>3. \A t \in Sessions : t # s => session'[t] = session[t]
  BY <1>1 DEF StoreTypeOK
<1>4. RowsAgree'
  BY <1>1, <1>2, <1>3 DEF RowsAgree
<1>5. OneInFlight'
  <2>1. ASSUME NEW a \in Attempts, attempt[a].status = "pending"
        PROVE  /\ session'[attempt[a].session].status \in InFlight
               /\ session'[attempt[a].session].epoch = attempt[a].epoch
    BY <1>2, <1>3, <2>1 DEF RowsAgree, SessionsMatchAttempts, OneInFlight
  <2>2. ASSUME NEW t \in Sessions, session'[t].status \in InFlight
        PROVE  \E a \in Attempts : attempt[a].session = t /\ attempt[a].status = "pending"
    BY <1>1, <1>3, <2>2 DEF SessionsMatchAttempts, OneInFlight, InFlight
  <2> QED
    BY <1>1, <2>1, <2>2 DEF SessionsMatchAttempts, OneInFlight
<1>6. UnknownBlocks'
  BY <1>1, <1>2, <1>3 DEF RowsAgree, SessionsMatchAttempts, UnknownBlocks
<1>7. HeadIsFinalized'
  BY <1>1, <1>3 DEF SessionsMatchAttempts, HeadIsFinalized
<1>8. HistoryIsAChain'
  BY <1>1, <1>2, <1>3 DEF RowsAgree, HistoryIsAChain
<1> QED
  BY <1>4, <1>5, <1>6, <1>7, <1>8 DEF SessionsMatchAttempts

\* begin: the session was ready or compacting, so nothing of it was pending.
LEMMA BeginKeepsInv ==
  ASSUME StoreInv, StoreTypeOK', NEW s \in Sessions, NEW a \in Attempts, NEW i \in Inputs,
         NEW r \in Reserves, Begin(s, session[s].revision, session[s].head, a, i, r)
  PROVE  StoreInv'
<1> USE DEF StoreInv
<1>1. /\ session' = [session EXCEPT ![s] = session'[s]]
      /\ session'[s].status \in InFlight
      /\ session'[s].epoch = session[s].epoch /\ session'[s].head = session[s].head
      /\ session[s].status \in {"ready", "compacting"}
      /\ record' = record
  BY DEF Begin, CanBegin, Advanced, InFlight, StoreTypeOK
<1>2. \A t \in Sessions : t # s => session'[t] = session[t]
  BY <1>1 DEF StoreTypeOK
<1>3. /\ attempt[a].status = "absent"
      /\ attempt'[a].status = "pending" /\ attempt'[a].session = s
      /\ attempt'[a].epoch = session[s].epoch
      /\ \A b \in Attempts : b # a => attempt'[b] = attempt[b]
  BY DEF Begin, StoreTypeOK
<1>4. \A b \in Attempts : attempt[b].status = "pending" => attempt[b].session # s
  BY <1>1 DEF SessionsMatchAttempts, OneInFlight, InFlight
<1>5. \A t \in Sessions : session'[t].epoch = session[t].epoch /\ session'[t].head = session[t].head
  BY <1>1, <1>2
<1>6. RowsAgree'
  <2>1. \A t \in Sessions : session[t].status # "absent" => session'[t].status # "absent"
    BY <1>1, <1>2 DEF InFlight
  <2>2. session'[s].status # "absent" /\ session[s].epoch <= session'[s].epoch
    BY <1>1 DEF InFlight, StoreTypeOK, SessionRow
  <2>3. ASSUME NEW b \in Attempts
        PROVE  /\ attempt'[b].status = "absent" => attempt'[b].session = None
               /\ attempt'[b].status # "absent" =>
                     /\ attempt'[b].session \in Sessions
                     /\ session'[attempt'[b].session].status # "absent"
                     /\ attempt'[b].epoch <= session'[attempt'[b].session].epoch
    <3>1. CASE b = a
      BY <1>3, <2>2, <3>1
    <3>2. CASE b # a
      BY <1>3, <1>5, <2>1, <3>2 DEF RowsAgree
    <3> QED
      BY <3>1, <3>2
  <2>4. \A b \in Attempts : record'[b].replay # None <=> attempt'[b].status = "finalized"
    BY <1>1, <1>3 DEF RowsAgree
  <2>5. \A b \in Attempts : record'[b].replay # None =>
           /\ record'[b].replay.session = attempt'[b].session
           /\ record'[b].replay.epoch = attempt'[b].epoch
    BY <1>1, <1>3 DEF RowsAgree
  <2> QED
    BY <2>3, <2>4, <2>5 DEF RowsAgree
<1>7. OneInFlight'
  <2>1. ASSUME NEW b \in Attempts, attempt'[b].status = "pending"
        PROVE  /\ session'[attempt'[b].session].status \in InFlight
               /\ session'[attempt'[b].session].epoch = attempt'[b].epoch
    <3>1. CASE b = a
      BY <1>1, <1>3, <3>1
    <3>2. CASE b # a
      BY <1>2, <1>3, <1>4, <2>1, <3>2 DEF RowsAgree, SessionsMatchAttempts, OneInFlight
    <3> QED
      BY <3>1, <3>2
  <2>2. ASSUME NEW t \in Sessions, session'[t].status \in InFlight
        PROVE  \E b \in Attempts : attempt'[b].session = t /\ attempt'[b].status = "pending"
    <3>1. CASE t = s
      BY <1>3, <3>1
    <3>2. CASE t # s
      BY <1>2, <1>3, <2>2, <3>2 DEF SessionsMatchAttempts, OneInFlight
    <3> QED
      BY <3>1, <3>2
  <2>3. ASSUME NEW b \in Attempts, NEW c \in Attempts, attempt'[b].status = "pending",
               attempt'[c].status = "pending", attempt'[b].session = attempt'[c].session
        PROVE  b = c
    BY <1>3, <1>4, <2>3 DEF SessionsMatchAttempts, OneInFlight
  <2> QED
    BY <2>1, <2>2, <2>3 DEF OneInFlight
<1>8. UnknownBlocks'
  <2> SUFFICES ASSUME NEW b \in Attempts, attempt'[b].status = "unknown"
               PROVE  \/ session'[attempt'[b].session].status = "unknown"
                      \/ session'[attempt'[b].session].epoch > attempt'[b].epoch
    BY DEF UnknownBlocks
  <2>1. b # a /\ attempt'[b] = attempt[b] /\ attempt[b].session \in Sessions
    BY <1>3 DEF RowsAgree
  <2>2. \/ session[attempt[b].session].status = "unknown"
        \/ session[attempt[b].session].epoch > attempt[b].epoch
    BY <2>1 DEF SessionsMatchAttempts, UnknownBlocks
  <2> QED
    BY <1>1, <1>2, <1>5, <2>1, <2>2
<1>9. HeadIsFinalized'
  <2> SUFFICES ASSUME NEW t \in Sessions, session'[t].head # None
               PROVE  /\ attempt'[session'[t].head].status = "finalized"
                      /\ attempt'[session'[t].head].session = t
                      /\ attempt'[session'[t].head].epoch = session'[t].epoch
                      /\ record'[session'[t].head].replay # None
    BY DEF HeadIsFinalized
  <2>1. session[t].head # None /\ session[t].head \in Attempts
    BY <1>5 DEF StoreTypeOK, SessionRow
  <2>2. /\ attempt[session[t].head].status = "finalized"
        /\ attempt[session[t].head].session = t
        /\ attempt[session[t].head].epoch = session[t].epoch
        /\ record[session[t].head].replay # None
    BY <2>1 DEF SessionsMatchAttempts, HeadIsFinalized
  <2> QED
    BY <1>1, <1>3, <1>5, <2>1, <2>2
<1>10. HistoryIsAChain'
  <2>1. ASSUME NEW b \in Attempts, record[b].replay # None
        PROVE  record[b].replay.session \in Sessions
    BY <2>1 DEF StoreTypeOK, RecordRow, Replay
  <2> QED
    BY <1>1, <1>5, <2>1 DEF HistoryIsAChain
<1> QED
  BY <1>6, <1>7, <1>8, <1>9, <1>10 DEF SessionsMatchAttempts

\* finalize: the new record continues the head, and becomes it.
LEMMA FinalizeKeepsInv ==
  ASSUME StoreInv, StoreTypeOK', NEW s \in Sessions, NEW a \in Attempts, NEW tools \in BOOLEAN,
         NEW size \in Sizes, Finalize(s, a, Child(s, a, tools, size))
  PROVE  StoreInv'
<1> USE DEF StoreInv
<1> DEFINE new == Child(s, a, tools, size)
<1>1. /\ session' = [session EXCEPT ![s] = session'[s]]
      /\ session'[s].status \in {"ready", "awaiting_compaction"}
      /\ session'[s].epoch = session[s].epoch /\ session'[s].head = a
  BY DEF Finalize, Continued, StoreTypeOK
<1>2. /\ attempt[a].status = "pending" /\ attempt[a].session = s
      /\ attempt[a].epoch = session[s].epoch
      /\ session[s].status \in InFlight
  BY DEF Finalize, CanFinalize
<1>3. /\ attempt'[a].status = "finalized" /\ attempt'[a].session = s
      /\ attempt'[a].epoch = session[s].epoch
      /\ \A b \in Attempts : b # a => attempt'[b] = attempt[b]
  BY <1>2 DEF Finalize, StoreTypeOK, AttemptRow
<1>4. /\ record'[a].replay = new
      /\ \A b \in Attempts : b # a => record'[b] = record[b]
  BY DEF Finalize, StoreTypeOK
<1>5. /\ new.session = s /\ new.epoch = session[s].epoch /\ new.parent = session[s].head
      /\ new # None
  <2>1. new \in Replay
    BY DEF Child, Replay, StoreTypeOK, SessionRow
  <2> QED
    BY <2>1, NoneAssumption DEF Child
<1>6. \A t \in Sessions : t # s => session'[t] = session[t]
  BY <1>1 DEF StoreTypeOK
<1>7. record[a].replay = None
  BY <1>2 DEF RowsAgree
<1>8. \A b \in Attempts : record[b].replay # None => record[b].replay.session \in Sessions
  BY DEF StoreTypeOK, RecordRow, Replay
<1>9. \A t \in Sessions : session'[t].epoch = session[t].epoch
  BY <1>1, <1>6
<1>10. RowsAgree'
  <2>1. \A t \in Sessions : session[t].status # "absent" => session'[t].status # "absent"
    BY <1>1, <1>6
  <2>2. ASSUME NEW b \in Attempts
        PROVE  /\ attempt'[b].status = "absent" => attempt'[b].session = None
               /\ attempt'[b].status # "absent" =>
                     /\ attempt'[b].session \in Sessions
                     /\ session'[attempt'[b].session].status # "absent"
                     /\ attempt'[b].epoch <= session'[attempt'[b].session].epoch
    <3>1. CASE b = a
      BY <1>1, <1>3, <3>1 DEF StoreTypeOK, SessionRow
    <3>2. CASE b # a
      BY <1>3, <1>9, <2>1, <3>2 DEF RowsAgree
    <3> QED
      BY <3>1, <3>2
  <2>3. ASSUME NEW b \in Attempts
        PROVE  /\ record'[b].replay # None <=> attempt'[b].status = "finalized"
               /\ record'[b].replay # None =>
                     /\ record'[b].replay.session = attempt'[b].session
                     /\ record'[b].replay.epoch = attempt'[b].epoch
    <3>1. CASE b = a
      BY <1>3, <1>4, <1>5, <3>1
    <3>2. CASE b # a
      BY <1>3, <1>4, <3>2 DEF RowsAgree
    <3> QED
      BY <3>1, <3>2
  <2> QED
    BY <2>2, <2>3 DEF RowsAgree
<1>11. OneInFlight'
  <2>1. \A b \in Attempts : attempt'[b].status = "pending" =>
           b # a /\ attempt[b].status = "pending" /\ attempt[b].session \in Sessions
                /\ attempt[b].session # s
    BY <1>2, <1>3 DEF RowsAgree, SessionsMatchAttempts, OneInFlight
  <2>2. ASSUME NEW b \in Attempts, attempt'[b].status = "pending"
        PROVE  /\ session'[attempt'[b].session].status \in InFlight
               /\ session'[attempt'[b].session].epoch = attempt'[b].epoch
    BY <1>3, <1>6, <2>1, <2>2 DEF SessionsMatchAttempts, OneInFlight
  <2>3. ASSUME NEW t \in Sessions, session'[t].status \in InFlight
        PROVE  \E b \in Attempts : attempt'[b].session = t /\ attempt'[b].status = "pending"
    <3>1. t # s
      BY <1>1, <2>3 DEF InFlight
    <3>2. PICK b \in Attempts : attempt[b].session = t /\ attempt[b].status = "pending"
      BY <1>6, <2>3, <3>1 DEF SessionsMatchAttempts, OneInFlight
    <3> QED
      BY <1>2, <1>3, <3>1, <3>2
  <2> QED
    BY <1>3, <2>1, <2>2, <2>3 DEF SessionsMatchAttempts, OneInFlight
<1>12. UnknownBlocks'
  <2> SUFFICES ASSUME NEW b \in Attempts, attempt'[b].status = "unknown"
               PROVE  \/ session'[attempt'[b].session].status = "unknown"
                      \/ session'[attempt'[b].session].epoch > attempt'[b].epoch
    BY DEF UnknownBlocks
  <2>1. b # a /\ attempt'[b] = attempt[b] /\ attempt[b].session \in Sessions
    BY <1>3 DEF RowsAgree
  <2>2. \/ session[attempt[b].session].status = "unknown"
        \/ session[attempt[b].session].epoch > attempt[b].epoch
    BY <2>1 DEF SessionsMatchAttempts, UnknownBlocks
  <2> QED
    BY <1>2, <1>6, <1>9, <2>1, <2>2 DEF InFlight
<1>13. HeadIsFinalized'
  <2> SUFFICES ASSUME NEW t \in Sessions, session'[t].head # None
               PROVE  /\ attempt'[session'[t].head].status = "finalized"
                      /\ attempt'[session'[t].head].session = t
                      /\ attempt'[session'[t].head].epoch = session'[t].epoch
                      /\ record'[session'[t].head].replay # None
    BY DEF HeadIsFinalized
  <2>1. CASE t = s
    BY <1>1, <1>3, <1>4, <1>5, <2>1
  <2>2. CASE t # s
    <3>1. session'[t] = session[t] /\ session[t].head \in Attempts
      BY <1>6, <2>2 DEF StoreTypeOK, SessionRow
    <3>2. /\ attempt[session[t].head].status = "finalized"
          /\ attempt[session[t].head].session = t
          /\ attempt[session[t].head].epoch = session[t].epoch
          /\ record[session[t].head].replay # None
      BY <3>1 DEF SessionsMatchAttempts, HeadIsFinalized
    <3> QED
      BY <1>2, <1>3, <1>4, <3>1, <3>2
  <2> QED
    BY <2>1, <2>2
<1>14. HistoryIsAChain'
  <2>1. \A b \in Attempts : (/\ record[b].replay # None /\ record[b].replay.session = s
                             /\ record[b].replay.epoch = session[s].epoch)
           => record[b].replay.parent # new.parent
    BY <1>5 DEF HistoryIsAChain
  <2>2. ASSUME NEW b \in Attempts, NEW c \in Attempts,
               record'[b].replay # None, record'[c].replay # None, b # c,
               record'[b].replay.session = record'[c].replay.session,
               record'[b].replay.epoch = record'[c].replay.epoch
        PROVE  record'[b].replay.parent # record'[c].replay.parent
    <3>1. CASE b = a
      BY <1>4, <1>5, <2>1, <2>2, <3>1
    <3>2. CASE c = a
      BY <1>4, <1>5, <2>1, <2>2, <3>2
    <3>3. CASE b # a /\ c # a
      BY <1>4, <2>2, <3>3 DEF HistoryIsAChain
    <3> QED
      BY <3>1, <3>2, <3>3
  <2>3. session[s].head # None =>
           /\ session[s].head \in Attempts /\ session[s].head # a
           /\ record[session[s].head].replay # None
           /\ record[session[s].head].replay.session = s
           /\ record[session[s].head].replay.epoch = session[s].epoch
    <3>1. session[s].head # None => session[s].head \in Attempts
      BY DEF StoreTypeOK, SessionRow
    <3> QED
      BY <1>7, <3>1 DEF SessionsMatchAttempts, HeadIsFinalized, RowsAgree
  <2>4. ASSUME NEW b \in Attempts, record'[b].replay # None, record'[b].replay.parent # None
        PROVE  LET p == record'[b].replay.parent IN
               /\ record'[p].replay # None
               /\ record'[p].replay.session = record'[b].replay.session
               /\ record'[p].replay.epoch = record'[b].replay.epoch
    <3>1. CASE b = a
      BY <1>4, <1>5, <2>3, <2>4, <3>1
    <3>2. CASE b # a
      <4>1. record[b].replay \in Replay /\ record[b].replay.parent \in Attempts
        BY <1>4, <2>4, <3>2 DEF StoreTypeOK, RecordRow, Replay
      <4>2. LET p == record[b].replay.parent IN
            /\ record[p].replay # None
            /\ record[p].replay.session = record[b].replay.session
            /\ record[p].replay.epoch = record[b].replay.epoch
        BY <1>4, <2>4, <3>2 DEF HistoryIsAChain
      <4> QED
        BY <1>4, <1>7, <3>2, <4>1, <4>2
    <3> QED
      BY <3>1, <3>2
  <2>5. ASSUME NEW b \in Attempts, record'[b].replay # None,
               record'[b].replay.epoch = session'[record'[b].replay.session].epoch
        PROVE  /\ session'[record'[b].replay.session].head # None
               /\ record'[b].replay.parent # session'[record'[b].replay.session].head
    <3>1. CASE b = a
      BY <1>1, <1>4, <1>5, <2>3, <3>1, NoneAssumption
    <3>2. CASE b # a /\ record[b].replay.session = s
      <4>1. record[b].replay # None /\ record[b].replay.epoch = session[s].epoch
        BY <1>4, <1>9, <2>5, <3>2
      <4>2. record[b].replay.parent # a
        BY <1>7, <4>1, NoneAssumption DEF HistoryIsAChain
      <4> QED
        BY <1>1, <1>4, <3>2, <4>2, NoneAssumption
    <3>3. CASE b # a /\ record[b].replay.session # s
      <4>1. record[b].replay # None /\ record[b].replay.session \in Sessions
        BY <1>4, <1>8, <2>5, <3>3
      <4> QED
        BY <1>4, <1>6, <2>5, <3>3, <4>1 DEF HistoryIsAChain
    <3> QED
      BY <3>1, <3>2, <3>3
  <2> QED
    BY <2>2, <2>4, <2>5 DEF HistoryIsAChain
<1> QED
  BY <1>10, <1>11, <1>12, <1>13, <1>14 DEF SessionsMatchAttempts

\* A step that leaves sessions, attempts and replay records alone keeps it.
LEMMA QuietKeepsInv ==
  ASSUME StoreInv, StoreTypeOK', session' = session, attempt' = attempt,
         \A a \in Attempts : record'[a].replay = record[a].replay
  PROVE  StoreInv'
<1> USE DEF StoreInv
<1>1. RowsAgree'
  BY DEF RowsAgree
<1>2. OneInFlight' /\ UnknownBlocks'
  BY DEF SessionsMatchAttempts, OneInFlight, UnknownBlocks
<1>3. HeadIsFinalized'
  BY DEF SessionsMatchAttempts, HeadIsFinalized, StoreTypeOK, SessionRow
<1>4. HistoryIsAChain'
  <2>1. \A a \in Attempts : (record[a].replay # None /\ record[a].replay.parent # None)
           => record[a].replay.parent \in Attempts
    BY DEF StoreTypeOK, RecordRow, Replay
  <2> QED
    BY <2>1 DEF HistoryIsAChain
<1> QED
  BY <1>1, <1>2, <1>3, <1>4 DEF SessionsMatchAttempts

\* transition: a new epoch is larger than that of every attempt and record so far.
LEMMA TransitionKeepsInv ==
  ASSUME StoreInv, StoreTypeOK', NEW s \in Sessions, NEW kind \in TransitionKinds,
         NEW p \in Portables \cup {None}, Transition(s, session[s].revision, kind, p)
  PROVE  StoreInv'
<1> USE DEF StoreInv
<1>1. /\ session' = [session EXCEPT ![s] = session'[s]]
      /\ attempt' = attempt /\ record' = record
      /\ session[s].status \notin InFlight \cup {"absent"}
      /\ session'[s].status \in {"ready", "compacting"}
  BY DEF Transition, CanTransition, Quiet, Advanced, NewEpoch, StoreTypeOK
<1>2. \/ /\ session'[s].epoch = session[s].epoch /\ session'[s].head = session[s].head
         /\ session[s].status = "ready"
      \/ session'[s].epoch = session[s].epoch + 1 /\ session'[s].head = None
  BY DEF Transition, CanTransition, OpensEpoch, Advanced, NewEpoch, StoreTypeOK
<1>3. \A t \in Sessions : t # s => session'[t] = session[t]
  BY <1>1 DEF StoreTypeOK
<1>4. \A t \in Sessions : session[t].epoch \in Nat /\ session'[t].epoch \in Nat
  BY DEF StoreTypeOK, SessionRow
<1>5. \A a \in Attempts : attempt[a].epoch \in Nat
  BY DEF StoreTypeOK, AttemptRow
<1>6. \A t \in Sessions : session[t].epoch <= session'[t].epoch
  BY <1>2, <1>3, <1>4
<1>7. RowsAgree'
  <2>1. \A t \in Sessions : session[t].status # "absent" => session'[t].status # "absent"
    BY <1>1, <1>3
  <2>2. ASSUME NEW a \in Attempts, attempt[a].status # "absent"
        PROVE  /\ attempt[a].session \in Sessions
               /\ session'[attempt[a].session].status # "absent"
               /\ attempt[a].epoch <= session'[attempt[a].session].epoch
    <3>1. /\ attempt[a].session \in Sessions
          /\ session[attempt[a].session].status # "absent"
          /\ attempt[a].epoch <= session[attempt[a].session].epoch
      BY <2>2 DEF RowsAgree
    <3> QED
      BY <1>4, <1>5, <1>6, <2>1, <3>1
  <2> QED
    BY <1>1, <2>2 DEF RowsAgree
<1>8. OneInFlight'
  <2>1. \A a \in Attempts : attempt[a].status = "pending" =>
           attempt[a].session \in Sessions /\ attempt[a].session # s
    BY <1>1 DEF RowsAgree, SessionsMatchAttempts, OneInFlight
  <2>2. \A t \in Sessions : session'[t].status \in InFlight => t # s
    BY <1>1 DEF InFlight
  <2> QED
    BY <1>1, <1>3, <2>1, <2>2 DEF SessionsMatchAttempts, OneInFlight
<1>9. UnknownBlocks'
  <2> SUFFICES ASSUME NEW a \in Attempts, attempt[a].status = "unknown"
               PROVE  \/ session'[attempt[a].session].status = "unknown"
                      \/ session'[attempt[a].session].epoch > attempt[a].epoch
    BY <1>1 DEF UnknownBlocks
  <2>1. /\ attempt[a].session \in Sessions
        /\ attempt[a].epoch <= session[attempt[a].session].epoch
        /\ \/ session[attempt[a].session].status = "unknown"
           \/ session[attempt[a].session].epoch > attempt[a].epoch
    BY DEF RowsAgree, SessionsMatchAttempts, UnknownBlocks
  <2>2. CASE attempt[a].session = s
    BY <1>2, <1>4, <1>5, <2>1, <2>2
  <2>3. CASE attempt[a].session # s
    BY <1>3, <2>1, <2>3
  <2> QED
    BY <2>2, <2>3
<1>10. HeadIsFinalized'
  BY <1>1, <1>2, <1>3 DEF SessionsMatchAttempts, HeadIsFinalized
<1>11. HistoryIsAChain'
  <2>1. ASSUME NEW a \in Attempts, record[a].replay # None,
               record[a].replay.epoch = session'[record[a].replay.session].epoch
        PROVE  /\ session'[record[a].replay.session].head # None
               /\ record[a].replay.parent # session'[record[a].replay.session].head
    <3>1. /\ record[a].replay.session \in Sessions
          /\ record[a].replay.epoch \in Nat
          /\ record[a].replay.epoch <= session[record[a].replay.session].epoch
      <4>1. /\ attempt[a].status # "absent" /\ record[a].replay.session = attempt[a].session
            /\ record[a].replay.epoch = attempt[a].epoch
        BY <2>1 DEF RowsAgree
      <4> QED
        BY <1>5, <4>1 DEF RowsAgree
    <3>2. record[a].replay.epoch = session[record[a].replay.session].epoch
      BY <1>4, <1>6, <2>1, <3>1
    <3>3. session'[record[a].replay.session].head = session[record[a].replay.session].head
      <4>1. CASE record[a].replay.session = s
        <5>1. session'[s].epoch = session[s].epoch
          BY <2>1, <3>2, <4>1
        <5>2. session'[s].head = session[s].head
          BY <1>2, <1>4, <5>1
        <5> QED
          BY <4>1, <5>2
      <4>2. CASE record[a].replay.session # s
        BY <1>3, <3>1, <4>2
      <4> QED
        BY <4>1, <4>2
    <3> QED
      BY <2>1, <3>2, <3>3 DEF HistoryIsAChain
  <2> QED
    BY <1>1, <2>1 DEF HistoryIsAChain
<1> QED
  BY <1>7, <1>8, <1>9, <1>10, <1>11 DEF SessionsMatchAttempts

\* What uncertain and recovery share: some pending attempts become unknown, each
\* together with its session, and no other column changes.
BlockedStep ==
    /\ record' = record
    /\ \A a \in Attempts :
          /\ attempt'[a].session = attempt[a].session /\ attempt'[a].epoch = attempt[a].epoch
          /\ \/ attempt'[a].status = attempt[a].status
             \/ attempt[a].status = "pending" /\ attempt'[a].status = "unknown"
    /\ \A s \in Sessions :
          /\ session'[s].epoch = session[s].epoch /\ session'[s].head = session[s].head
          /\ \/ /\ session'[s].status = session[s].status
                /\ \A a \in Attempts : attempt[a].session = s => attempt'[a].status = attempt[a].status
             \/ /\ session'[s].status = "unknown"
                /\ session[s].status \in InFlight
                /\ \A a \in Attempts : attempt[a].session = s => attempt'[a].status # "pending"

\* uncertain, and recovery at open, keep the invariant.
LEMMA BlockedKeepsInv ==
  ASSUME StoreInv, StoreTypeOK', BlockedStep
  PROVE  StoreInv'
<1> USE DEF StoreInv
<1>1. \A a \in Attempts : attempt[a].status # "absent" => attempt[a].session \in Sessions
  BY DEF RowsAgree
<1>2. RowsAgree'
  <2>1. \A s \in Sessions : session[s].status # "absent" => session'[s].status # "absent"
    BY DEF BlockedStep
  <2>2. \A a \in Attempts : attempt'[a].status = "absent" <=> attempt[a].status = "absent"
    BY DEF BlockedStep
  <2>3. \A a \in Attempts : attempt'[a].status = "finalized" <=> attempt[a].status = "finalized"
    BY DEF BlockedStep
  <2> QED
    BY <1>1, <2>1, <2>2, <2>3 DEF BlockedStep, RowsAgree
<1>3. OneInFlight'
  <2>1. ASSUME NEW a \in Attempts, attempt'[a].status = "pending"
        PROVE  /\ attempt[a].status = "pending"
               /\ session'[attempt'[a].session].status \in InFlight
               /\ session'[attempt'[a].session].epoch = attempt'[a].epoch
    BY <1>1, <2>1 DEF BlockedStep, SessionsMatchAttempts, OneInFlight
  <2>2. ASSUME NEW s \in Sessions, session'[s].status \in InFlight
        PROVE  \E a \in Attempts : attempt'[a].session = s /\ attempt'[a].status = "pending"
    <3>1. /\ session'[s].status = session[s].status
          /\ \A a \in Attempts : attempt[a].session = s => attempt'[a].status = attempt[a].status
      BY <2>2 DEF BlockedStep, InFlight
    <3>2. PICK a \in Attempts : attempt[a].session = s /\ attempt[a].status = "pending"
      BY <2>2, <3>1 DEF SessionsMatchAttempts, OneInFlight
    <3> QED
      BY <3>1, <3>2 DEF BlockedStep
  <2>3. ASSUME NEW a \in Attempts, NEW b \in Attempts, attempt'[a].status = "pending",
               attempt'[b].status = "pending", attempt'[a].session = attempt'[b].session
        PROVE  a = b
    BY <2>1, <2>3 DEF BlockedStep, SessionsMatchAttempts, OneInFlight
  <2> QED
    BY <2>1, <2>2, <2>3 DEF OneInFlight
<1>4. UnknownBlocks'
  <2> SUFFICES ASSUME NEW a \in Attempts, attempt'[a].status = "unknown"
               PROVE  \/ session'[attempt'[a].session].status = "unknown"
                      \/ session'[attempt'[a].session].epoch > attempt'[a].epoch
    BY DEF UnknownBlocks
  <2>1. attempt[a].session \in Sessions /\ attempt'[a].session = attempt[a].session
    BY <1>1 DEF BlockedStep
  <2>2. CASE attempt[a].status = "unknown"
    BY <2>1, <2>2 DEF BlockedStep, SessionsMatchAttempts, UnknownBlocks, InFlight
  <2>3. CASE attempt[a].status = "pending"
    BY <2>1, <2>3 DEF BlockedStep
  <2> QED
    BY <2>2, <2>3 DEF BlockedStep
<1>5. HeadIsFinalized'
  <2> SUFFICES ASSUME NEW s \in Sessions, session'[s].head # None
               PROVE  /\ attempt'[session'[s].head].status = "finalized"
                      /\ attempt'[session'[s].head].session = s
                      /\ attempt'[session'[s].head].epoch = session'[s].epoch
                      /\ record'[session'[s].head].replay # None
    BY DEF HeadIsFinalized
  <2>1. session'[s].head = session[s].head /\ session[s].head \in Attempts
    BY DEF BlockedStep, StoreTypeOK, SessionRow
  <2>2. /\ attempt[session[s].head].status = "finalized"
        /\ attempt[session[s].head].session = s
        /\ attempt[session[s].head].epoch = session[s].epoch
        /\ record[session[s].head].replay # None
    BY <2>1 DEF SessionsMatchAttempts, HeadIsFinalized
  <2> QED
    BY <2>1, <2>2 DEF BlockedStep
<1>6. HistoryIsAChain'
  <2>1. \A a \in Attempts : record[a].replay # None => record[a].replay.session \in Sessions
    BY DEF StoreTypeOK, RecordRow, Replay
  <2> QED
    BY <2>1 DEF BlockedStep, HistoryIsAChain
<1> QED
  BY <1>2, <1>3, <1>4, <1>5, <1>6 DEF SessionsMatchAttempts

\* uncertain blocks the session of the one attempt that was pending.
LEMMA MarkUncertainBlocks ==
  ASSUME StoreInv, NEW s \in Sessions, NEW a \in Attempts, MarkUncertain(s, a)
  PROVE  BlockedStep
<1> USE DEF StoreInv
<1>1. /\ record' = record
      /\ attempt[a].session = s /\ attempt[a].status = "pending"
      /\ attempt'[a].status = "unknown"
      /\ attempt'[a].session = s /\ attempt'[a].epoch = attempt[a].epoch
      /\ \A b \in Attempts : b # a => attempt'[b] = attempt[b]
  BY DEF MarkUncertain, CanMarkUncertain, StoreTypeOK, AttemptRow
<1>2. /\ session'[s].status = "unknown" /\ session'[s].epoch = session[s].epoch
      /\ session'[s].head = session[s].head
      /\ \A t \in Sessions : t # s => session'[t] = session[t]
  BY DEF MarkUncertain, Advanced, StoreTypeOK
<1>3. session[s].status \in InFlight
      /\ \A b \in Attempts : attempt[b].session = s /\ attempt[b].status = "pending" => b = a
  BY <1>1 DEF SessionsMatchAttempts, OneInFlight
<1> QED
  BY <1>1, <1>2, <1>3 DEF BlockedStep

\* open blocks every session that an earlier process left in flight.
LEMMA OpenBlocks ==
  ASSUME StoreInv, NEW k \in Keys, Open(k)
  PROVE  BlockedStep
<1> USE DEF StoreInv
<1>1. \A a \in Attempts :
        /\ attempt'[a].session = attempt[a].session /\ attempt'[a].epoch = attempt[a].epoch
        /\ attempt[a].status # "pending" => attempt'[a].status = attempt[a].status
        /\ attempt[a].status = "pending" => attempt'[a].status = "unknown"
  BY DEF Open, StoreTypeOK, AttemptRow
<1>2. ASSUME NEW s \in Sessions
      PROVE  /\ session'[s].epoch = session[s].epoch /\ session'[s].head = session[s].head
             /\ \/ /\ session'[s].status = session[s].status
                   /\ \A a \in Attempts :
                         attempt[a].session = s => attempt'[a].status = attempt[a].status
                \/ /\ session'[s].status = "unknown"
                   /\ session[s].status \in InFlight
                   /\ \A a \in Attempts :
                         attempt[a].session = s => attempt'[a].status # "pending"
  <2>1. CASE Recovered(s)
    <3>1. session'[s] = Advanced(session[s], "unknown")
      BY <2>1 DEF Open, RecoveredRow
    <3>2. session[s].status \in InFlight
      BY <2>1 DEF Recovered, SessionsMatchAttempts, OneInFlight
    <3> QED
      BY <1>1, <3>1, <3>2 DEF Advanced
  <2>2. CASE ~Recovered(s)
    <3>1. session'[s] = session[s]
      BY <2>2 DEF Open
    <3>2. \A a \in Attempts : attempt[a].session = s => attempt[a].status # "pending"
      BY <2>2 DEF Recovered
    <3> QED
      BY <1>1, <3>1, <3>2
  <2> QED
    BY <2>1, <2>2
<1> QED
  BY <1>1, <1>2 DEF BlockedStep, Open

\* Every step of the store keeps the inductive invariant.
LEMMA StoreInvStep == StoreInv /\ [StoreNext]_storeVars => StoreInv'
<1> SUFFICES ASSUME StoreInv, [StoreNext]_storeVars PROVE StoreInv'
  OBVIOUS
<1>0. StoreTypeOK'
  BY StoreTypeStep DEF StoreInv
<1>1. ASSUME NEW s \in Sessions, NEW o \in Origins, Create(s, o) PROVE StoreInv'
  BY <1>0, <1>1, CreateKeepsInv
<1>2. ASSUME NEW s \in Sessions, NEW a \in Attempts, NEW i \in Inputs, NEW r \in Reserves,
             Begin(s, session[s].revision, session[s].head, a, i, r)
      PROVE StoreInv'
  BY <1>0, <1>2, BeginKeepsInv
<1>3. ASSUME NEW s \in Sessions, NEW a \in Attempts, NEW tools \in BOOLEAN, NEW size \in Sizes,
             Finalize(s, a, Child(s, a, tools, size))
      PROVE StoreInv'
  BY <1>0, <1>3, FinalizeKeepsInv
<1>4. ASSUME NEW s \in Sessions, NEW a \in Attempts, MarkUncertain(s, a) PROVE StoreInv'
  BY <1>0, <1>4, MarkUncertainBlocks, BlockedKeepsInv
<1>5. ASSUME NEW a \in Attempts, Repair(a, record[a].replay) PROVE StoreInv'
  <2>1. \A b \in Attempts : record'[b].replay = record[b].replay
    BY <1>5 DEF Repair, StoreInv, StoreTypeOK, RecordRow
  <2> QED
    BY <1>0, <1>5, <2>1, QuietKeepsInv DEF Repair
<1>6. ASSUME NEW s \in Sessions, NEW kind \in TransitionKinds, NEW p \in Portables \cup {None},
             Transition(s, session[s].revision, kind, p)
      PROVE StoreInv'
  BY <1>0, <1>6, TransitionKeepsInv
<1>7. ASSUME NEW k \in Keys, Open(k) PROVE StoreInv'
  BY <1>0, <1>7, OpenBlocks, BlockedKeepsInv
<1>8. ASSUME Crash PROVE StoreInv'
  BY <1>0, <1>8, QuietKeepsInv DEF Crash
<1>9. ASSUME NEW a \in Attempts, LosePayload(a) PROVE StoreInv'
  <2>1. \A b \in Attempts : record'[b].replay = record[b].replay
    BY <1>9 DEF LosePayload, StoreInv, StoreTypeOK, RecordRow
  <2> QED
    BY <1>0, <1>9, <2>1, QuietKeepsInv DEF LosePayload
<1>10. CASE UNCHANGED storeVars
  BY <1>0, <1>10, QuietKeepsInv DEF storeVars
<1> QED
  BY <1>1, <1>2, <1>3, <1>4, <1>5, <1>6, <1>7, <1>8, <1>9, <1>10 DEF StoreNext

\* The strengthening holds in every reachable state.
THEOREM StoreInvariant == StoreSpec => []StoreInv
  BY StoreInvInit, StoreInvStep, PTL DEF StoreSpec

\* Session rows and attempt rows always agree: one attempt in flight per session
\* exactly while the session says so, an unknown outcome blocks its epoch, and the
\* head is a finalized attempt of the current epoch.
THEOREM SessionsAlwaysMatchAttempts == StoreSpec => []SessionsMatchAttempts
<1>1. StoreInv => SessionsMatchAttempts
  BY DEF StoreInv
<1> QED
  BY <1>1, StoreInvariant, PTL

\* The finalized history of each epoch never forks and ends in the head.
THEOREM HistoryNeverForks == StoreSpec => []HistoryIsAChain
<1>1. StoreInv => HistoryIsAChain
  BY DEF StoreInv
<1> QED
  BY <1>1, StoreInvariant, PTL

-----------------------------------------------------------------------------
(* What a step may never do.                                               *)

\* An identifier without a row has revision 0, below the first revision of a row.
UnwrittenRows == \A s \in Sessions : session[s].status = "absent" => session[s].revision = 0

\* No transaction writes a row and leaves it absent.
LEMMA UnwrittenStep ==
  ASSUME StoreTypeOK, UnwrittenRows, [StoreNext]_storeVars
  PROVE  UnwrittenRows'
<1> SUFFICES ASSUME NEW x \in Sessions, session'[x] # session[x]
             PROVE  session'[x].status # "absent"
  BY DEF UnwrittenRows
<1> USE DEF StoreTypeOK
<1>1. ASSUME NEW s \in Sessions, NEW o \in Origins, Create(s, o)
      PROVE  session'[x].status # "absent"
  BY <1>1 DEF Create
<1>2. ASSUME NEW s \in Sessions, NEW a \in Attempts, NEW i \in Inputs, NEW r \in Reserves,
             Begin(s, session[s].revision, session[s].head, a, i, r)
      PROVE  session'[x].status # "absent"
  BY <1>2 DEF Begin, Advanced
<1>3. ASSUME NEW s \in Sessions, NEW a \in Attempts, NEW tools \in BOOLEAN, NEW size \in Sizes,
             Finalize(s, a, Child(s, a, tools, size))
      PROVE  session'[x].status # "absent"
  BY <1>3 DEF Finalize, Continued
<1>4. ASSUME NEW s \in Sessions, NEW a \in Attempts, MarkUncertain(s, a)
      PROVE  session'[x].status # "absent"
  BY <1>4 DEF MarkUncertain, Advanced
<1>5. ASSUME NEW s \in Sessions, NEW kind \in TransitionKinds, NEW p \in Portables \cup {None},
             Transition(s, session[s].revision, kind, p)
      PROVE  session'[x].status # "absent"
  BY <1>5 DEF Transition, Advanced, NewEpoch
<1>6. ASSUME NEW k \in Keys, Open(k) PROVE session'[x].status # "absent"
  BY <1>6 DEF Open, RecoveredRow, Advanced
<1> QED
  BY <1>1, <1>2, <1>3, <1>4, <1>5, <1>6 DEF StoreNext, Repair, Crash, LosePayload, storeVars

\* A transaction that changes a session row gives it the next revision.
LEMMA RevisionStep ==
  ASSUME StoreTypeOK, UnwrittenRows, StoreNext, NEW x \in Sessions, session'[x] # session[x]
  PROVE  session'[x].revision > session[x].revision
<1> USE DEF StoreTypeOK
<1>0. session[x] \in SessionRow /\ session[x].revision \in Nat
  BY DEF SessionRow
<1>1. ASSUME NEW s \in Sessions, NEW o \in Origins, Create(s, o)
      PROVE  session'[x].revision > session[x].revision
  <2>1. x = s /\ session'[x].revision = 1
    BY <1>1 DEF Create
  <2>2. session[x].revision = 0
    BY <1>1, <2>1 DEF Create, UnwrittenRows
  <2> QED
    BY <2>1, <2>2
<1>2. ASSUME NEW s \in Sessions, NEW a \in Attempts, NEW i \in Inputs, NEW r \in Reserves,
             Begin(s, session[s].revision, session[s].head, a, i, r)
      PROVE  session'[x].revision > session[x].revision
  BY <1>0, <1>2 DEF Begin, Advanced
<1>3. ASSUME NEW s \in Sessions, NEW a \in Attempts, NEW tools \in BOOLEAN, NEW size \in Sizes,
             Finalize(s, a, Child(s, a, tools, size))
      PROVE  session'[x].revision > session[x].revision
  BY <1>0, <1>3 DEF Finalize, Continued
<1>4. ASSUME NEW s \in Sessions, NEW a \in Attempts, MarkUncertain(s, a)
      PROVE  session'[x].revision > session[x].revision
  BY <1>0, <1>4 DEF MarkUncertain, Advanced
<1>5. ASSUME NEW s \in Sessions, NEW kind \in TransitionKinds, NEW p \in Portables \cup {None},
             Transition(s, session[s].revision, kind, p)
      PROVE  session'[x].revision > session[x].revision
  BY <1>0, <1>5 DEF Transition, Advanced, NewEpoch
<1>6. ASSUME NEW k \in Keys, Open(k) PROVE session'[x].revision > session[x].revision
  BY <1>0, <1>6 DEF Open, RecoveredRow, Advanced
<1> QED
  BY <1>1, <1>2, <1>3, <1>4, <1>5, <1>6 DEF StoreNext, Repair, Crash, LosePayload

\* The compare-and-set of begin and transition is sound: a session row that
\* changed has a larger revision, recovery at open included.
THEOREM RevisionsAlwaysAdvance == StoreSpec => RevisionAdvances
<1>1. StoreInit => UnwrittenRows
  BY DEF StoreInit, UnwrittenRows
<1>2. StoreTypeOK /\ UnwrittenRows /\ [StoreNext]_storeVars => UnwrittenRows'
  BY UnwrittenStep
<1>3. StoreTypeOK /\ UnwrittenRows /\ [StoreNext]_storeVars
        => [\A s \in Sessions : session'[s] # session[s] =>
              session'[s].revision > session[s].revision]_storeVars
  BY RevisionStep
<1> QED
  BY <1>1, <1>2, <1>3, StoreTypeCorrect, PTL DEF StoreSpec, RevisionAdvances

\* A transaction leaves a settled attempt and the digest of its record alone.
LEMMA SettledStep ==
  ASSUME StoreInv, StoreNext, NEW x \in Attempts, attempt[x].status \in {"finalized", "unknown"}
  PROVE  attempt'[x] = attempt[x] /\ record'[x].replay = record[x].replay
<1> USE DEF StoreInv, StoreTypeOK
<1>1. ASSUME NEW s \in Sessions, NEW a \in Attempts, NEW i \in Inputs, NEW r \in Reserves,
             Begin(s, session[s].revision, session[s].head, a, i, r)
      PROVE  attempt'[x] = attempt[x] /\ record' = record
  BY <1>1 DEF Begin
<1>2. ASSUME NEW s \in Sessions, NEW a \in Attempts, NEW tools \in BOOLEAN, NEW size \in Sizes,
             Finalize(s, a, Child(s, a, tools, size))
      PROVE  attempt'[x] = attempt[x] /\ record'[x] = record[x]
  BY <1>2 DEF Finalize, CanFinalize
<1>3. ASSUME NEW s \in Sessions, NEW a \in Attempts, MarkUncertain(s, a)
      PROVE  attempt'[x] = attempt[x] /\ record' = record
  BY <1>3 DEF MarkUncertain, CanMarkUncertain
<1>4. ASSUME NEW a \in Attempts, Repair(a, record[a].replay)
      PROVE  attempt' = attempt /\ record'[x].replay = record[x].replay
  BY <1>4 DEF Repair, RecordRow
<1>5. ASSUME NEW k \in Keys, Open(k) PROVE attempt'[x] = attempt[x] /\ record' = record
  BY <1>5 DEF Open
<1>6. ASSUME NEW a \in Attempts, LosePayload(a)
      PROVE  attempt' = attempt /\ record'[x].replay = record[x].replay
  BY <1>6 DEF LosePayload, RecordRow
<1> QED
  BY <1>1, <1>2, <1>3, <1>4, <1>5, <1>6 DEF StoreNext, Create, Transition, Crash

\* No transaction, repair or recovery rewrites a settled outcome or the digest of
\* a finalized record.
THEOREM OutcomesAreFinal == StoreSpec => OutcomeIsFinal
<1>1. StoreInv /\ [StoreNext]_storeVars
        => [\A a \in Attempts :
              attempt[a].status \in {"finalized", "unknown"} =>
                 /\ attempt'[a] = attempt[a]
                 /\ record'[a].replay = record[a].replay]_storeVars
  BY SettledStep
<1> QED
  BY <1>1, StoreInvariant, PTL DEF StoreSpec, OutcomeIsFinal

-----------------------------------------------------------------------------
(* The protection key.                                                     *)

\* Only the process with the bound key seals, and the binding never moves.
LEMMA ReadableStep ==
  ASSUME StoreTypeOK, EnvelopesReadable, [StoreNext]_storeVars
  PROVE  EnvelopesReadable'
<1> USE DEF StoreTypeOK, EnvelopesReadable
<1>1. ASSUME NEW s \in Sessions, NEW a \in Attempts, NEW tools \in BOOLEAN, NEW size \in Sizes,
             Finalize(s, a, Child(s, a, tools, size))
      PROVE  EnvelopesReadable'
  BY <1>1 DEF Finalize, CanFinalize
<1>2. ASSUME NEW a \in Attempts, Repair(a, record[a].replay) PROVE EnvelopesReadable'
  BY <1>2 DEF Repair, RecordRow
<1>3. ASSUME NEW k \in Keys, Open(k) PROVE EnvelopesReadable'
  BY <1>3, NoneAssumption DEF Open, Serving
<1>4. ASSUME NEW a \in Attempts, LosePayload(a) PROVE EnvelopesReadable'
  BY <1>4 DEF LosePayload, RecordRow
<1> QED
  BY <1>1, <1>2, <1>3, <1>4
  DEF StoreNext, Create, Begin, MarkUncertain, Transition, Crash, storeVars

\* Whatever keys processes are started with, every payload on disk stays readable
\* by each process that is allowed to serve.
THEOREM EnvelopesStayReadable == StoreSpec => []EnvelopesReadable
<1>1. StoreInit => EnvelopesReadable
  BY DEF StoreInit, EnvelopesReadable
<1>2. StoreTypeOK /\ EnvelopesReadable /\ [StoreNext]_storeVars => EnvelopesReadable'
  BY ReadableStep
<1> QED
  BY <1>1, <1>2, StoreTypeCorrect, PTL DEF StoreSpec

-----------------------------------------------------------------------------
(* The inductive invariant.                                                *)

\* What a future x may hold; the request is gone or not.
Copies(x) ==
    x.pc # "idle" =>
       /\ x.sid \in Sessions
       /\ x.snap.revision <= session[x.sid].revision
       /\ x.snap.revision = session[x.sid].revision => x.snap = session[x.sid]

Verified(x) ==
    /\ x.prev \in published \cup {None}
    /\ x.pc \notin {"idle", "verify"} => x.input \in Inputs /\ x.prev = x.snap.head

AttemptsAreOwn(x) ==
    x.att # None =>
       /\ x.pc \notin {"idle", "verify", "reserving"}
       /\ attempt[x.att].status # "absent"
       /\ attempt[x.att].session = x.sid
       /\ attempt[x.att].epoch = x.snap.epoch
       /\ attempt[x.att].status = "pending" => session[x.sid].head = x.snap.head

Stage(x) ==
    /\ x.pc \in {"sent", "finalizing", "recording"} => x.att # None
    /\ x.pc = "finalizing" => x.size \in Sizes

Holds(x) == Copies(x) /\ Verified(x) /\ AttemptsAreOwn(x) /\ Stage(x)

Right == {x \in Request : Holds(x)}

\* Live requests, and the transactions that others left behind.
Futures ==
    /\ \A r \in Requests : req[r] \in Right
    /\ \A j \in jobs : /\ j.of \in Right /\ j.of.pc # "idle"
                       /\ j.op = "begin" => j.of.pc = "reserving"
                       /\ j.op = "finalize" => j.of.pc = "finalizing"
                       /\ j.op = "uncertain" => j.of.att # None

OneHolder ==
    \A r \in Requests : req[r].att # None =>
       /\ \A q \in Requests : req[q].att = req[r].att => q = r
       /\ \A j \in jobs : j.of.att # req[r].att
       /\ req[r].pc # "recording" => attempt[req[r].att].status = "pending"
       /\ req[r].pc = "recording" => attempt[req[r].att].status = "finalized"

\* Requests and their transactions live in the process that owns the store.
Owned == up = None => jobs = {} /\ \A r \in Requests : req[r].pc = "idle"

\* UNIQUE(session, epoch, input_digest)
InputsAreUnique ==
    \A a, b \in Attempts :
       (/\ attempt[a].status # "absent" /\ attempt[b].status # "absent" /\ a # b
        /\ attempt[a].session = attempt[b].session
        /\ attempt[a].epoch = attempt[b].epoch) => attempt[a].input # attempt[b].input

\* The provider is called for reserved attempts, once.
SendsOnce ==
    /\ \A a \in Attempts : sends[a] <= 1 /\ (attempt[a].status = "absent" => sends[a] = 0)
    /\ \A r \in Requests : (req[r].pc = "admitted" /\ req[r].att # None) => sends[req[r].att] = 0

ProxyInv ==
    /\ ProxyTypeOK /\ StoreInv /\ UnwrittenRows /\ InputsAreUnique
    /\ Futures /\ OneHolder /\ Owned /\ SendsOnce
    /\ PublishedIsDurable /\ ParentsArePublished

-----------------------------------------------------------------------------
(* What a transaction of the store leaves alone.                           *)

\* An attempt keeps its session, epoch and input; while it is pending its session row does not move.
LEMMA AttemptStep ==
  ASSUME StoreInv, [StoreNext]_storeVars, NEW x \in Attempts, attempt[x].status # "absent"
  PROVE  /\ attempt'[x].session = attempt[x].session
         /\ attempt'[x].epoch = attempt[x].epoch
         /\ attempt'[x].input = attempt[x].input
         /\ attempt'[x].status # "absent"
         /\ attempt'[x].status = "pending" =>
               /\ attempt[x].status = "pending"
               /\ session'[attempt[x].session] = session[attempt[x].session]
<1> DEFINE Kept == /\ attempt'[x].session = attempt[x].session
                   /\ attempt'[x].epoch = attempt[x].epoch
                   /\ attempt'[x].input = attempt[x].input
                   /\ attempt'[x].status # "absent"
                   /\ attempt'[x].status = "pending" =>
                         /\ attempt[x].status = "pending"
                         /\ session'[attempt[x].session] = session[attempt[x].session]
<1> USE DEF StoreInv, StoreTypeOK
<1>0. /\ attempt[x] \in AttemptRow /\ attempt[x].session \in Sessions
      /\ attempt[x].status = "pending" => session[attempt[x].session].status \in InFlight
  BY DEF RowsAgree, SessionsMatchAttempts, OneInFlight
<1>1. ASSUME NEW s \in Sessions, NEW o \in Origins, Create(s, o) PROVE Kept
  BY <1>0, <1>1 DEF Create, InFlight
<1>2. ASSUME NEW s \in Sessions, NEW a \in Attempts, NEW i \in Inputs, NEW r \in Reserves,
             Begin(s, session[s].revision, session[s].head, a, i, r)
      PROVE Kept
  BY <1>0, <1>2 DEF Begin, CanBegin, InFlight
<1>3. ASSUME NEW s \in Sessions, NEW a \in Attempts, NEW tools \in BOOLEAN, NEW size \in Sizes,
             Finalize(s, a, Child(s, a, tools, size))
      PROVE Kept
  <2>1. /\ attempt' = [attempt EXCEPT ![a].status = "finalized"]
        /\ session' = [session EXCEPT ![s] = Continued(session[s], a, Child(s, a, tools, size))]
        /\ attempt[a].session = s /\ attempt[a].status = "pending"
    BY <1>3 DEF Finalize, CanFinalize
  <2>2. CASE x = a
    BY <1>0, <2>1, <2>2 DEF AttemptRow
  <2>3. CASE x # a
    BY <1>0, <2>1, <2>3 DEF SessionsMatchAttempts, OneInFlight
  <2> QED
    BY <2>2, <2>3
<1>4. ASSUME NEW s \in Sessions, NEW a \in Attempts, MarkUncertain(s, a) PROVE Kept
  <2>1. /\ attempt' = [attempt EXCEPT ![a].status = "unknown"]
        /\ session' = [session EXCEPT ![s] = Advanced(session[s], "unknown")]
        /\ attempt[a].session = s /\ attempt[a].status = "pending"
    BY <1>4 DEF MarkUncertain, CanMarkUncertain
  <2>2. CASE x = a
    BY <1>0, <2>1, <2>2 DEF AttemptRow
  <2>3. CASE x # a
    BY <1>0, <2>1, <2>3 DEF SessionsMatchAttempts, OneInFlight
  <2> QED
    BY <2>2, <2>3
<1>5. ASSUME NEW a \in Attempts, Repair(a, record[a].replay) \/ LosePayload(a) PROVE Kept
  BY <1>0, <1>5 DEF Repair, LosePayload
<1>6. ASSUME NEW s \in Sessions, NEW kind \in TransitionKinds, NEW p \in Portables \cup {None},
             Transition(s, session[s].revision, kind, p)
      PROVE Kept
  BY <1>0, <1>6 DEF Transition, CanTransition, Quiet
<1>7. ASSUME NEW k \in Keys, Open(k) PROVE Kept
  BY <1>0, <1>7 DEF Open, AttemptRow
<1>8. CASE Crash \/ UNCHANGED storeVars
  BY <1>0, <1>8 DEF Crash, storeVars
<1> QED
  BY <1>1, <1>2, <1>3, <1>4, <1>5, <1>6, <1>7, <1>8 DEF StoreNext

\* An attempt appears only by a begin that found its input unused.
LEMMA InputsStayUnique ==
  ASSUME StoreInv, InputsAreUnique, [StoreNext]_storeVars
  PROVE  InputsAreUnique'
<1> USE DEF StoreInv, StoreTypeOK
<1>1. \A a \in Attempts : attempt[a].status # "absent" =>
         /\ attempt'[a].session = attempt[a].session
         /\ attempt'[a].epoch = attempt[a].epoch
         /\ attempt'[a].input = attempt[a].input
  BY AttemptStep
<1>2. ASSUME NEW s \in Sessions, NEW a \in Attempts, NEW i \in Inputs, NEW r \in Reserves,
             Begin(s, session[s].revision, session[s].head, a, i, r)
      PROVE InputsAreUnique'
  <2>1. /\ \A b \in Attempts \ {a} : attempt'[b] = attempt[b]
        /\ attempt'[a].session = s /\ attempt'[a].epoch = session[s].epoch /\ attempt'[a].input = i
    BY <1>2 DEF Begin
  <2>2. \A b \in Attempts : attempt[b].status # "absent" =>
           ~(attempt[b].session = s /\ attempt[b].epoch = session[s].epoch /\ attempt[b].input = i)
    BY <1>2 DEF Begin, CanBegin, InputUnused, Rows
  <2> QED
    BY <2>1, <2>2 DEF InputsAreUnique
<1>3. CASE \A a \in Attempts : attempt'[a].status # "absent" => attempt[a].status # "absent"
  BY <1>1, <1>3 DEF InputsAreUnique
<1>4. CASE ~\E s \in Sessions, a \in Attempts, i \in Inputs, r \in Reserves :
             Begin(s, session[s].revision, session[s].head, a, i, r)
  <2>1. \A a \in Attempts : attempt'[a].status # "absent" => attempt[a].status # "absent"
    <3>1. ASSUME NEW s \in Sessions, NEW o \in Origins, Create(s, o) PROVE attempt' = attempt
      BY <3>1 DEF Create
    <3>2. ASSUME NEW s \in Sessions, NEW a \in Attempts, NEW tools \in BOOLEAN, NEW size \in Sizes,
                 Finalize(s, a, Child(s, a, tools, size))
          PROVE  attempt[a].status = "pending" /\ \A b \in Attempts \ {a} : attempt'[b] = attempt[b]
      BY <3>2 DEF Finalize, CanFinalize
    <3>3. ASSUME NEW s \in Sessions, NEW a \in Attempts, MarkUncertain(s, a)
          PROVE  attempt[a].status = "pending" /\ \A b \in Attempts \ {a} : attempt'[b] = attempt[b]
      BY <3>3 DEF MarkUncertain, CanMarkUncertain
    <3>4. ASSUME NEW k \in Keys, Open(k)
          PROVE  \A a \in Attempts : attempt[a].status = "pending" \/ attempt'[a] = attempt[a]
      BY <3>4 DEF Open
    <3>5. ASSUME NEW s \in Sessions, NEW kind \in TransitionKinds, NEW p \in Portables \cup {None},
                 Transition(s, session[s].revision, kind, p)
          PROVE attempt' = attempt
      BY <3>5 DEF Transition
    <3>6. ASSUME NEW a \in Attempts, Repair(a, record[a].replay) \/ LosePayload(a)
          PROVE attempt' = attempt
      BY <3>6 DEF Repair, LosePayload
    <3>7. CASE Crash \/ UNCHANGED storeVars
      BY <3>7 DEF Crash, storeVars
    <3> QED
      BY <1>4, <3>1, <3>2, <3>3, <3>4, <3>5, <3>6, <3>7 DEF StoreNext
  <2> QED
    BY <1>3, <2>1
<1> QED
  BY <1>2, <1>4

\* What a future holds stays right over every transaction and publication.
LEMMA RightStays ==
  ASSUME StoreInv, UnwrittenRows, StoreTypeOK', [StoreNext]_storeVars,
         published \subseteq published'
  PROVE  Right \subseteq Right'
<1> SUFFICES ASSUME NEW x \in Request, Holds(x) PROVE Holds(x)'
  BY DEF Right
<1> USE DEF StoreInv
<1>1. Copies(x)'
  <2> SUFFICES ASSUME x.pc # "idle" PROVE Copies(x)'
    BY DEF Copies
  <2>1. /\ x.sid \in Sessions /\ x.snap.revision \in Nat
        /\ x.snap.revision <= session[x.sid].revision
        /\ x.snap.revision = session[x.sid].revision => x.snap = session[x.sid]
        /\ session[x.sid].revision \in Nat /\ session'[x.sid].revision \in Nat
    BY DEF Holds, Copies, Request, SessionRow, StoreTypeOK
  <2>2. session'[x.sid] # session[x.sid] => session'[x.sid].revision > session[x.sid].revision
    BY <2>1, RevisionStep DEF storeVars
  <2> QED
    BY <2>1, <2>2 DEF Copies
<1>2. Verified(x)'
  BY DEF Holds, Verified
<1>3. AttemptsAreOwn(x)'
  <2> SUFFICES ASSUME x.att # None PROVE AttemptsAreOwn(x)'
    BY DEF AttemptsAreOwn
  <2>1. x.att \in Attempts
    BY DEF Request
  <2> QED
    BY <2>1, AttemptStep DEF Holds, AttemptsAreOwn
<1>4. Stage(x)'
  BY DEF Holds, Stage
<1> QED
  BY <1>1, <1>2, <1>3, <1>4 DEF Holds

-----------------------------------------------------------------------------
(* The request path is a user of the store.                                *)

\* A begin with the revision and head of the copy: the copy is the current row.
LEMMA BeginIsCurrent ==
  ASSUME StoreInv, NEW x \in Request, Holds(x), x.pc = "reserving", NEW a \in Attempts, BeginFor(x, a)
  PROVE  /\ StoreNext
         /\ attempt[a].status = "absent" /\ x.snap = session[x.sid] /\ up # None
         /\ attempt' = [attempt EXCEPT ![a] = attempt'[a]]
         /\ attempt'[a].status = "pending" /\ attempt'[a].session = x.sid
         /\ attempt'[a].epoch = x.snap.epoch /\ session'[x.sid].head = x.snap.head
         /\ record' = record
<1>1. x.sid \in Sessions /\ x.input \in Inputs
  BY DEF Holds, Copies, Verified
<1>2. PICK reserve \in Reserves : Begin(x.sid, x.snap.revision, x.snap.head, a, x.input, reserve)
  BY DEF BeginFor
<1>3. x.snap.revision = session[x.sid].revision /\ x.snap.head = session[x.sid].head /\ up # None
  BY <1>2 DEF Begin, CanBegin
<1>4. x.snap = session[x.sid]
  BY <1>3 DEF Holds, Copies
<1>5. Begin(x.sid, session[x.sid].revision, session[x.sid].head, a, x.input, reserve)
  BY <1>2, <1>3
<1>6. StoreNext
  BY <1>1, <1>5 DEF StoreNext
<1>7. /\ attempt[a].status = "absent" /\ record' = record
      /\ attempt' = [attempt EXCEPT ![a] = attempt'[a]]
      /\ attempt'[a].status = "pending" /\ attempt'[a].session = x.sid
      /\ attempt'[a].epoch = session[x.sid].epoch /\ session'[x.sid].head = session[x.sid].head
  BY <1>1, <1>5 DEF Begin, Advanced, StoreInv, StoreTypeOK
<1> QED
  BY <1>3, <1>4, <1>6, <1>7

\* A finalize builds on the session as it is now.
LEMMA FinalizeIsCurrent ==
  ASSUME StoreInv, NEW x \in Request, Holds(x), x.pc = "finalizing", FinalizeFor(x)
  PROVE  /\ StoreNext
         /\ x.att \in Attempts /\ up # None
         /\ attempt' = [attempt EXCEPT ![x.att] = attempt'[x.att]]
         /\ attempt'[x.att].status = "finalized"
         /\ \A b \in Attempts \ {x.att} : record'[b] = record[b]
         /\ record'[x.att].replay = NewReplay(x) /\ NewReplay(x) # None
         /\ NewReplay(x).parent = x.prev
<1>1. x.sid \in Sessions /\ x.att \in Attempts /\ x.size \in Sizes /\ x.tools \in BOOLEAN
  BY DEF Holds, Copies, Stage, Request
<1>2. Finalize(x.sid, x.att, NewReplay(x))
  BY DEF FinalizeFor
<1>3. /\ attempt[x.att].status = "pending" /\ attempt[x.att].epoch = session[x.sid].epoch
      /\ up # None
  BY <1>2 DEF Finalize, CanFinalize
<1>4. attempt[x.att].epoch = x.snap.epoch /\ session[x.sid].head = x.snap.head
  BY <1>1, <1>3, NoneAssumption DEF Holds, AttemptsAreOwn
<1>5. NewReplay(x) = Child(x.sid, x.att, x.tools, x.size)
  BY <1>3, <1>4 DEF NewReplay, Child
<1>6. StoreNext
  BY <1>1, <1>2, <1>5 DEF StoreNext
<1>7. Child(x.sid, x.att, x.tools, x.size) \in Replay
  BY <1>1 DEF Child, Replay, SessionRow, StoreInv, StoreTypeOK
<1>8. /\ attempt' = [attempt EXCEPT ![x.att] = attempt'[x.att]]
      /\ attempt'[x.att].status = "finalized"
      /\ \A b \in Attempts \ {x.att} : record'[b] = record[b]
      /\ record'[x.att].replay = NewReplay(x)
  BY <1>1, <1>2 DEF Finalize, StoreInv, StoreTypeOK, AttemptRow
<1>9. NewReplay(x).parent = x.prev
  BY DEF NewReplay, Holds, Verified
<1> QED
  BY <1>1, <1>3, <1>5, <1>6, <1>7, <1>8, <1>9, NoneAssumption

\* Every step of the proxy is a transaction of the store or leaves it alone.
LEMMA ProxyStepIsStoreStep ==
  ASSUME ProxyInv, [ProxyNext]_vars
  PROVE  [StoreNext]_storeVars
<1> USE DEF ProxyInv
<1>1. CASE Host
  BY <1>1 DEF Host, StoreNext
<1>2. CASE Kill
  BY <1>2 DEF Kill, StoreNext
<1>3. ASSUME NEW r \in Requests, NEW a \in Attempts, RestoreToken(r, a) PROVE [StoreNext]_storeVars
  BY <1>3 DEF RestoreToken, StoreNext
<1>4. ASSUME NEW r \in Requests, NEW a \in Attempts, Reserved(r, a) PROVE StoreNext
  <2>1. req[r] \in Request /\ Holds(req[r]) /\ req[r].pc = "reserving" /\ BeginFor(req[r], a)
    BY <1>4 DEF Reserved, Futures, Right
  <2> QED
    BY <2>1, BeginIsCurrent
<1>5. ASSUME NEW r \in Requests, Finalized(r) PROVE StoreNext
  <2>1. req[r] \in Request /\ Holds(req[r]) /\ req[r].pc = "finalizing" /\ FinalizeFor(req[r])
    BY <1>5 DEF Finalized, Futures, Right
  <2> QED
    BY <2>1, FinalizeIsCurrent
<1>6. ASSUME NEW r \in Requests,
             \/ \E s \in Sessions : Arrive(r, s)
             \/ \E i \in Inputs : Admit(r, i)
             \/ \E t \in BOOLEAN, z \in Sizes : Complete(r, t, z)
             \/ Prepare(r) \/ Reserve(r) \/ Dispatch(r)
             \/ Refused(r) \/ Publish(r) \/ Abandon(r)
      PROVE UNCHANGED storeVars
  BY <1>6 DEF Arrive, Admit, Complete, Prepare, Reserve, Dispatch, Refused, Publish, Abandon
<1>7. ASSUME NEW j \in jobs, NEW a \in Attempts, LateBegin(j, a) PROVE StoreNext
  <2>1. j.of \in Request /\ Holds(j.of) /\ j.of.pc = "reserving" /\ BeginFor(j.of, a)
    BY <1>7 DEF LateBegin, Futures, Right
  <2> QED
    BY <2>1, BeginIsCurrent
<1>8. ASSUME NEW j \in jobs, LateFinalize(j) PROVE StoreNext
  <2>1. j.of \in Request /\ Holds(j.of) /\ j.of.pc = "finalizing" /\ FinalizeFor(j.of)
    BY <1>8 DEF LateFinalize, Futures, Right
  <2> QED
    BY <2>1, FinalizeIsCurrent
<1>9. ASSUME NEW j \in jobs, LateUncertain(j) PROVE StoreNext
  <2>1. j.of \in Request /\ Holds(j.of) /\ j.of.pc # "idle" /\ j.of.att # None
    BY <1>9 DEF LateUncertain, Futures, Right
  <2>2. j.of.sid \in Sessions /\ j.of.att \in Attempts
    BY <2>1 DEF Holds, Copies, Request
  <2> QED
    BY <1>9, <2>2 DEF LateUncertain, StoreNext
<1>10. ASSUME NEW j \in jobs, LateRefused(j) PROVE UNCHANGED storeVars
  BY <1>10 DEF LateRefused
<1>11. CASE UNCHANGED vars
  BY <1>11 DEF vars, storeVars
<1> QED
  BY <1>1, <1>2, <1>3, <1>4, <1>5, <1>6, <1>7, <1>8, <1>9, <1>10, <1>11 DEF ProxyNext

-----------------------------------------------------------------------------
(* Preservation.                                                           *)

\* No request, no attempt and an unbound store.
LEMMA ProxyInvInit == ProxyInit => ProxyInv
<1> SUFFICES ASSUME ProxyInit PROVE ProxyInv
  OBVIOUS
<1>1. StoreInv /\ UnwrittenRows
  BY StoreInvInit DEF ProxyInit, StoreInit, UnwrittenRows
<1>2. Idle \in Request /\ Idle.pc = "idle" /\ Idle.att = None /\ Idle.prev = None
  BY DEF Idle, NoRow, Request, Stages, SessionRow, SessionStatus
<1>3. \A r \in Requests : req[r] = Idle
  BY DEF ProxyInit
<1>4. Idle \in Right
  BY <1>2 DEF Right, Holds, Copies, Verified, AttemptsAreOwn, Stage
<1>5. ProxyTypeOK
  BY <1>1, <1>2 DEF ProxyInit, ProxyTypeOK, StoreInv
<1>6. Futures /\ OneHolder /\ Owned
  BY <1>2, <1>3, <1>4 DEF ProxyInit, Futures, OneHolder, Owned
<1>7. SendsOnce
  BY <1>2, <1>3 DEF ProxyInit, SendsOnce
<1>8. InputsAreUnique
  BY DEF ProxyInit, StoreInit, InputsAreUnique
<1>9. PublishedIsDurable /\ ParentsArePublished
  BY DEF ProxyInit, StoreInit, PublishedIsDurable, ParentsArePublished
<1> QED
  BY <1>1, <1>5, <1>6, <1>7, <1>8, <1>9 DEF ProxyInv

\* The parts of the invariant that every transaction and publication keeps.
LEMMA StoreParts ==
  ASSUME ProxyInv, [StoreNext]_storeVars, published \subseteq published'
  PROVE  /\ StoreInv' /\ UnwrittenRows' /\ InputsAreUnique' /\ Right \subseteq Right'
         /\ \A a \in published : attempt'[a].status = "finalized" /\ record'[a].replay # None
         /\ \A a \in Attempts : attempt'[a].status = "absent" => attempt[a].status = "absent"
<1> USE DEF ProxyInv
<1>1. StoreInv'
  BY StoreInvStep
<1>2. UnwrittenRows'
  BY UnwrittenStep DEF StoreInv
<1>3. InputsAreUnique'
  BY InputsStayUnique
<1>4. Right \subseteq Right'
  BY <1>1, RightStays DEF StoreInv
<1>5. \A a \in published : a \in Attempts /\ attempt[a].status = "finalized" /\ record[a].replay # None
  BY DEF ProxyTypeOK, PublishedIsDurable
<1>6. \A a \in published : attempt'[a].status = "finalized" /\ record'[a].replay # None
  <2>1. CASE StoreNext
    BY <1>5, <2>1, SettledStep
  <2>2. CASE UNCHANGED storeVars
    BY <1>5, <2>2 DEF storeVars
  <2> QED
    BY <2>1, <2>2
<1>7. \A a \in Attempts : attempt'[a].status = "absent" => attempt[a].status = "absent"
  BY AttemptStep
<1> QED
  BY <1>1, <1>2, <1>3, <1>4, <1>6, <1>7


\* One live request moves on; nothing is detached.
LEMMA RequestMoves ==
  ASSUME ProxyInv, [StoreNext]_storeVars, NEW r \in Requests,
         req' = [req EXCEPT ![r] = req'[r]], req'[r] \in Right', up' # None,
         UNCHANGED <<jobs, published>>,
         req'[r].att # None =>
            /\ req'[r].att = req[r].att \/ attempt[req'[r].att].status = "absent"
            /\ attempt'[req'[r].att].status = IF req'[r].pc = "recording" THEN "finalized" ELSE "pending"
            /\ req'[r].pc = "admitted" => sends'[req'[r].att] = 0,
         \A b \in Attempts : (attempt[b].status # "absent" /\ b # req[r].att) =>
            attempt'[b].status = attempt[b].status,
         sends' \in [Attempts -> Nat],
         \A b \in Attempts : sends'[b] <= 1 /\ (attempt'[b].status = "absent" => sends'[b] = 0),
         \A b \in Attempts \ {req[r].att} : sends'[b] = sends[b],
         ParentsArePublished'
  PROVE  ProxyInv'
<1> USE DEF ProxyInv
<1>1. /\ StoreInv' /\ UnwrittenRows' /\ InputsAreUnique' /\ Right \subseteq Right'
      /\ \A a \in published : attempt'[a].status = "finalized" /\ record'[a].replay # None
  BY StoreParts
<1>2. /\ \A q \in Requests \ {r} : req'[q] = req[q]
      /\ req'[r] \in Request
  BY DEF ProxyTypeOK, Right
<1>3. ProxyTypeOK'
  BY <1>1, <1>2 DEF ProxyTypeOK, StoreInv
<1>4. Futures'
  BY <1>1, <1>2 DEF Futures
<1>5. \A q \in Requests : req[q].att # None => req[q].att \in Attempts /\ attempt[req[q].att].status # "absent"
  BY DEF Futures, Right, Holds, AttemptsAreOwn, Request
<1>6. \A j \in jobs : j.of.att # None => attempt[j.of.att].status # "absent"
  BY DEF Futures, Right, Holds, AttemptsAreOwn
<1>7. \A q \in Requests \ {r} : req[q].att # None =>
         /\ req[q].att # req'[r].att
         /\ attempt'[req[q].att].status = attempt[req[q].att].status
  BY <1>5 DEF OneHolder
<1>8. OneHolder'
  <2> SUFFICES ASSUME NEW q \in Requests, req'[q].att # None
               PROVE  /\ \A p \in Requests : req'[p].att = req'[q].att => p = q
                      /\ \A j \in jobs : j.of.att # req'[q].att
                      /\ req'[q].pc # "recording" => attempt'[req'[q].att].status = "pending"
                      /\ req'[q].pc = "recording" => attempt'[req'[q].att].status = "finalized"
    BY DEF OneHolder
  <2>1. CASE q = r
    <3>1. \A p \in Requests : req'[p].att = req'[q].att => p = q
      BY <1>2, <1>7, <2>1
    <3>2. \A j \in jobs : j.of.att # req'[q].att
      BY <1>6, <2>1 DEF OneHolder
    <3> QED
      BY <2>1, <3>1, <3>2
  <2>2. CASE q # r
    <3>1. req'[q] = req[q]
      BY <1>2, <2>2
    <3>2. \A p \in Requests : req'[p].att = req'[q].att => p = q
      BY <1>2, <1>7, <2>2, <3>1 DEF OneHolder
    <3> QED
      BY <1>7, <2>2, <3>1, <3>2 DEF OneHolder
  <2> QED
    BY <2>1, <2>2
<1>9. Owned'
  BY DEF Owned
<1>10. SendsOnce'
  <2>1. ASSUME NEW q \in Requests, req'[q].pc = "admitted", req'[q].att # None
        PROVE  sends'[req'[q].att] = 0
    <3>1. CASE q = r
      BY <2>1, <3>1
    <3>2. CASE q # r
      <4>1. req'[q] = req[q] /\ req[q].att \in Attempts /\ req[q].att # req[r].att
        BY <1>2, <1>5, <2>1, <3>2 DEF OneHolder
      <4> QED
        BY <2>1, <4>1 DEF SendsOnce
    <3> QED
      BY <3>1, <3>2
  <2> QED
    BY <2>1 DEF SendsOnce
<1>11. PublishedIsDurable'
  BY <1>1 DEF PublishedIsDurable
<1> QED
  BY <1>1, <1>3, <1>4, <1>8, <1>9, <1>10, <1>11

\* A request ends: what it leaves behind are its own transactions.
LEMMA RequestLeaves ==
  ASSUME ProxyInv, UNCHANGED storeVars, sends' = sends, NEW r \in Requests, req[r].pc # "idle",
         req' = [req EXCEPT ![r] = Idle], jobs \subseteq jobs',
         \A j \in jobs' \ jobs :
                         /\ j \in [op : {"begin", "finalize", "uncertain"}, of : {req[r]}]
                         /\ j.op = "begin" => req[r].pc = "reserving"
                         /\ j.op = "finalize" => req[r].pc = "finalizing"
                         /\ j.op = "uncertain" => req[r].att # None,
         \/ published' = published
         \/ /\ published' = published \cup {req[r].att} /\ req[r].att \in Attempts
            /\ attempt[req[r].att].status = "finalized"
  PROVE  ProxyInv'
<1> USE DEF ProxyInv
<1>1. /\ StoreInv' /\ UnwrittenRows' /\ InputsAreUnique' /\ Right \subseteq Right'
      /\ \A a \in published : attempt'[a].status = "finalized" /\ record'[a].replay # None
  BY StoreParts
<1>2. Idle \in Request /\ Idle.pc = "idle" /\ Idle.att = None /\ Idle.prev = None
  BY DEF Idle, NoRow, Request, Stages, SessionRow, SessionStatus
<1>3. /\ \A q \in Requests \ {r} : req'[q] = req[q]
      /\ req'[r] = Idle /\ req[r] \in Right /\ req[r] \in Request
  BY DEF ProxyTypeOK, Futures
<1>4. UNCHANGED <<session, attempt, record, up>>
  BY DEF storeVars
<1>5. Idle \in Right'
  BY <1>2 DEF Right, Holds, Copies, Verified, AttemptsAreOwn, Stage
<1>6. \A j \in jobs' \ jobs : j.of = req[r] /\ j \in [op : {"begin", "finalize", "uncertain"}, of : Request]
  BY <1>3
<1>7. ProxyTypeOK'
  <2>1. req' \in [Requests -> Request] /\ published' \subseteq Attempts
    BY <1>2, <1>3 DEF ProxyTypeOK
  <2>2. jobs' \subseteq [op : {"begin", "finalize", "uncertain"}, of : Request]
    BY <1>6 DEF ProxyTypeOK
  <2> QED
    BY <1>1, <2>1, <2>2 DEF ProxyTypeOK, StoreInv
<1>8. Futures'
  BY <1>1, <1>3, <1>5, <1>6 DEF Futures
<1>9. OneHolder'
  <2> SUFFICES ASSUME NEW q \in Requests, req'[q].att # None
               PROVE  /\ \A p \in Requests : req'[p].att = req'[q].att => p = q
                      /\ \A j \in jobs' : j.of.att # req'[q].att
                      /\ req'[q].pc # "recording" => attempt'[req'[q].att].status = "pending"
                      /\ req'[q].pc = "recording" => attempt'[req'[q].att].status = "finalized"
    BY DEF OneHolder
  <2>1. q # r /\ req'[q] = req[q]
    BY <1>2, <1>3
  <2>2. \A j \in jobs' \ jobs : j.of.att # req[q].att
    BY <1>6, <2>1 DEF OneHolder
  <2> QED
    BY <1>2, <1>3, <1>4, <2>1, <2>2 DEF OneHolder
<1>10. Owned'
  BY <1>4 DEF Owned
<1>11. SendsOnce'
  BY <1>2, <1>3, <1>4 DEF SendsOnce
<1>12. PublishedIsDurable'
  <2>1. req[r].att \in Attempts /\ attempt[req[r].att].status = "finalized" => record[req[r].att].replay # None
    BY DEF StoreInv, RowsAgree
  <2> QED
    BY <1>4, <2>1 DEF PublishedIsDurable
<1>13. ParentsArePublished'
  BY <1>4 DEF ParentsArePublished
<1> QED
  BY <1>1, <1>7, <1>8, <1>9, <1>10, <1>11, <1>12, <1>13

\* The requests stand still while the host or a detached transaction acts.
LEMMA RequestsStand ==
  ASSUME ProxyInv, [StoreNext]_storeVars, UNCHANGED <<req, sends, published>>,
         jobs' \subseteq jobs,
         up' = None => up = None,
         \A r \in Requests : req[r].att # None =>
            attempt'[req[r].att].status = attempt[req[r].att].status,
         ParentsArePublished'
  PROVE  ProxyInv'
<1> USE DEF ProxyInv
<1>1. /\ StoreInv' /\ UnwrittenRows' /\ InputsAreUnique' /\ Right \subseteq Right'
      /\ \A a \in published : attempt'[a].status = "finalized" /\ record'[a].replay # None
      /\ \A a \in Attempts : attempt'[a].status = "absent" => attempt[a].status = "absent"
  BY StoreParts
<1>2. ProxyTypeOK'
  BY <1>1 DEF ProxyTypeOK, StoreInv
<1>3. Futures'
  BY <1>1 DEF Futures
<1>4. OneHolder'
  BY DEF OneHolder
<1>5. Owned'
  BY DEF Owned
<1>6. SendsOnce'
  BY <1>1 DEF SendsOnce
<1>7. PublishedIsDurable'
  BY <1>1 DEF PublishedIsDurable
<1> QED
  BY <1>1, <1>2, <1>3, <1>4, <1>5, <1>6, <1>7

\* A request reads, verifies, is admitted, prepares or submits: the store stands still.
LEMMA StageKeepsInv ==
  ASSUME ProxyInv, NEW r \in Requests,
         \/ \E s \in Sessions : Arrive(r, s)
         \/ \E i \in Inputs : Admit(r, i)
         \/ \E t \in BOOLEAN, z \in Sizes : Complete(r, t, z)
         \/ Prepare(r) \/ Reserve(r)
  PROVE  ProxyInv'
<1> USE DEF ProxyInv
<1>1. UNCHANGED <<storeVars, jobs, sends, published>> /\ req' = [req EXCEPT ![r] = req'[r]]
  BY DEF Arrive, Admit, Complete, Prepare, Reserve, ProxyTypeOK
<1>2. UNCHANGED <<session, attempt, record, up>>
  BY <1>1 DEF storeVars
<1>3. req[r] \in Right /\ req[r] \in Request /\ Right \subseteq Right'
  BY <1>1, StoreParts DEF Futures, ProxyTypeOK
<1>4. up # None
  BY DEF Arrive, Admit, Complete, Prepare, Reserve, Owned
<1>5. req'[r] \in Right' /\ (req'[r].att # None => req'[r].att = req[r].att /\ req'[r].pc # "recording"
                             /\ req[r].pc # "recording"
                             /\ (req'[r].pc = "admitted" => req[r].pc = "admitted"))
  <2> USE DEF Right, Holds, Copies, Verified, AttemptsAreOwn, Stage
  <2>1. ASSUME NEW s \in Sessions, Arrive(r, s)
        PROVE  req'[r] \in Right' /\ req'[r].att = None
    <3> DEFINE y == [Idle EXCEPT !.pc = "verify", !.sid = s, !.snap = session[s]]
    <3>1. req'[r] = y /\ session[s] \in SessionRow
      BY <2>1 DEF Arrive, ProxyTypeOK, StoreTypeOK
    <3>2. /\ y \in Request /\ y.pc = "verify" /\ y.sid = s /\ y.snap = session[s]
          /\ y.att = None /\ y.prev = None
      BY <3>1 DEF Idle, NoRow, Request, Stages
    <3> HIDE DEF y
    <3>3. session[s].revision \in Nat
      BY <3>1 DEF SessionRow
    <3> QED
      BY <1>2, <3>1, <3>2, <3>3
  <2>2. ASSUME NEW i \in Inputs, Admit(r, i)
        PROVE  req'[r] \in Right' /\ req'[r].att = None
    <3>1. /\ req'[r] = [req[r] EXCEPT !.pc = "admitted", !.input = i]
          /\ req[r].pc = "verify" /\ req[r].prev = req[r].snap.head
      BY <2>2 DEF Admit, HistoryComplete, ProxyTypeOK
    <3>2. /\ req'[r] \in Request /\ req'[r].pc = "admitted" /\ req'[r].input = i
          /\ req'[r].sid = req[r].sid /\ req'[r].snap = req[r].snap /\ req'[r].prev = req[r].prev
          /\ req'[r].att = req[r].att
      BY <1>3, <3>1 DEF Request, Stages
    <3> QED
      BY <1>2, <1>3, <3>1, <3>2, <1>1
  <2>3. ASSUME NEW t \in BOOLEAN, NEW z \in Sizes, Complete(r, t, z)
        PROVE  req'[r] \in Right' /\ req'[r].att = req[r].att
               /\ req[r].pc = "sent" /\ req'[r].pc = "finalizing"
    <3>1. /\ req'[r] = [req[r] EXCEPT !.pc = "finalizing", !.tools = t, !.size = z]
          /\ req[r].pc = "sent"
      BY <2>3 DEF Complete, ProxyTypeOK
    <3>0. z \in Nat /\ req[r] \in Request
      BY <1>3, SizeAssumption
    <3>2. req'[r] \in Request
      BY <3>0, <3>1 DEF Request, Stages
    <3>3. /\ req'[r].pc = "finalizing" /\ req'[r].size = z
          /\ req'[r].input = req[r].input
          /\ req'[r].sid = req[r].sid /\ req'[r].snap = req[r].snap /\ req'[r].prev = req[r].prev
          /\ req'[r].att = req[r].att
      BY <3>0, <3>1 DEF Request
    <3> QED
      BY <1>1, <1>2, <1>3, <3>1, <3>2, <3>3
  <2>4. CASE Prepare(r)
    <3>1. /\ req'[r] = [req[r] EXCEPT !.prepared = TRUE]
          /\ req[r].pc = "admitted"
      BY <2>4 DEF Prepare, ProxyTypeOK
    <3>2. /\ req'[r] \in Request /\ req'[r].pc = "admitted" /\ req'[r].size = req[r].size
          /\ req'[r].input = req[r].input
          /\ req'[r].sid = req[r].sid /\ req'[r].snap = req[r].snap /\ req'[r].prev = req[r].prev
          /\ req'[r].att = req[r].att
      BY <1>3, <3>1 DEF Request, Stages
    <3> QED
      BY <1>1, <1>2, <1>3, <3>1, <3>2
  <2>5. CASE Reserve(r)
    <3>1. /\ req'[r] = [req[r] EXCEPT !.pc = "reserving"]
          /\ req[r].pc = "admitted" /\ req[r].att = None
      BY <2>5 DEF Reserve, ProxyTypeOK
    <3>2. /\ req'[r] \in Request /\ req'[r].pc = "reserving" /\ req'[r].size = req[r].size
          /\ req'[r].input = req[r].input
          /\ req'[r].sid = req[r].sid /\ req'[r].snap = req[r].snap /\ req'[r].prev = req[r].prev
          /\ req'[r].att = req[r].att
      BY <1>3, <3>1 DEF Request, Stages
    <3> QED
      BY <1>1, <1>2, <1>3, <3>1, <3>2
  <2> QED
    BY <2>1, <2>2, <2>3, <2>4, <2>5 DEF Prepare
<1>6. ParentsArePublished'
  BY <1>1, <1>2 DEF ParentsArePublished
<1>7. req'[r].att # None =>
         /\ req'[r].att = req[r].att
         /\ attempt'[req'[r].att].status = IF req'[r].pc = "recording" THEN "finalized" ELSE "pending"
         /\ req'[r].pc = "admitted" => sends'[req'[r].att] = 0
  BY <1>1, <1>2, <1>5 DEF OneHolder, SendsOnce
<1>8. /\ sends' \in [Attempts -> Nat]
      /\ \A b \in Attempts : sends'[b] <= 1 /\ (attempt'[b].status = "absent" => sends'[b] = 0)
  BY <1>1, <1>2 DEF SendsOnce, ProxyTypeOK
<1> QED
  BY <1>1, <1>2, <1>4, <1>5, <1>6, <1>7, <1>8, RequestMoves

\* A token of the history is restored, perhaps with a repair of its payload.
LEMMA RestoreKeepsInv ==
  ASSUME ProxyInv, [StoreNext]_storeVars, NEW r \in Requests, NEW a \in Attempts, RestoreToken(r, a)
  PROVE  ProxyInv'
<1> USE DEF ProxyInv
<1>1. /\ req' = [req EXCEPT ![r].prev = a] /\ UNCHANGED <<jobs, sends, published>>
      /\ UNCHANGED <<session, attempt, up>> /\ up # None
      /\ req[r].pc = "verify" /\ a \in published
      /\ \A b \in Attempts : record'[b].replay = record[b].replay
  BY DEF RestoreToken, Restorable, Repair, storeVars, ProxyTypeOK, StoreTypeOK, RecordRow
<1>2. req[r] \in Right /\ req[r] \in Request
  BY DEF Futures, ProxyTypeOK
<1>3. /\ req'[r] \in Request /\ req'[r].pc = "verify" /\ req'[r].prev = a
      /\ req'[r].sid = req[r].sid /\ req'[r].snap = req[r].snap
      /\ req'[r].att = req[r].att /\ req' = [req EXCEPT ![r] = req'[r]]
  BY <1>1, <1>2 DEF Request, ProxyTypeOK
<1>4. req'[r] \in Right' /\ req'[r].att = None
  <2>1. req'[r].att = None
    BY <1>1, <1>2, <1>3 DEF Right, Holds, AttemptsAreOwn
  <2>2. Copies(req[r])
    BY <1>2 DEF Right, Holds
  <2>3. Copies(req[r])'
    BY <1>1, <1>3, <2>2 DEF Copies
  <2>4. Verified(req[r])' /\ AttemptsAreOwn(req[r])' /\ Stage(req[r])'
    BY <1>1, <1>3, <2>1 DEF Verified, AttemptsAreOwn, Stage
  <2> QED
    BY <1>3, <2>1, <2>3, <2>4 DEF Right, Holds
<1>5. ParentsArePublished'
  BY <1>1 DEF ParentsArePublished
<1>6. /\ sends' \in [Attempts -> Nat]
      /\ \A b \in Attempts : sends'[b] <= 1 /\ (attempt'[b].status = "absent" => sends'[b] = 0)
  BY <1>1 DEF SendsOnce, ProxyTypeOK
<1> QED
  BY <1>1, <1>3, <1>4, <1>5, <1>6, RequestMoves

\* begin commits while its request waits for it.
LEMMA ReservedKeepsInv ==
  ASSUME ProxyInv, [StoreNext]_storeVars, NEW r \in Requests, NEW a \in Attempts, Reserved(r, a)
  PROVE  ProxyInv'
<1> USE DEF ProxyInv
<1>1. /\ req[r] \in Right /\ req[r] \in Request /\ Holds(req[r]) /\ req[r].pc = "reserving"
      /\ BeginFor(req[r], a)
      /\ UNCHANGED <<jobs, sends, published>>
      /\ req' = [req EXCEPT ![r].pc = "admitted", ![r].att = a]
  BY DEF Reserved, Futures, ProxyTypeOK, Right
<1>2. /\ attempt[a].status = "absent" /\ req[r].snap = session[req[r].sid] /\ up # None
      /\ attempt' = [attempt EXCEPT ![a] = attempt'[a]]
      /\ attempt'[a].status = "pending" /\ attempt'[a].session = req[r].sid
      /\ attempt'[a].epoch = req[r].snap.epoch /\ session'[req[r].sid].head = req[r].snap.head
      /\ record' = record
  BY <1>1, BeginIsCurrent
<1>3. /\ req'[r] \in Request /\ req'[r].pc = "admitted" /\ req'[r].prev = req[r].prev
      /\ req'[r].sid = req[r].sid /\ req'[r].snap = req[r].snap /\ req'[r].input = req[r].input
      /\ req'[r].att = a /\ req' = [req EXCEPT ![r] = req'[r]]
  BY <1>1 DEF Request, ProxyTypeOK, Stages
<1>4. req[r] \in Right' /\ up' # None
  <2>1. up' = up
    BY <1>1 DEF BeginFor, Begin
  <2> QED
    BY <1>1, <1>2, <2>1, StoreParts
<1>5. req'[r] \in Right'
  BY <1>1, <1>2, <1>3, <1>4 DEF Right, Holds, Copies, Verified, AttemptsAreOwn, Stage
<1>6. ParentsArePublished'
  BY <1>1, <1>2 DEF ParentsArePublished
<1>7. \A b \in Attempts \ {a} : attempt'[b] = attempt[b]
  BY <1>2 DEF ProxyTypeOK, StoreTypeOK
<1>8. /\ sends' \in [Attempts -> Nat] /\ sends'[a] = 0
      /\ \A b \in Attempts : sends'[b] <= 1 /\ (attempt'[b].status = "absent" => sends'[b] = 0)
  BY <1>1, <1>2, <1>7 DEF SendsOnce, ProxyTypeOK
<1> QED
  BY <1>1, <1>2, <1>3, <1>4, <1>5, <1>6, <1>7, <1>8, RequestMoves

\* The provider is called for the first time.
LEMMA DispatchKeepsInv ==
  ASSUME ProxyInv, NEW r \in Requests, Dispatch(r)
  PROVE  ProxyInv'
<1> USE DEF ProxyInv
<1> DEFINE a == req[r].att
<1>1. /\ req[r] \in Right /\ req[r] \in Request /\ req[r].pc = "admitted" /\ a # None
      /\ a \in Attempts
      /\ UNCHANGED <<storeVars, jobs, published>>
      /\ req' = [req EXCEPT ![r].pc = "sent"] /\ sends' = [sends EXCEPT ![a] = @ + 1]
  BY DEF Dispatch, Futures, ProxyTypeOK, Request
<1>2. UNCHANGED <<session, attempt, record, up>>
  BY <1>1 DEF storeVars
<1>3. /\ req'[r] \in Request /\ req'[r].pc = "sent" /\ req'[r].prev = req[r].prev
      /\ req'[r].sid = req[r].sid /\ req'[r].snap = req[r].snap /\ req'[r].input = req[r].input
      /\ req'[r].att = a /\ req' = [req EXCEPT ![r] = req'[r]]
  BY <1>1 DEF Request, ProxyTypeOK, Stages
<1>4. up' # None
  BY <1>1, <1>2 DEF Owned
<1>5. req'[r] \in Right'
  BY <1>1, <1>2, <1>3 DEF Right, Holds, Copies, Verified, AttemptsAreOwn, Stage
<1>6. ParentsArePublished'
  BY <1>1, <1>2 DEF ParentsArePublished
<1>7. /\ sends[a] = 0 /\ attempt[a].status = "pending"
      /\ sends'[a] = 1 /\ \A b \in Attempts \ {a} : sends'[b] = sends[b]
      /\ sends' \in [Attempts -> Nat]
  BY <1>1 DEF SendsOnce, ProxyTypeOK, OneHolder
<1>8. \A b \in Attempts : sends'[b] <= 1 /\ (attempt'[b].status = "absent" => sends'[b] = 0)
  BY <1>2, <1>7 DEF SendsOnce
<1> QED
  BY <1>1, <1>2, <1>3, <1>4, <1>5, <1>6, <1>7, <1>8, RequestMoves

\* A record that is written continues a published one.
LEMMA FinalizeKeepsParents ==
  ASSUME ProxyInv, NEW x \in Right, x.pc = "finalizing", FinalizeFor(x), published' = published
  PROVE  ParentsArePublished'
<1> USE DEF ProxyInv
<1>1. x \in Request /\ Holds(x)
  BY DEF Right
<1>2. /\ x.att \in Attempts
      /\ \A b \in Attempts \ {x.att} : record'[b] = record[b]
      /\ record'[x.att].replay = NewReplay(x)
      /\ NewReplay(x).parent = x.prev
  BY <1>1, FinalizeIsCurrent
<1>3. x.prev \in published \cup {None}
  BY <1>1 DEF Holds, Verified
<1>4. ASSUME NEW a \in Attempts, record'[a].replay # None, record'[a].replay.parent # None
      PROVE  record'[a].replay.parent \in published
  <2>1. CASE a = x.att
    BY <1>2, <1>3, <1>4, <2>1
  <2>2. CASE a # x.att
    BY <1>2, <1>4, <2>2 DEF ParentsArePublished
  <2> QED
    BY <2>1, <2>2
<1> QED
  BY <1>4 DEF ParentsArePublished

\* finalize commits while its request waits for it.
LEMMA FinalizedKeepsInv ==
  ASSUME ProxyInv, [StoreNext]_storeVars, NEW r \in Requests, Finalized(r)
  PROVE  ProxyInv'
<1> USE DEF ProxyInv
<1> DEFINE a == req[r].att
<1>1. /\ req[r] \in Right /\ req[r] \in Request /\ Holds(req[r]) /\ req[r].pc = "finalizing"
      /\ FinalizeFor(req[r])
      /\ UNCHANGED <<jobs, sends, published>>
      /\ req' = [req EXCEPT ![r].pc = "recording"]
  BY DEF Finalized, Futures, ProxyTypeOK, Right
<1>2. /\ a \in Attempts /\ up # None
      /\ attempt' = [attempt EXCEPT ![a] = attempt'[a]]
      /\ attempt'[a].status = "finalized"
  BY <1>1, FinalizeIsCurrent
<1>3. /\ req'[r] \in Request /\ req'[r].pc = "recording" /\ req'[r].prev = req[r].prev
      /\ req'[r].sid = req[r].sid /\ req'[r].snap = req[r].snap /\ req'[r].input = req[r].input
      /\ req'[r].att = a /\ req' = [req EXCEPT ![r] = req'[r]]
  BY <1>1 DEF Request, ProxyTypeOK, Stages
<1>4. req[r] \in Right' /\ up' # None
  <2>1. up' = up
    BY <1>1 DEF FinalizeFor, Finalize
  <2> QED
    BY <1>1, <1>2, <2>1, StoreParts
<1>5. req'[r] \in Right'
  BY <1>1, <1>2, <1>3, <1>4, NoneAssumption DEF Right, Holds, Copies, Verified, AttemptsAreOwn, Stage
<1>6. ParentsArePublished'
  BY <1>1, FinalizeKeepsParents
<1>7. \A b \in Attempts \ {a} : attempt'[b] = attempt[b]
  BY <1>2 DEF ProxyTypeOK, StoreTypeOK
<1>8. /\ sends' \in [Attempts -> Nat]
      /\ \A b \in Attempts : sends'[b] <= 1 /\ (attempt'[b].status = "absent" => sends'[b] = 0)
  BY <1>1, <1>2, <1>7 DEF SendsOnce, ProxyTypeOK
<1> QED
  BY <1>1, <1>2, <1>3, <1>4, <1>5, <1>6, <1>7, <1>8, RequestMoves

\* Refused, published or abandoned: a request is over.
LEMMA LeavingKeepsInv ==
  ASSUME ProxyInv, NEW r \in Requests, Refused(r) \/ Publish(r) \/ Abandon(r)
  PROVE  ProxyInv'
<1> USE DEF ProxyInv
<1>1. /\ UNCHANGED <<storeVars, sends>> /\ req[r].pc # "idle" /\ req' = [req EXCEPT ![r] = Idle]
  BY DEF Refused, Publish, Abandon, Leave
<1> DEFINE Own(j) == /\ j \in [op : {"begin", "finalize", "uncertain"}, of : {req[r]}]
                     /\ j.op = "begin" => req[r].pc = "reserving"
                     /\ j.op = "finalize" => req[r].pc = "finalizing"
                     /\ j.op = "uncertain" => req[r].att # None
<1>2. \A j \in Dropped(req[r]) : Own(j)
  BY DEF Dropped, GuardDrops
<1>3. \A j \in Detached(req[r]) : Own(j)
  BY DEF Detached
<1>4. jobs \subseteq jobs' /\ \A j \in jobs' : j \in jobs \/ Own(j)
  <2>1. ASSUME NEW extra, jobs' = jobs \cup extra, \A j \in extra : Own(j)
        PROVE  jobs \subseteq jobs' /\ \A j \in jobs' : j \in jobs \/ Own(j)
    BY <2>1
  <2>2. CASE Refused(r)
    <3>1. jobs' = jobs \cup Dropped(req[r])
      BY <2>2 DEF Refused, Leave
    <3> QED
      BY <1>2, <3>1
  <2>3. CASE Publish(r)
    <3>1. jobs' = jobs \cup {}
      BY <2>3 DEF Publish, Leave
    <3> QED
      BY <3>1
  <2>4. CASE Abandon(r)
    <3>1. jobs' = jobs \cup (Detached(req[r]) \cup Dropped(req[r]))
      BY <2>4 DEF Abandon, Leave
    <3> QED
      BY <1>2, <1>3, <3>1
  <2> QED
    BY <2>2, <2>3, <2>4
<1>5. \/ published' = published
      \/ /\ published' = published \cup {req[r].att} /\ req[r].att \in Attempts
         /\ attempt[req[r].att].status = "finalized"
  <2>1. CASE Publish(r)
    <3>1. req[r].pc = "recording" /\ req[r] \in Right /\ published' = published \cup {req[r].att}
      BY <2>1 DEF Publish, Futures
    <3>2. req[r].att # None /\ req[r].att \in Attempts
      BY <3>1 DEF Right, Holds, Stage, Request
    <3> QED
      BY <3>1, <3>2 DEF OneHolder
  <2>2. CASE Refused(r) \/ Abandon(r)
    BY <2>2 DEF Refused, Abandon
  <2> QED
    BY <2>1, <2>2
<1> QED
  BY <1>1, <1>4, <1>5, RequestLeaves

\* Decisions of the host and openings of the store touch no attempt that is held.
LEMMA HostKeepsInv ==
  ASSUME ProxyInv, [StoreNext]_storeVars, Host
  PROVE  ProxyInv'
<1> USE DEF ProxyInv
<1>1. UNCHANGED <<req, jobs, sends, published>>
  BY DEF Host
<1>2. /\ up' = None => up = None
      /\ up # None => attempt' = attempt
      /\ \A a \in Attempts : record'[a].replay = record[a].replay
  <2>1. ASSUME NEW s \in Sessions, NEW o \in Origins, Create(s, o)
        PROVE  up' = up /\ attempt' = attempt /\ record' = record
    BY <2>1 DEF Create
  <2>2. ASSUME NEW s \in Sessions, NEW kind \in TransitionKinds, NEW p \in Portables \cup {None},
               Transition(s, session[s].revision, kind, p)
        PROVE  up' = up /\ attempt' = attempt /\ record' = record
    BY <2>2 DEF Transition
  <2>3. ASSUME NEW k \in Keys, Open(k) PROVE up = None /\ record' = record
    BY <2>3 DEF Open
  <2>4. ASSUME NEW a \in Attempts, LosePayload(a)
        PROVE  up = None /\ \A b \in Attempts : record'[b].replay = record[b].replay
    BY <2>4 DEF LosePayload, ProxyTypeOK, StoreTypeOK, RecordRow
  <2> QED
    BY <2>1, <2>2, <2>3, <2>4 DEF Host
<1>3. \A r \in Requests : req[r].att # None => up # None
  BY DEF Owned, Futures, Right, Holds, AttemptsAreOwn
<1>4. ParentsArePublished'
  BY <1>1, <1>2 DEF ParentsArePublished
<1> QED
  BY <1>1, <1>2, <1>3, <1>4, RequestsStand

\* A detached transaction commits or is refused.
LEMMA LateKeepsInv ==
  ASSUME ProxyInv, [StoreNext]_storeVars, NEW j \in jobs,
         \/ \E a \in Attempts : LateBegin(j, a)
         \/ LateFinalize(j) \/ LateUncertain(j) \/ LateRefused(j)
  PROVE  ProxyInv'
<1> USE DEF ProxyInv
<1>1. UNCHANGED <<req, sends, published>> /\ jobs' \subseteq jobs
  BY DEF LateBegin, LateFinalize, LateUncertain, LateRefused
<1>2. j.of \in Right /\ j.of \in Request /\ Holds(j.of)
  BY DEF Futures, Right
<1>3. \A r \in Requests : req[r].att # None =>
         req[r].att \in Attempts /\ attempt[req[r].att].status # "absent" /\ req[r].att # j.of.att
  BY DEF Futures, Right, Holds, AttemptsAreOwn, Request, OneHolder
<1>4. /\ up' = up /\ ParentsArePublished'
      /\ \A b \in Attempts : (attempt[b].status # "absent" /\ b # j.of.att) =>
            attempt'[b].status = attempt[b].status
  <2>1. ASSUME NEW a \in Attempts, LateBegin(j, a)
        PROVE  /\ up' = up /\ record' = record
               /\ \A b \in Attempts : attempt[b].status # "absent" => attempt'[b] = attempt[b]
    <3>1. BeginFor(j.of, a) /\ j.of.pc = "reserving"
      BY <2>1 DEF LateBegin, Futures
    <3>2. /\ attempt[a].status = "absent" /\ record' = record
          /\ attempt' = [attempt EXCEPT ![a] = attempt'[a]]
      BY <1>2, <3>1, BeginIsCurrent
    <3>3. up' = up
      BY <3>1 DEF BeginFor, Begin
    <3> QED
      BY <3>2, <3>3 DEF ProxyTypeOK, StoreTypeOK
  <2>2. CASE LateFinalize(j)
    <3>1. FinalizeFor(j.of) /\ j.of.pc = "finalizing"
      BY <2>2 DEF LateFinalize, Futures
    <3>2. j.of.att \in Attempts /\ attempt' = [attempt EXCEPT ![j.of.att] = attempt'[j.of.att]]
      BY <1>2, <3>1, FinalizeIsCurrent
    <3>3. up' = up
      BY <3>1 DEF FinalizeFor, Finalize
    <3>4. ParentsArePublished'
      BY <1>1, <1>2, <3>1, FinalizeKeepsParents
    <3> QED
      BY <3>2, <3>3, <3>4 DEF ProxyTypeOK, StoreTypeOK
  <2>3. CASE LateUncertain(j)
    <3>1. up' = up /\ record' = record /\ attempt' = [attempt EXCEPT ![j.of.att].status = "unknown"]
      BY <2>3 DEF LateUncertain, MarkUncertain
    <3> QED
      BY <1>1, <3>1 DEF ParentsArePublished, ProxyTypeOK, StoreTypeOK
  <2>4. CASE LateRefused(j)
    BY <1>1, <2>4 DEF LateRefused, storeVars, ParentsArePublished
  <2>5. record' = record => ParentsArePublished'
    BY <1>1 DEF ParentsArePublished
  <2> QED
    BY <2>1, <2>2, <2>3, <2>4, <2>5
<1>5. \A r \in Requests : req[r].att # None =>
         attempt'[req[r].att].status = attempt[req[r].att].status
  BY <1>3, <1>4
<1> QED
  BY <1>1, <1>4, <1>5, RequestsStand

\* The process dies: the tables stay, futures and detached transactions go.
LEMMA KillKeepsInv ==
  ASSUME ProxyInv, [StoreNext]_storeVars, Kill
  PROVE  ProxyInv'
<1> USE DEF ProxyInv
<1>1. /\ req' = [r \in Requests |-> Idle] /\ jobs' = {} /\ UNCHANGED <<sends, published>>
      /\ UNCHANGED <<session, attempt, record>>
  BY DEF Kill, Crash
<1>2. StoreInv' /\ UnwrittenRows' /\ InputsAreUnique'
      /\ \A a \in published : attempt'[a].status = "finalized" /\ record'[a].replay # None
  BY <1>1, StoreParts
<1>3. Idle \in Request /\ Idle.pc = "idle" /\ Idle.att = None /\ Idle.prev = None
  BY DEF Idle, NoRow, Request, Stages, SessionRow, SessionStatus
<1>4. \A r \in Requests : req'[r] = Idle
  BY <1>1
<1>5. Idle \in Right'
  BY <1>3 DEF Right, Holds, Copies, Verified, AttemptsAreOwn, Stage
<1>6. ProxyTypeOK'
  BY <1>1, <1>2, <1>3 DEF ProxyTypeOK, StoreInv
<1>7. Futures' /\ OneHolder' /\ Owned'
  BY <1>1, <1>3, <1>4, <1>5 DEF Futures, OneHolder, Owned
<1>8. SendsOnce'
  BY <1>1, <1>3, <1>4 DEF SendsOnce
<1>9. PublishedIsDurable' /\ ParentsArePublished'
  BY <1>1, <1>2 DEF PublishedIsDurable, ParentsArePublished
<1> QED
  BY <1>2, <1>6, <1>7, <1>8, <1>9

\* Every step of the proxy keeps the invariant.
LEMMA ProxyInvStep == ProxyInv /\ [ProxyNext]_vars => ProxyInv'
<1> SUFFICES ASSUME ProxyInv, [ProxyNext]_vars PROVE ProxyInv'
  OBVIOUS
<1>1. [StoreNext]_storeVars
  BY ProxyStepIsStoreStep
<1>2. CASE Host
  BY <1>1, <1>2, HostKeepsInv
<1>3. CASE Kill
  BY <1>1, <1>3, KillKeepsInv
<1>4. ASSUME NEW r \in Requests,
             \/ \E s \in Sessions : Arrive(r, s)
             \/ \E a \in Attempts : RestoreToken(r, a) \/ Reserved(r, a)
             \/ \E i \in Inputs : Admit(r, i)
             \/ \E t \in BOOLEAN, z \in Sizes : Complete(r, t, z)
             \/ Prepare(r) \/ Reserve(r) \/ Dispatch(r) \/ Finalized(r)
             \/ Refused(r) \/ Publish(r) \/ Abandon(r)
      PROVE ProxyInv'
  <2>1. ASSUME NEW a \in Attempts, RestoreToken(r, a) PROVE ProxyInv'
    BY <1>1, <2>1, RestoreKeepsInv
  <2>2. ASSUME NEW a \in Attempts, Reserved(r, a) PROVE ProxyInv'
    BY <1>1, <2>2, ReservedKeepsInv
  <2>3. CASE \/ \E s \in Sessions : Arrive(r, s)
             \/ \E i \in Inputs : Admit(r, i)
             \/ \E t \in BOOLEAN, z \in Sizes : Complete(r, t, z)
             \/ Prepare(r) \/ Reserve(r)
    BY <2>3, StageKeepsInv
  <2>4. CASE Dispatch(r)
    BY <2>4, DispatchKeepsInv
  <2>5. CASE Finalized(r)
    BY <1>1, <2>5, FinalizedKeepsInv
  <2>6. CASE Refused(r) \/ Publish(r) \/ Abandon(r)
    BY <2>6, LeavingKeepsInv
  <2> QED
    BY <1>4, <2>1, <2>2, <2>3, <2>4, <2>5, <2>6
<1>5. ASSUME NEW j \in jobs,
             \/ \E a \in Attempts : LateBegin(j, a)
             \/ LateFinalize(j) \/ LateUncertain(j) \/ LateRefused(j)
      PROVE ProxyInv'
  BY <1>1, <1>5, LateKeepsInv
<1>6. CASE UNCHANGED vars
  <2>1. UNCHANGED <<session, attempt, record, up, req, jobs, sends, published>>
    BY <1>6 DEF vars
  <2>2. ParentsArePublished'
    BY <2>1 DEF ProxyInv, ParentsArePublished
  <2> QED
    BY <1>1, <2>1, <2>2, RequestsStand
<1> QED
  BY <1>2, <1>3, <1>4, <1>5, <1>6 DEF ProxyNext

\* The invariant of the request path.
LEMMA ProxyInvariant == ProxySpec => []ProxyInv
  BY ProxyInvInit, ProxyInvStep, PTL DEF ProxySpec

-----------------------------------------------------------------------------
(* What the request path promises.                                         *)

\* Futures hold what proxy_managed.rs lets them hold, in every reachable state.
THEOREM ProxyTypeCorrect == ProxySpec => []ProxyTypeOK
<1>1. ProxyInv => ProxyTypeOK
  BY DEF ProxyInv
<1> QED
  BY <1>1, ProxyInvariant, PTL

\* Stale copies, cancelled requests and detached transactions never make the
\* proxy use the store in a way StoreSpec does not allow: in particular every
\* record continues the head the session has when it is written, which finalize
\* itself does not check for built-in routes.
THEOREM ProxyImplementsStore == ProxySpec => StoreSpec
<1>1. ProxyInit => StoreInit
  BY DEF ProxyInit
<1>2. ProxyInv /\ [ProxyNext]_vars => [StoreNext]_storeVars
  BY ProxyStepIsStoreStep
<1> QED
  BY <1>1, <1>2, ProxyInvariant, PTL DEF ProxySpec, StoreSpec

\* The history of an epoch does not fork under racing connections.
THEOREM ProxyHistoryNeverForks == ProxySpec => []HistoryIsAChain
  BY ProxyImplementsStore, HistoryNeverForks, PTL

\* An envelope is out only for a finalized attempt.
THEOREM PublishedStaysDurable == ProxySpec => []PublishedIsDurable
<1>1. ProxyInv => PublishedIsDurable
  BY DEF ProxyInv
<1> QED
  BY <1>1, ProxyInvariant, PTL

\* No turn is built on a response that the client never received.
THEOREM ParentsAlwaysPublished == ProxySpec => []ParentsArePublished
<1>1. ProxyInv => ParentsArePublished
  BY DEF ProxyInv
<1> QED
  BY <1>1, ProxyInvariant, PTL

\* One payload is sent to the provider at most once in an epoch of a session.
THEOREM InferenceAtMostOnce == ProxySpec => []AtMostOnceInference
<1>1. ProxyInv => AtMostOnceInference
  <2> SUFFICES ASSUME ProxyInv PROVE AtMostOnceInference
    OBVIOUS
  <2>1. \A a \in Attempts : sends[a] > 0 => attempt[a].status # "absent"
    BY DEF ProxyInv, SendsOnce, ProxyTypeOK
  <2> QED
    BY <2>1 DEF ProxyInv, SendsOnce, InputsAreUnique, AtMostOnceInference
<1> QED
  BY <1>1, ProxyInvariant, PTL

\* A provider call is made for the pending attempt of the current epoch, with the
\* history that was verified, and never beside an attempt of unknown outcome.
THEOREM DispatchAlwaysCurrent == ProxySpec => DispatchIsCurrent
<1> DEFINE Current ==
      \A r \in Requests : Dispatch(r) =>
          LET x == req[r] IN
          /\ attempt[x.att].status = "pending"
          /\ attempt[x.att].epoch = session[x.sid].epoch
          /\ session[x.sid].head = x.snap.head
          /\ \A b \in Attempts : (/\ attempt[b].session = x.sid
                                  /\ attempt[b].epoch = session[x.sid].epoch)
                                 => attempt[b].status # "unknown"
<1>1. ProxyInv /\ [ProxyNext]_vars => [Current]_vars
  <2> SUFFICES ASSUME ProxyInv, NEW r \in Requests, Dispatch(r)
               PROVE  /\ attempt[req[r].att].status = "pending"
                      /\ attempt[req[r].att].epoch = session[req[r].sid].epoch
                      /\ session[req[r].sid].head = req[r].snap.head
                      /\ \A b \in Attempts : (/\ attempt[b].session = req[r].sid
                                              /\ attempt[b].epoch = session[req[r].sid].epoch)
                                             => attempt[b].status # "unknown"
    OBVIOUS
  <2> USE DEF ProxyInv
  <2>1. req[r].pc = "admitted" /\ req[r].att # None /\ req[r] \in Request /\ Holds(req[r])
    BY DEF Dispatch, Futures, Right
  <2>2. req[r].att \in Attempts /\ attempt[req[r].att].status = "pending"
    BY <2>1 DEF OneHolder, Request
  <2>3. /\ attempt[req[r].att].session = req[r].sid
        /\ session[req[r].sid].head = req[r].snap.head /\ req[r].sid \in Sessions
    BY <2>1, <2>2 DEF Holds, AttemptsAreOwn, Copies
  <2>4. /\ session[req[r].sid].status \in InFlight
        /\ session[req[r].sid].epoch = attempt[req[r].att].epoch
    BY <2>2, <2>3 DEF StoreInv, SessionsMatchAttempts, OneInFlight
  <2>5. session[req[r].sid].epoch \in Nat
    BY <2>3 DEF ProxyTypeOK, StoreTypeOK, SessionRow
  <2>6. \A b \in Attempts : (attempt[b].session = req[r].sid /\ attempt[b].epoch = session[req[r].sid].epoch)
                            => attempt[b].status # "unknown"
    BY <2>4, <2>5 DEF StoreInv, SessionsMatchAttempts, UnknownBlocks, InFlight
  <2> QED
    BY <2>2, <2>3, <2>4, <2>6
<1> QED
  BY <1>1, ProxyInvariant, PTL DEF ProxySpec, DispatchIsCurrent
=============================================================================
