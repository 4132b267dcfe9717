----------------------------- MODULE UsageProofs -----------------------------
(***************************************************************************)
(* Proofs about the usage recorder and about the accounting of calls, for  *)
(* any events, destinations, calls, queue and batch sizes.                 *)
(*                                                                         *)
(* The recorder.  Ledger and tombstones together never contradict          *)
(* themselves: one event at a place, one identity and one end for an       *)
(* attempt, nothing behind the end (Consistent).  What a destination has   *)
(* stored is a part of them, so pg_batch, which applies the same rules,    *)
(* finds no contradiction; and a receipt is written only for an event that *)
(* is stored (BatchRight), so no row is settled before its delivery.       *)
(*                                                                         *)
(* The accounting.  CallOK says of each call what its handler's place      *)
(* implies: the slot of its final event is held or given up (PhaseOK),     *)
(* what was acknowledged is in the ledger (RecordedOK), and an end that    *)
(* was sent is queued, at the recorder or stored (EndOK).  It is inductive *)
(* with MessageOK: a final event on its way is the last of its attempt, so *)
(* the recorder's rules cannot refuse it.  That the queue has room for the *)
(* reserved slots is counted separately (QueueFits).                       *)
(*                                                                         *)
(* The counters of an attempt, for any counts, any largest count and any   *)
(* profile.  Every rule of normalize sets one counter or invalidates some, *)
(* and names a known reason for it (Sound), so what it establishes about   *)
(* the counters that are left (AddsUp) cannot be lost by a later one,      *)
(* which only takes values away.  The accumulator keeps what its own paths *)
(* normalise to (Accumulated).  A plugin's later snapshot is compared with *)
(* the one before, which takes values away once more: a total the host     *)
(* derived must then go with its parts (DerivedFits), and what is left of  *)
(* the parts of the input still fits it (WeakeningTyped).                  *)
(***************************************************************************)
EXTENDS UsageAccounting, UsageContract, WellFoundedInduction, FiniteSetTheorems, TLAPS

-----------------------------------------------------------------------------
(* The recorder's inductive invariant.                                     *)

Outcomes == {"committed", "duplicate", "conflict", "rejected"}

OutboxRow == [event : Events, destination : Destinations,
              state : {"pending", "committed", "blocked", "conflict"}]

Batch == [destination : Destinations, events : Seq(Events),
          result : {"receipts", "retryable", "permanent", None}, receipts : Seq(Outcomes)]

RecorderTypeOK ==
    /\ events \subseteq Events /\ tombstones \subseteq Events
    /\ outbox \subseteq OutboxRow
    /\ serving \in (SUBSET Destinations) \cup {None}
    /\ batch \in Batch \cup {None}
    /\ remote \in [Destinations -> SUBSET Events]
    /\ owed \subseteq Events \X Destinations

Ledger == events \cup tombstones

\* The ledger and its tombstones do not contradict themselves.
Consistent ==
    /\ \A e, r \in Ledger : SamePlace(e, r) => e = r
    /\ \A e, r \in Ledger : e.attempt = r.attempt => e.identity = r.identity
    /\ LedgerIsSettled

Identified == \A r \in Ledger : <<r.attempt, r.identity>> \in identities

RetiredIsFinal == \A t \in tombstones : Retired(t)

\* Every row of the outbox is about an event of the ledger, every event of a
\* destination about one that was ever in it.
RowsAreRecorded == \A r \in outbox : r.event \in events

RemoteIsRecorded == \A d \in Destinations : remote[d] \subseteq Ledger

\* The export in progress sends what was recorded; an event whose receipt settles
\* its row is stored.
BatchRight ==
    batch # None => \A i \in 1..Len(batch.events) :
       /\ batch.events[i] \in Ledger
       /\ batch.result = "receipts" =>
            /\ batch.receipts[i] # "conflict"
            /\ batch.receipts[i] \in {"committed", "duplicate"} =>
                 batch.events[i] \in remote[batch.destination]

RecorderInv ==
    /\ RecorderTypeOK /\ Consistent /\ Identified /\ RetiredIsFinal
    /\ RowsAreRecorded /\ RemoteIsRecorded /\ BatchRight
    /\ OwedUntilDelivered /\ ExportNeverConflicts

-----------------------------------------------------------------------------
(* What a destination has stored after a batch.                            *)

\* Every set of natural numbers has a least one: induction over the places of a batch.
LEMMA LeastPlace ==
  ASSUME NEW T \in SUBSET Nat, T # {}
  PROVE  \E x \in T : \A y \in T : x <= y
<1> DEFINE R == OpToRel(<, Nat)
<1>1. IsWellFoundedOn(R, Nat)
  BY NatLessThanWellFounded
<1>2. \A y, x \in Nat : y < x => <<y, x>> \in R
  BY DEF OpToRel
<1> HIDE DEF R
<1>3. \E x \in T : \A y \in T : ~(<<y, x>> \in R)
  BY <1>1, WFMin
<1>4. PICK x \in T : \A y \in T : ~(<<y, x>> \in R)
  BY <1>3
<1>5. ASSUME NEW y \in T PROVE x <= y
  <2>1. ~(y < x)
    BY <1>2, <1>4
  <2> QED
    BY <2>1
<1> QED
  BY <1>5

\* The equation of Stored, for the first n places.
Unfolds(rejected, n, f) ==
    f = [i \in 0..n |->
           IF i = 0 THEN remote[batch.destination]
           ELSE IF ReceiptOf(rejected, f[i - 1], i) = "committed"
                THEN f[i - 1] \union {batch.events[i]}
                ELSE f[i - 1]]

LEMMA UnfoldingExists ==
  ASSUME NEW rejected, NEW n \in Nat
  PROVE  \E f : Unfolds(rejected, n, f)
<1> DEFINE Wrong == {k \in Nat : ~\E f : Unfolds(rejected, k, f)}
<1> SUFFICES ASSUME Wrong # {} PROVE FALSE
  OBVIOUS
<1>1. PICK k \in Wrong : \A j \in Wrong : k <= j
  BY LeastPlace
<1>2. k # 0
  <2>1. Unfolds(rejected, 0, [i \in 0..0 |-> remote[batch.destination]])
    BY DEF Unfolds
  <2> QED
    BY <2>1
<1>3. k - 1 \in Nat /\ k - 1 \notin Wrong
  BY <1>1, <1>2
<1>4. PICK g : Unfolds(rejected, k - 1, g)
  BY <1>3
<1> DEFINE last == IF ReceiptOf(rejected, g[k - 1], k) = "committed"
                   THEN g[k - 1] \union {batch.events[k]} ELSE g[k - 1]
           h == [i \in 0..k |-> IF i = k THEN last ELSE g[i]]
           next(f, i) == IF i = 0 THEN remote[batch.destination]
                         ELSE IF ReceiptOf(rejected, f[i - 1], i) = "committed"
                              THEN f[i - 1] \union {batch.events[i]}
                              ELSE f[i - 1]
<1>5. ASSUME NEW i \in 0..k PROVE h[i] = next(h, i)
  <2>1. CASE i = k
    <3>1. i # 0 /\ h[i] = last /\ i - 1 = k - 1 /\ h[i - 1] = g[k - 1]
      BY <1>2, <1>3, <2>1
    <3> QED
      BY <2>1, <3>1
  <2>2. CASE i # k
    <3>1. i \in 0..(k - 1) /\ h[i] = g[i] /\ (i # 0 => h[i - 1] = g[i - 1])
      BY <1>3, <2>2
    <3>2. g[i] = next(g, i)
      BY <1>4, <3>1 DEF Unfolds
    <3> QED
      BY <3>1, <3>2
  <2> QED
    BY <2>1, <2>2
<1>6. h = [i \in 0..k |-> next(h, i)]
  BY <1>5
<1>7. Unfolds(rejected, k, h)
  BY <1>6 DEF Unfolds
<1> QED
  BY <1>7

\* Stored is the unfolding over the whole batch.
LEMMA StoredUnfolds ==
  ASSUME NEW rejected, Len(batch.events) \in Nat
  PROVE  Unfolds(rejected, Len(batch.events), Stored(rejected))
<1>1. \E f : Unfolds(rejected, Len(batch.events), f)
  BY UnfoldingExists
<1>2. Stored(rejected) = CHOOSE f : Unfolds(rejected, Len(batch.events), f)
  BY DEF Stored, Unfolds
<1> QED
  BY <1>1, <1>2

\* A destination that holds a part of the ledger finds no contradiction in an event of it.
LEMMA LedgerNeverConflicts ==
  ASSUME RecorderTypeOK, Consistent, NEW stored, stored \subseteq Ledger, NEW e \in Ledger
  PROVE  RemoteStatus(stored, e) \in {"committed", "duplicate"}
         /\ (RemoteStatus(stored, e) = "duplicate" => e \in stored)
<1> DEFINE prior == {r \in stored : SamePlace(e, r)}
<1>1. e.revision \in Nat /\ \A r \in stored : r.revision \in Nat
  BY RecorderAssumption DEF RecorderTypeOK, Ledger
<1>2. \A r \in prior : r = e
  BY DEF Consistent
<1>3. CASE prior # {}
  <2>1. prior = {e}
    BY <1>2, <1>3
  <2>2. RemoteStatus(stored, e) = "duplicate"
    BY <2>1 DEF RemoteStatus
  <2> QED
    BY <2>1, <2>2
<1>4. CASE prior = {}
  <2>1. e \notin stored
    BY <1>4 DEF SamePlace
  <2>2. ASSUME NEW r \in stored, r.attempt = e.attempt
        PROVE  /\ r.identity = e.identity
               /\ ~(e.kind = Finished /\ r.revision > e.revision)
               /\ ~(r.kind = Finished /\ (e.revision >= r.revision \/ e.kind = Finished))
    <3>1. r.identity = e.identity
      BY <2>2 DEF Consistent
    <3>2. e.kind = Finished => r = e \/ r.revision < e.revision
      BY <2>2 DEF Consistent, LedgerIsSettled, OfAttempt, Ledger
    <3>3. r.kind = Finished => e = r \/ (e.kind # Finished /\ e.revision < r.revision)
      BY <2>2 DEF Consistent, LedgerIsSettled, OfAttempt, Ledger
    <3> QED
      BY <1>1, <2>1, <3>1, <3>2, <3>3
  <2>3. RemoteStatus(stored, e) = "committed"
    BY <1>4, <2>2 DEF RemoteStatus, OfAttempt
  <2> QED
    BY <2>3
<1> QED
  BY <1>3, <1>4

\* What a batch leaves behind: nothing stored is lost, nothing but the ledger's events is
\* added, no event is refused as a conflict, and one that is settled is stored.
LEMMA BatchStores ==
  ASSUME RecorderInv, batch # None, NEW rejected
  PROVE  LET n == Len(batch.events)
             S == Stored(rejected)
         IN  /\ n \in Nat
             /\ remote[batch.destination] \subseteq S[n]
             /\ S[n] \subseteq Ledger
             /\ \A i \in 1..n :
                  /\ ReceiptOf(rejected, S[i - 1], i) \in Outcomes \ {"conflict"}
                  /\ ReceiptOf(rejected, S[i - 1], i) \in {"committed", "duplicate"} =>
                       batch.events[i] \in S[n]
<1> DEFINE n == Len(batch.events)
           S == Stored(rejected)
           d == batch.destination
<1>1. /\ batch \in Batch /\ d \in Destinations /\ n \in Nat
      /\ \A i \in 1..n : batch.events[i] \in Ledger
      /\ remote[d] \subseteq Ledger
  BY DEF RecorderInv, RecorderTypeOK, Batch, BatchRight, RemoteIsRecorded
<1>2. Unfolds(rejected, n, S)
  BY <1>1, StoredUnfolds
<1> HIDE DEF S
<1>3. S[0] = remote[d]
  BY <1>1, <1>2 DEF Unfolds
<1>4. ASSUME NEW i \in 1..n
      PROVE  S[i] = IF ReceiptOf(rejected, S[i - 1], i) = "committed"
                    THEN S[i - 1] \cup {batch.events[i]} ELSE S[i - 1]
  <2>1. i \in 0..n /\ i # 0
    BY <1>1
  <2> QED
    BY <1>2, <2>1 DEF Unfolds
<1>5. \A i \in 0..n : remote[d] \subseteq S[i] /\ S[i] \subseteq Ledger
  <2> DEFINE Wrong == {k \in 0..n : ~(remote[d] \subseteq S[k] /\ S[k] \subseteq Ledger)}
  <2> SUFFICES ASSUME Wrong # {} PROVE FALSE
    OBVIOUS
  <2>0. Wrong \in SUBSET Nat
    BY <1>1
  <2>1. PICK k \in Wrong : \A j \in Wrong : k <= j
    BY <2>0, LeastPlace
  <2>2. k \in 1..n /\ k - 1 \in 0..n
    BY <1>1, <1>3, <2>1
  <2>3. remote[d] \subseteq S[k - 1] /\ S[k - 1] \subseteq Ledger
    BY <2>1, <2>2
  <2>4. S[k] = S[k - 1] \cup {batch.events[k]} \/ S[k] = S[k - 1]
    BY <1>4, <2>2
  <2> QED
    BY <1>1, <2>2, <2>3, <2>4
<1>6. \A i \in 0..n : S[i] \subseteq S[n]
  <2> DEFINE Wrong == {k \in 0..n : ~(S[n - k] \subseteq S[n])}
  <2> SUFFICES ASSUME Wrong # {} PROVE FALSE
    <3>1. \A i \in 0..n : n - i \in 0..n /\ n - (n - i) = i
      BY <1>1
    <3>2. \A i \in 0..n : n - i \notin Wrong => S[i] \subseteq S[n]
      BY <3>1
    <3> QED
      BY <3>1, <3>2
  <2>0. Wrong \in SUBSET Nat
    BY <1>1
  <2>1. PICK k \in Wrong : \A j \in Wrong : k <= j
    BY <2>0, LeastPlace
  <2>2. k # 0
    BY <1>1, <2>1
  <2>3. k - 1 \in 0..n /\ n - k + 1 \in 1..n /\ n - (k - 1) = n - k + 1 /\ (n - k + 1) - 1 = n - k
    BY <1>1, <2>1, <2>2
  <2>4. S[n - k + 1] \subseteq S[n]
    BY <2>1, <2>3
  <2>5. S[n - k] \subseteq S[n - k + 1]
    BY <1>4, <2>3
  <2> QED
    BY <2>1, <2>4, <2>5
<1>7. ASSUME NEW i \in 1..n
      PROVE  /\ ReceiptOf(rejected, S[i - 1], i) \in Outcomes \ {"conflict"}
             /\ ReceiptOf(rejected, S[i - 1], i) \in {"committed", "duplicate"} =>
                  batch.events[i] \in S[n]
  <2>1. i - 1 \in 0..n /\ i \in 0..n
    BY <1>1
  <2>2. S[i - 1] \subseteq Ledger /\ S[i - 1] \subseteq S[n] /\ S[i] \subseteq S[n]
    BY <1>5, <1>6, <2>1
  <2>3. /\ RemoteStatus(S[i - 1], batch.events[i]) \in {"committed", "duplicate"}
        /\ RemoteStatus(S[i - 1], batch.events[i]) = "duplicate" => batch.events[i] \in S[i - 1]
    BY <1>1, <2>2, LedgerNeverConflicts DEF RecorderInv
  <2>4. ReceiptOf(rejected, S[i - 1], i) = "committed" => batch.events[i] \in S[i]
    BY <1>4
  <2> QED
    BY <2>2, <2>3, <2>4 DEF ReceiptOf, Outcomes
<1> QED
  BY <1>1, <1>5, <1>7 DEF S

-----------------------------------------------------------------------------
(* Preservation by the recorder's steps.                                   *)

\* The recorder starts with empty tables.
LEMMA RecorderInvInit == RecorderInit => RecorderInv
<1> SUFFICES ASSUME RecorderInit PROVE RecorderInv
  OBVIOUS
<1>1. RecorderTypeOK
  BY DEF RecorderInit, RecorderTypeOK
<1>2. Ledger = {} /\ Consistent /\ Identified /\ RetiredIsFinal
  BY DEF RecorderInit, Ledger, Consistent, LedgerIsSettled, Identified, RetiredIsFinal
<1>3. RowsAreRecorded /\ RemoteIsRecorded /\ BatchRight
  BY DEF RecorderInit, RowsAreRecorded, RemoteIsRecorded, BatchRight
<1>4. OwedUntilDelivered /\ ExportNeverConflicts
  BY DEF RecorderInit, OwedUntilDelivered, ExportNeverConflicts
<1> QED
  BY <1>1, <1>2, <1>3, <1>4 DEF RecorderInv

\* Starting, stopping and failing leave the tables alone.
LEMMA ProcessKeepsInv ==
  ASSUME RecorderInv, UNCHANGED <<events, tombstones, identities, outbox, remote, owed>>,
         serving' \in (SUBSET Destinations) \cup {None}, batch' = batch \/ batch' = None
  PROVE  RecorderInv'
<1> USE DEF RecorderInv
<1>1. RecorderTypeOK'
  BY DEF RecorderTypeOK
<1>2. Consistent' /\ Identified' /\ RetiredIsFinal'
  BY DEF Consistent, LedgerIsSettled, OfAttempt, Identified, RetiredIsFinal, Retired, Ledger
<1>3. RowsAreRecorded' /\ RemoteIsRecorded' /\ BatchRight'
  BY DEF RowsAreRecorded, RemoteIsRecorded, BatchRight, Ledger
<1>4. OwedUntilDelivered' /\ ExportNeverConflicts'
  BY DEF OwedUntilDelivered, ExportNeverConflicts, Uncommitted
<1> QED
  BY <1>1, <1>2, <1>3, <1>4

\* record: an event that is committed does not contradict the ledger.
LEMMA CommitIsConsistent ==
  ASSUME RecorderTypeOK, Consistent, Identified, RetiredIsFinal, NEW e \in Events,
         Status(e) = "committed", events' = events \cup {e}, tombstones' = tombstones,
         identities' = identities \cup {<<e.attempt, e.identity>>}
  PROVE  Consistent' /\ Identified' /\ RetiredIsFinal'
<1>1. /\ \A r \in Ledger : ~SamePlace(e, r)
      /\ ~Contradicts(e)
  BY DEF Status, Ledger
<1>2. Ledger' = Ledger \cup {e}
  BY DEF Ledger
<1>3. \A r \in Ledger \cup {e} : r.revision \in Nat
  BY RecorderAssumption DEF RecorderTypeOK, Ledger
<1>4. \A r \in Ledger : r.attempt = e.attempt => r \in events
  BY <1>1 DEF Contradicts, RetiredIsFinal, Retired, Ledger
<1>5. \A r \in Ledger : SamePlace(r, e) <=> SamePlace(e, r)
  BY DEF SamePlace
<1>6. (\A a, r \in Ledger : SamePlace(a, r) => a = r)'
  BY <1>1, <1>2, <1>5 DEF Consistent, SamePlace
<1>7. \A r \in Ledger : r.attempt = e.attempt => r.identity = e.identity
  <2> SUFFICES ASSUME NEW r \in Ledger, r.attempt = e.attempt PROVE r.identity = e.identity
    OBVIOUS
  <2>1. <<r.attempt, r.identity>> \in identities
    BY DEF Identified
  <2>2. \A p \in identities : p[1] = e.attempt => p[2] = e.identity
    BY <1>1 DEF Contradicts
  <2> QED
    BY <2>1, <2>2
<1>8. (\A a, r \in Ledger : a.attempt = r.attempt => a.identity = r.identity)'
  BY <1>2, <1>7 DEF Consistent
<1>9. ASSUME NEW r \in Ledger, r.attempt = e.attempt
      PROVE  /\ e.kind = Finished => r.kind # Finished /\ r.revision < e.revision
             /\ r.kind = Finished => e.kind # Finished /\ e.revision < r.revision
  <2>1. r \in OfAttempt(events, e.attempt)
    BY <1>4, <1>9 DEF OfAttempt
  <2>2. r.revision # e.revision
    BY <1>1, <1>9 DEF SamePlace
  <2>3. /\ e.kind = Finished => ~(r.revision > e.revision)
        /\ r.kind = Finished => ~(e.revision >= r.revision) /\ e.kind # Finished
    BY <1>1, <2>1 DEF Contradicts
  <2> QED
    BY <1>3, <2>2, <2>3
<1>10. LedgerIsSettled'
  BY <1>2, <1>9 DEF Consistent, LedgerIsSettled, OfAttempt, Ledger
<1>11. Identified'
  BY <1>2 DEF Identified
<1>12. RetiredIsFinal'
  BY DEF RetiredIsFinal, Retired
<1> QED
  BY <1>6, <1>8, <1>10, <1>11, <1>12 DEF Consistent

\* One event of the pipe.
LEMMA RecordKeepsInv ==
  ASSUME RecorderInv, NEW e \in Events, RecordInput(e)
  PROVE  RecorderInv'
<1> USE DEF RecorderInv
<1>0. serving \in (SUBSET Destinations) \cup {None}
  BY DEF RecorderTypeOK
<1>1. /\ serving # None /\ serving \subseteq Destinations
      /\ UNCHANGED <<tombstones, bound, remote, batch>>
  BY <1>0 DEF RecordInput, Record
<1>2. CASE Status(e) = "committed" /\ Insert(e) /\ UNCHANGED serving
  <2> DEFINE new == {[event |-> e, destination |-> d, state |-> "pending"] : d \in serving}
  <2>1. /\ events' = events \cup {e} /\ outbox' = outbox \cup new
        /\ identities' = identities \cup {<<e.attempt, e.identity>>}
        /\ owed' = owed \cup ({e} \X serving)
    BY <1>2 DEF Insert
  <2>2. Consistent' /\ Identified' /\ RetiredIsFinal'
    BY <1>1, <1>2, <2>1, CommitIsConsistent
  <2>3. \A r \in new : r \in OutboxRow /\ r.event = e /\ r.state = "pending"
    BY <1>1 DEF OutboxRow
  <2>4. \A d \in serving : \E r \in new : r.event = e /\ r.destination = d /\ r.state = "pending"
    <3> TAKE d \in serving
    <3> WITNESS [event |-> e, destination |-> d, state |-> "pending"] \in new
    <3> QED
      OBVIOUS
  <2> HIDE DEF new
  <2>5. RecorderTypeOK'
    BY <1>1, <1>2, <2>1, <2>3 DEF RecorderTypeOK
  <2>6. RowsAreRecorded' /\ ExportNeverConflicts'
    BY <2>1, <2>3 DEF RowsAreRecorded, ExportNeverConflicts
  <2>7. RemoteIsRecorded' /\ BatchRight'
    BY <1>1, <2>1 DEF RemoteIsRecorded, BatchRight, Ledger
  <2>8. OwedUntilDelivered'
    <3> SUFFICES ASSUME NEW p \in owed'
                 PROVE  p[1] \in remote[p[2]] \/ \E r \in Uncommitted(p[2])' : r.event = p[1]
      BY <1>1 DEF OwedUntilDelivered
    <3>1. CASE p \in owed
      BY <2>1, <3>1 DEF OwedUntilDelivered, Uncommitted
    <3>2. CASE p \in {e} \X serving
      <4>1. p[1] = e /\ p[2] \in serving
        BY <3>2
      <4>2. PICK r \in new : r.event = e /\ r.destination = p[2] /\ r.state = "pending"
        BY <2>4, <4>1
      <4> QED
        BY <2>1, <4>1, <4>2 DEF Uncommitted
    <3> QED
      BY <2>1, <3>1, <3>2
  <2> QED
    BY <2>2, <2>5, <2>6, <2>7, <2>8
<1>3. CASE /\ UNCHANGED <<events, identities, outbox, owed>>
           /\ serving' = serving \/ serving' = None
  <2>1. serving' \in (SUBSET Destinations) \cup {None}
    BY <1>0, <1>3
  <2> QED
    BY <1>1, <1>3, <2>1, ProcessKeepsInv
<1> QED
  BY <1>2, <1>3 DEF RecordInput, Record

\* The export thread reads a batch.
LEMMA ReadKeepsInv ==
  ASSUME RecorderInv, NEW d \in Destinations, NEW order \in Orders(Pending(d)), ExportRead(d, order)
  PROVE  RecorderInv'
<1> USE DEF RecorderInv
<1> DEFINE new == [destination |-> d, events |-> order, result |-> None, receipts |-> <<>>]
<1>1. batch' = new /\ UNCHANGED <<events, tombstones, identities, outbox, bound, serving, remote, owed>>
  BY DEF ExportRead
<1>2. PICK n \in 1..MaxBatch : order \in [1..n -> {r.event : r \in Pending(d)}]
  BY DEF Orders
<1>3. n \in Nat
  BY <1>2
<1>4. {r.event : r \in Pending(d)} \subseteq events
  BY DEF Pending, RowsAreRecorded
<1>5. order \in Seq(Events) /\ Len(order) = n /\ \A i \in 1..n : order[i] \in events
  <2>1. order \in [1..n -> Events]
    BY <1>2, <1>4 DEF RecorderTypeOK
  <2> QED
    BY <1>2, <1>3, <1>4, <2>1
<1>6. new \in Batch /\ new.events = order /\ new.result # "receipts"
  <2>1. <<>> \in Seq(Outcomes)
    OBVIOUS
  <2> QED
    BY <1>5, <2>1, RecorderAssumption DEF Batch
<1> HIDE DEF new
<1>7. RecorderTypeOK'
  BY <1>1, <1>6 DEF RecorderTypeOK
<1>8. Consistent' /\ Identified' /\ RetiredIsFinal'
  BY <1>1 DEF Consistent, LedgerIsSettled, OfAttempt, Identified, RetiredIsFinal, Retired, Ledger
<1>9. RowsAreRecorded' /\ RemoteIsRecorded'
  BY <1>1 DEF RowsAreRecorded, RemoteIsRecorded, Ledger
<1>10. BatchRight'
  BY <1>1, <1>5, <1>6 DEF BatchRight, Ledger
<1>11. OwedUntilDelivered' /\ ExportNeverConflicts'
  BY <1>1 DEF OwedUntilDelivered, ExportNeverConflicts, Uncommitted
<1> QED
  BY <1>7, <1>8, <1>9, <1>10, <1>11

\* The destination handles a batch, whatever becomes of its answer.
LEMMA DeliverKeepsInv ==
  ASSUME RecorderInv, NEW rejected, Deliver(rejected)
  PROVE  RecorderInv'
<1> USE DEF RecorderInv
<1> DEFINE n == Len(batch.events)
           d == batch.destination
           after == Stored(rejected)[n]
           receipts == [i \in DOMAIN batch.events |-> ReceiptOf(rejected, Stored(rejected)[i - 1], i)]
<1>1. /\ batch # None /\ remote' = [remote EXCEPT ![d] = after]
      /\ \/ batch' = [batch EXCEPT !.result = "receipts", !.receipts = receipts]
         \/ batch' = [batch EXCEPT !.result = "retryable"]
         \/ batch' = [batch EXCEPT !.result = "permanent"]
      /\ UNCHANGED <<events, tombstones, identities, outbox, bound, serving, owed>>
  BY DEF Deliver
<1>2. /\ batch \in Batch /\ d \in Destinations /\ n \in Nat /\ DOMAIN batch.events = 1..n
      /\ \A i \in 1..n : batch.events[i] \in Ledger
  BY <1>1 DEF RecorderTypeOK, Batch, BatchRight
<1>3. /\ remote[d] \subseteq after /\ after \subseteq Ledger
      /\ \A i \in 1..n : /\ receipts[i] \in Outcomes \ {"conflict"}
                         /\ receipts[i] \in {"committed", "duplicate"} => batch.events[i] \in after
  BY <1>1, <1>2, BatchStores
<1>4. receipts \in Seq(Outcomes)
  <2>1. receipts = [i \in 1..n |-> receipts[i]]
    BY <1>2
  <2> HIDE DEF receipts
  <2>2. receipts \in [1..n -> Outcomes]
    BY <1>3, <2>1
  <2> QED
    BY <1>2, <2>2
<1> HIDE DEF receipts, after
<1>5. /\ batch' \in Batch /\ batch'.events = batch.events /\ batch'.destination = d
      /\ batch'.result = "receipts" => batch'.receipts = receipts
  <2>1. CASE batch' = [batch EXCEPT !.result = "receipts", !.receipts = receipts]
    BY <1>2, <1>4, <2>1 DEF Batch
  <2>2. CASE batch' = [batch EXCEPT !.result = "retryable"]
    BY <1>2, <2>2 DEF Batch
  <2>3. CASE batch' = [batch EXCEPT !.result = "permanent"]
    BY <1>2, <2>3 DEF Batch
  <2> QED
    BY <1>1, <2>1, <2>2, <2>3
<1>6. /\ remote' \in [Destinations -> SUBSET Events] /\ remote'[d] = after
      /\ \A c \in Destinations : remote[c] \subseteq remote'[c] /\ remote'[c] \subseteq Ledger
  <2>1. after \subseteq Events
    BY <1>3 DEF Ledger, RecorderTypeOK
  <2> QED
    BY <1>1, <1>2, <1>3, <2>1 DEF RecorderTypeOK, RemoteIsRecorded
<1>7. RecorderTypeOK'
  BY <1>1, <1>5, <1>6 DEF RecorderTypeOK
<1>8. Consistent' /\ Identified' /\ RetiredIsFinal' /\ Ledger' = Ledger
  BY <1>1 DEF Consistent, LedgerIsSettled, OfAttempt, Identified, RetiredIsFinal, Retired, Ledger
<1>9. RowsAreRecorded' /\ RemoteIsRecorded'
  BY <1>1, <1>6, <1>8 DEF RowsAreRecorded, RemoteIsRecorded
<1>10. BatchRight'
  BY <1>2, <1>3, <1>5, <1>6, <1>8 DEF BatchRight
<1>11. OwedUntilDelivered'
  <2>1. \A p \in owed : p[2] \in Destinations
    BY DEF RecorderTypeOK
  <2> QED
    BY <1>1, <1>6, <2>1 DEF OwedUntilDelivered, Uncommitted
<1>12. ExportNeverConflicts'
  BY <1>1 DEF ExportNeverConflicts
<1> QED
  BY <1>7, <1>8, <1>9, <1>10, <1>11, <1>12

\* The destination is not reached.
LEMMA UndeliveredKeepsInv ==
  ASSUME RecorderInv, NEW result \in {"retryable", "permanent"}, Undelivered(result)
  PROVE  RecorderInv'
<1> USE DEF RecorderInv
<1>1. /\ batch # None /\ batch' = [batch EXCEPT !.result = result]
      /\ UNCHANGED <<events, tombstones, identities, outbox, bound, serving, remote, owed>>
  BY DEF Undelivered
<1>2. batch \in Batch
  BY <1>1 DEF RecorderTypeOK
<1>3. batch' \in Batch /\ batch'.events = batch.events /\ batch'.result # "receipts"
  BY <1>1, <1>2 DEF Batch
<1>4. RecorderTypeOK'
  BY <1>1, <1>3 DEF RecorderTypeOK
<1>5. Consistent' /\ Identified' /\ RetiredIsFinal'
  BY <1>1 DEF Consistent, LedgerIsSettled, OfAttempt, Identified, RetiredIsFinal, Retired, Ledger
<1>6. RowsAreRecorded' /\ RemoteIsRecorded' /\ BatchRight'
  BY <1>1, <1>3 DEF RowsAreRecorded, RemoteIsRecorded, BatchRight, Ledger
<1>7. OwedUntilDelivered' /\ ExportNeverConflicts'
  BY <1>1 DEF OwedUntilDelivered, ExportNeverConflicts, Uncommitted
<1> QED
  BY <1>4, <1>5, <1>6, <1>7

\* Rows of the outbox change their state: none to conflict, and to committed only when
\* the event is stored.
LEMMA RowsKeepInv ==
  ASSUME RecorderInv, UNCHANGED <<events, tombstones, identities, bound, serving, remote, owed>>,
         batch' = batch \/ batch' = None, outbox' \subseteq OutboxRow,
         \A r \in outbox' : r.state # "conflict" /\ \E q \in outbox : q.event = r.event,
         \A q \in outbox : q.state # "committed" =>
            \E r \in outbox' : /\ r.event = q.event /\ r.destination = q.destination
                               /\ r.state # "committed" \/ q.event \in remote[q.destination]
  PROVE  RecorderInv'
<1> USE DEF RecorderInv
<1>1. RecorderTypeOK'
  BY DEF RecorderTypeOK
<1>2. Consistent' /\ Identified' /\ RetiredIsFinal'
  BY DEF Consistent, LedgerIsSettled, OfAttempt, Identified, RetiredIsFinal, Retired, Ledger
<1>3. RowsAreRecorded' /\ RemoteIsRecorded' /\ BatchRight'
  BY DEF RowsAreRecorded, RemoteIsRecorded, BatchRight, Ledger
<1>4. OwedUntilDelivered'
  <2> SUFFICES ASSUME NEW p \in owed, p[1] \notin remote[p[2]]
               PROVE  \E r \in Uncommitted(p[2])' : r.event = p[1]
    BY DEF OwedUntilDelivered
  <2>1. PICK q \in outbox : q.destination = p[2] /\ q.state # "committed" /\ q.event = p[1]
    BY DEF OwedUntilDelivered, Uncommitted
  <2>2. PICK r \in outbox' : /\ r.event = q.event /\ r.destination = q.destination
                             /\ r.state # "committed" \/ q.event \in remote[q.destination]
    BY <2>1
  <2> QED
    BY <2>1, <2>2 DEF Uncommitted
<1>5. ExportNeverConflicts'
  BY DEF ExportNeverConflicts
<1> QED
  BY <1>1, <1>2, <1>3, <1>4, <1>5

\* The outcome of a batch is written.
LEMMA WriteKeepsInv ==
  ASSUME RecorderInv, ExportWrite
  PROVE  RecorderInv'
<1> USE DEF RecorderInv
<1> DEFINE n == Len(batch.events)
           Place(r) == {i \in DOMAIN batch.events :
                          r.destination = batch.destination /\ r.event = batch.events[i]}
           i(r) == CHOOSE k \in Place(r) : TRUE
           moved(r) == IF Place(r) = {} THEN r ELSE [r EXCEPT !.state = RowState(i(r))]
<1>1. /\ batch # None /\ batch.result # None /\ batch' = None
      /\ outbox' = {moved(r) : r \in outbox}
      /\ UNCHANGED <<events, tombstones, identities, bound, serving, remote, owed>>
  BY DEF ExportWrite
<1>2. batch \in Batch /\ DOMAIN batch.events = 1..n /\ batch.result \in {"receipts", "retryable", "permanent"}
  BY <1>1 DEF RecorderTypeOK, Batch
<1>3. ASSUME NEW k \in 1..n
      PROVE  /\ RowState(k) \in {"pending", "committed", "blocked"}
             /\ RowState(k) = "committed" => batch.events[k] \in remote[batch.destination]
  BY <1>1, <1>2 DEF RowState, BatchRight
<1>4. ASSUME NEW r \in outbox
      PROVE  /\ moved(r) \in OutboxRow /\ moved(r).event = r.event /\ moved(r).destination = r.destination
             /\ moved(r).state # "conflict"
             /\ \/ r.state = "committed"
                \/ moved(r).state # "committed" \/ r.event \in remote[r.destination]
  <2>1. r \in OutboxRow /\ r.state # "conflict"
    BY DEF RecorderTypeOK, ExportNeverConflicts
  <2>2. CASE Place(r) = {}
    BY <2>1, <2>2
  <2>3. CASE Place(r) # {}
    <3>1. i(r) \in Place(r)
      BY <2>3
    <3>2. i(r) \in 1..n /\ r.destination = batch.destination /\ r.event = batch.events[i(r)]
      BY <1>2, <3>1
    <3>3. moved(r) = [r EXCEPT !.state = RowState(i(r))]
      BY <2>3
    <3> HIDE DEF i, moved
    <3>4. /\ RowState(i(r)) \in {"pending", "committed", "blocked"}
          /\ RowState(i(r)) = "committed" => r.event \in remote[r.destination]
      BY <1>3, <3>2
    <3>5. /\ moved(r) \in OutboxRow /\ moved(r).event = r.event /\ moved(r).destination = r.destination
          /\ moved(r).state = RowState(i(r))
      BY <2>1, <3>3, <3>4 DEF OutboxRow
    <3> QED
      BY <3>4, <3>5
  <2> QED
    BY <2>2, <2>3
<1> HIDE DEF moved
<1>5. outbox' \subseteq OutboxRow
      /\ \A r \in outbox' : r.state # "conflict" /\ \E q \in outbox : q.event = r.event
  BY <1>1, <1>4
<1>6. \A q \in outbox : q.state # "committed" =>
         \E r \in outbox' : /\ r.event = q.event /\ r.destination = q.destination
                            /\ r.state # "committed" \/ q.event \in remote[q.destination]
  BY <1>1, <1>4
<1> QED
  BY <1>1, <1>5, <1>6, RowsKeepInv

\* Blocked rows are released.
LEMMA RetryKeepsInv ==
  ASSUME RecorderInv, NEW d \in Destinations, RetryBlocked(d)
  PROVE  RecorderInv'
<1> USE DEF RecorderInv
<1> DEFINE moved(r) == IF r.destination = d /\ r.state = "blocked"
                       THEN [r EXCEPT !.state = "pending"] ELSE r
<1>1. /\ outbox' = {moved(r) : r \in outbox}
      /\ UNCHANGED <<events, tombstones, identities, bound, serving, batch, remote, owed>>
  BY DEF RetryBlocked
<1>2. ASSUME NEW r \in outbox
      PROVE  /\ moved(r) \in OutboxRow /\ moved(r).event = r.event /\ moved(r).destination = r.destination
             /\ moved(r).state # "conflict" /\ (r.state = "committed" \/ moved(r).state # "committed")
  <2>1. r \in OutboxRow /\ r.state # "conflict"
    BY DEF RecorderTypeOK, ExportNeverConflicts
  <2> QED
    BY <2>1 DEF OutboxRow
<1> HIDE DEF moved
<1>3. outbox' \subseteq OutboxRow
      /\ \A r \in outbox' : r.state # "conflict" /\ \E q \in outbox : q.event = r.event
  BY <1>1, <1>2
<1>4. \A q \in outbox : q.state # "committed" =>
         \E r \in outbox' : /\ r.event = q.event /\ r.destination = q.destination
                            /\ r.state # "committed" \/ q.event \in remote[q.destination]
  BY <1>1, <1>2
<1> QED
  BY <1>1, <1>3, <1>4, RowsKeepInv

\* Whole attempts of which nothing is owed become tombstones.
LEMMA PruneKeepsInv ==
  ASSUME RecorderInv, NEW old \in SUBSET Prunable, Prune(old)
  PROVE  RecorderInv'
<1> USE DEF RecorderInv
<1> DEFINE gone == {r \in events : r.attempt \in old}
<1>1. /\ outbox' = {r \in outbox : r.event \notin gone} /\ tombstones' = tombstones \cup gone
      /\ events' = events \ gone
      /\ UNCHANGED <<identities, bound, serving, batch, remote, owed>>
  BY DEF Prune
<1>2. Ledger' = Ledger
  BY <1>1 DEF Ledger
<1>3. RecorderTypeOK'
  BY <1>1 DEF RecorderTypeOK
<1>4. Consistent' /\ Identified'
  BY <1>1, <1>2 DEF Consistent, LedgerIsSettled, OfAttempt, Identified, Ledger
<1>5. RetiredIsFinal'
  <2>1. ASSUME NEW t \in gone PROVE \E f \in gone : f.attempt = t.attempt /\ f.kind = Finished
    <3>1. t.attempt \in old
      OBVIOUS
    <3>2. t.attempt \in Prunable
      BY <3>1
    <3>3. PICK f \in OfAttempt(events, t.attempt) : f.kind = Finished
      BY <3>2 DEF Prunable
    <3>4. f \in gone /\ f.attempt = t.attempt
      BY <3>1, <3>3 DEF OfAttempt
    <3> QED
      BY <3>3, <3>4
  <2> QED
    BY <1>1, <2>1 DEF RetiredIsFinal, Retired
<1>6. RowsAreRecorded' /\ RemoteIsRecorded' /\ BatchRight'
  BY <1>1, <1>2 DEF RowsAreRecorded, RemoteIsRecorded, BatchRight
<1>7. ASSUME NEW r \in outbox, r.state # "committed" PROVE r \in outbox'
  <2>1. r.event.attempt \notin Prunable
    BY <1>7 DEF Prunable
  <2> QED
    BY <1>1, <2>1
<1>8. OwedUntilDelivered'
  BY <1>1, <1>7 DEF OwedUntilDelivered, Uncommitted
<1>9. ExportNeverConflicts'
  BY <1>1 DEF ExportNeverConflicts
<1> QED
  BY <1>3, <1>4, <1>5, <1>6, <1>8, <1>9

\* Every step of the recorder keeps its invariant.
LEMMA RecorderInvStep == RecorderInv /\ [RecorderNext]_recorderVars => RecorderInv'
<1> SUFFICES ASSUME RecorderInv, [RecorderNext]_recorderVars PROVE RecorderInv'
  OBVIOUS
<1>0. serving \in (SUBSET Destinations) \cup {None}
  BY DEF RecorderInv, RecorderTypeOK
<1>1. CASE UNCHANGED recorderVars
  BY <1>0, <1>1, ProcessKeepsInv DEF recorderVars
<1>2. ASSUME NEW config \in SUBSET Destinations, Serve(config) PROVE RecorderInv'
  BY <1>2, ProcessKeepsInv DEF Serve
<1>3. CASE Stop
  BY <1>3, ProcessKeepsInv DEF Stop
<1>4. CASE Crash
  BY <1>4, ProcessKeepsInv DEF Crash
<1>5. ASSUME NEW e \in Events, RecordInput(e) PROVE RecorderInv'
  BY <1>5, RecordKeepsInv
<1>6. ASSUME NEW d \in Destinations, NEW order \in Orders(Pending(d)), ExportRead(d, order)
      PROVE  RecorderInv'
  BY <1>6, ReadKeepsInv
<1>7. ASSUME NEW d \in Destinations, RetryBlocked(d) PROVE RecorderInv'
  BY <1>7, RetryKeepsInv
<1>8. ASSUME NEW rejected \in SUBSET DOMAIN batch.events, Deliver(rejected) PROVE RecorderInv'
  BY <1>8, DeliverKeepsInv
<1>9. ASSUME NEW result \in {"retryable", "permanent"}, Undelivered(result) PROVE RecorderInv'
  BY <1>9, UndeliveredKeepsInv
<1>10. CASE ExportWrite
  BY <1>10, WriteKeepsInv
<1>11. ASSUME NEW old \in SUBSET Prunable, Prune(old) PROVE RecorderInv'
  BY <1>11, PruneKeepsInv
<1> QED
  BY <1>1, <1>2, <1>3, <1>4, <1>5, <1>6, <1>7, <1>8, <1>9, <1>10, <1>11 DEF RecorderNext

\* RecorderInv holds in every state.
LEMMA RecorderInvariant == RecorderSpec => []RecorderInv
  BY RecorderInvInit, RecorderInvStep, PTL DEF RecorderSpec

-----------------------------------------------------------------------------
(* What the recorder promises.                                             *)

\* Whatever events arrive in whatever order, over restarts and pruning, the final event of
\* an attempt is its only one and the last.
THEOREM LedgerAlwaysSettled == RecorderSpec => []LedgerIsSettled
<1>1. RecorderInv => LedgerIsSettled
  BY DEF RecorderInv, Consistent
<1> QED
  BY <1>1, RecorderInvariant, PTL

\* No event owed to a destination is forgotten before the destination has stored it.
THEOREM NothingOwedIsLost == RecorderSpec => []OwedUntilDelivered
<1>1. RecorderInv => OwedUntilDelivered
  BY DEF RecorderInv
<1> QED
  BY <1>1, RecorderInvariant, PTL

\* No destination that follows pg_batch's rules ever refuses an event of the ledger.
THEOREM ExportsNeverConflict == RecorderSpec => []ExportNeverConflicts
<1>1. RecorderInv => ExportNeverConflicts
  BY DEF RecorderInv
<1> QED
  BY <1>1, RecorderInvariant, PTL

-----------------------------------------------------------------------------
(* The inductive invariant of the accounting of calls.                     *)

Phases == {"arrived", "reserving", "starting", "start_ack", "dispatch", "sent", "open",
           "update_ack", "interrupted", "finish_ack", "refused", "failed", "released", "left", "lost"}

\* Where a handler may hold the slot of its final event.
Holding == {"starting", "start_ack", "dispatch", "sent", "open", "update_ack", "interrupted"}

FinalOf(c, r) == EventOf(c, r, TRUE)
PlainOf(c, r) == EventOf(c, r, FALSE)

Message == {FinalOf(c, r) : c \in Calls, r \in Nat} \cup {PlainOf(c, r) : c \in Calls, r \in Nat}

AccountingTypeOK ==
    /\ phase \in [Calls -> Phases]
    /\ revision \in [Calls -> Nat]
    /\ permit \in [Calls -> BOOLEAN] /\ sent \in [Calls -> BOOLEAN]
    /\ ack \in [Calls -> {TRUE, FALSE, None}]
    /\ goal \in [Calls -> {"failed", "released", None}]
    /\ queue \in Seq(Message)
    /\ current = None \/ (current \in Delivery /\ current.event \in Message)
    /\ worker \in {"up", "down"}
    /\ excused \subseteq Calls
    /\ tombstones = {}

\* The events on their way to the recorder.
InFlight == {queue[i] : i \in DOMAIN queue} \cup {x.event : x \in {current} \ {None}}

\* An event on its way is not ahead of its attempt; a final one is the attempt's last,
\* and the handler that waits for its end waits for that one.
MessageOK(m) ==
    LET c == m.attempt
    IN  /\ m.revision <= revision[c]
        /\ m.kind = Finished => permit[c] = FALSE /\ m.revision = revision[c] /\ m.revision > 0
        /\ phase[c] = "finish_ack" /\ m.revision = revision[c] => m.kind = Finished

\* What holds of a call at each place of its handler.
PhaseOK(c) ==
    /\ phase[c] = "arrived" => c \notin excused
    /\ phase[c] \in {"arrived", "reserving", "starting", "start_ack"} => revision[c] = 0
    /\ permit[c] = TRUE => phase[c] \in Holding
    /\ phase[c] \in Holding /\ Durable => permit[c] = TRUE
    /\ phase[c] = "finish_ack" => goal[c] \in {"failed", "released"}
    /\ worker = "down" /\ permit[c] = TRUE => c \in excused

RecordedOK(c) ==
    /\ phase[c] = "start_ack" /\ ack[c] = TRUE => EventOf(c, 0, FALSE) \in events
    /\ phase[c] = "finish_ack" /\ ack[c] = TRUE => StoredFinal(c)
    /\ Durable /\ (phase[c] = "dispatch" \/ sent[c] = TRUE) => EventOf(c, 0, FALSE) \in events
    /\ Durable /\ phase[c] = "released" => StoredFinal(c)

EndOK(c) ==
    c \notin excused /\ revision[c] > 0 /\ permit[c] = FALSE =>
       (\E m \in InFlight : m.attempt = c /\ m.kind = Finished) \/ StoredFinal(c)

CallOK(c) ==
    /\ PhaseOK(c) /\ RecordedOK(c) /\ EndOK(c)
    /\ \A m \in InFlight : m.attempt = c => MessageOK(m)

AccountingInv ==
    /\ AccountingTypeOK
    /\ \A c \in Calls : CallOK(c)
    /\ current # None /\ current.stored = TRUE => current.event \in events

-----------------------------------------------------------------------------
(* Events and the queue.                                                   *)

\* The parts of an event.
LEMMA EventParts ==
  ASSUME NEW c \in Calls, NEW r \in Nat
  PROVE  /\ EventOf(c, r, TRUE) \in Message /\ EventOf(c, r, TRUE) \in UsageMessage
         /\ EventOf(c, r, TRUE).attempt = c /\ EventOf(c, r, TRUE).revision = r
         /\ EventOf(c, r, TRUE).kind = Finished
         /\ EventOf(c, r, FALSE) \in Message /\ EventOf(c, r, FALSE) \in UsageMessage
         /\ EventOf(c, r, FALSE).attempt = c /\ EventOf(c, r, FALSE).revision = r
         /\ EventOf(c, r, FALSE).kind # Finished
<1>1. EventOf(c, r, TRUE) \in Message /\ EventOf(c, r, FALSE) \in Message
  <2>1. FinalOf(c, r) \in Message /\ PlainOf(c, r) \in Message
    BY DEF Message
  <2> QED
    BY <2>1 DEF FinalOf, PlainOf
<1>2. /\ EventKindOf(r, TRUE) = Finished
      /\ EventKindOf(r, FALSE) \in {"attempt_started", "usage_updated"}
  BY DEF EventKindOf
<1>3. EventOf(c, r, TRUE) \in UsageMessage /\ EventOf(c, r, FALSE) \in UsageMessage
  BY <1>2 DEF EventOf, UsageMessage
<1> QED
  BY <1>1, <1>2, <1>3 DEF EventOf, Finished

\* An event on its way is determined by its attempt, its revision and whether it is final.
LEMMA MessageParts ==
  ASSUME NEW m \in Message
  PROVE  /\ m \in UsageMessage /\ m.attempt \in Calls /\ m.revision \in Nat
         /\ m.kind # Finished => m = EventOf(m.attempt, m.revision, FALSE)
<1>1. PICK c \in Calls, r \in Nat : m = FinalOf(c, r) \/ m = PlainOf(c, r)
  BY DEF Message
<1>2. CASE m = FinalOf(c, r)
  BY <1>2, EventParts DEF FinalOf
<1>3. CASE m = PlainOf(c, r)
  BY <1>3, EventParts DEF PlainOf
<1> QED
  BY <1>1, <1>2, <1>3

\* An event is appended.
LEMMA AppendFlies ==
  ASSUME queue \in Seq(Message), NEW m \in Message, queue' = Append(queue, m), current' = current
  PROVE  queue' \in Seq(Message) /\ InFlight' = InFlight \cup {m}
<1> DEFINE M == Message
<1>0. queue \in Seq(M) /\ m \in M
  OBVIOUS
<1> HIDE DEF M
<1>1. /\ queue' \in Seq(M) /\ Len(queue) \in Nat /\ DOMAIN queue = 1..Len(queue)
      /\ DOMAIN queue' = 1..(Len(queue) + 1)
      /\ queue'[Len(queue) + 1] = m /\ \A i \in 1..Len(queue) : queue'[i] = queue[i]
  BY <1>0
<1>2. {queue'[i] : i \in DOMAIN queue'} = {queue[i] : i \in DOMAIN queue} \cup {m}
  BY <1>1
<1> QED
  BY <1>1, <1>2 DEF InFlight, M

\* What flies is an event.
LEMMA FlightIsMessages ==
  ASSUME AccountingTypeOK
  PROVE  InFlight \subseteq Message
<1> DEFINE M == Message
<1>0. queue \in Seq(M)
  BY DEF AccountingTypeOK
<1>1. current # None => current.event \in M
  BY DEF AccountingTypeOK
<1> HIDE DEF M
<1>2. \A i \in DOMAIN queue : queue[i] \in M
  BY <1>0
<1> QED
  BY <1>1, <1>2 DEF InFlight, M

-----------------------------------------------------------------------------
(* Preservation by the steps of a call.                                    *)

\* Nothing has arrived yet.
LEMMA AccountingInvInit == AccountingInit => AccountingInv
<1> SUFFICES ASSUME AccountingInit PROVE AccountingInv
  OBVIOUS
<1>1. AccountingTypeOK
  <2>1. queue \in Seq(Message)
    BY DEF AccountingInit
  <2> QED
    BY <2>1 DEF AccountingInit, AccountingTypeOK, Phases
<1>2. InFlight = {}
  BY DEF AccountingInit, InFlight
<1>3. ASSUME NEW c \in Calls PROVE CallOK(c)
  <2>1. phase[c] = "arrived" /\ revision[c] = 0 /\ permit[c] = FALSE /\ sent[c] = FALSE /\ excused = {}
    BY DEF AccountingInit
  <2> QED
    <3>1. PhaseOK(c)
      BY <2>1 DEF PhaseOK, Holding
    <3>2. RecordedOK(c)
      BY <2>1 DEF RecordedOK
    <3>3. EndOK(c)
      BY <2>1 DEF EndOK
    <3> QED
      BY <1>2, <3>1, <3>2, <3>3 DEF CallOK
<1> QED
  BY <1>1, <1>3 DEF AccountingInv, AccountingInit

\* What one call does says nothing of the others.
OnlyCall(c) ==
    \A d \in Calls \ {c} :
       /\ phase'[d] = phase[d] /\ revision'[d] = revision[d] /\ permit'[d] = permit[d]
       /\ sent'[d] = sent[d] /\ ack'[d] = ack[d] /\ goal'[d] = goal[d]

LEMMA CallFrame ==
  ASSUME AccountingInv, AccountingTypeOK', NEW c \in Calls, OnlyCall(c), CallOK(c)',
         UNCHANGED <<mode, current, worker, excused, events>>,
         InFlight \subseteq InFlight', \A m \in InFlight' : m \in InFlight \/ m.attempt = c
  PROVE  AccountingInv'
<1>1. ASSUME NEW d \in Calls, d # c PROVE CallOK(d)'
  <2>1. CallOK(d)
    BY DEF AccountingInv
  <2>2. /\ phase'[d] = phase[d] /\ revision'[d] = revision[d] /\ permit'[d] = permit[d]
        /\ sent'[d] = sent[d] /\ ack'[d] = ack[d] /\ goal'[d] = goal[d]
    BY <1>1 DEF OnlyCall
  <2>3. PhaseOK(d)' /\ RecordedOK(d)'
    BY <2>1, <2>2 DEF CallOK, PhaseOK, RecordedOK, StoredFinal, Durable
  <2>4. EndOK(d)'
    BY <2>1, <2>2 DEF CallOK, EndOK, StoredFinal
  <2>5. (\A m \in InFlight : m.attempt = d => MessageOK(m))'
    BY <1>1, <2>1, <2>2 DEF CallOK, MessageOK
  <2> QED
    BY <2>3, <2>4, <2>5 DEF CallOK
<1> QED
  BY <1>1 DEF AccountingInv

\* A handler moves on without an event.
LEMMA PhaseMoves ==
  ASSUME AccountingInv, NEW c \in Calls, NEW q \in Phases \ {"arrived", "finish_ack"},
         phase' = [phase EXCEPT ![c] = q], phase'[c] = q => PhaseOK(c)' /\ RecordedOK(c)',
         sent' \in [Calls -> BOOLEAN], \A d \in Calls \ {c} : sent'[d] = sent[d],
         UNCHANGED <<revision, permit, ack, goal, queue, mode, current, worker, excused, events, tombstones>>
  PROVE  AccountingInv'
<1>1. AccountingTypeOK /\ CallOK(c)
  BY DEF AccountingInv
<1>2. phase'[c] = q /\ \A d \in Calls \ {c} : phase'[d] = phase[d]
  BY <1>1 DEF AccountingTypeOK
<1>3. AccountingTypeOK'
  BY <1>1 DEF AccountingTypeOK
<1>4. OnlyCall(c)
  BY <1>2 DEF OnlyCall
<1>5. InFlight' = InFlight
  BY DEF InFlight
<1>6. (\A m \in InFlight : m.attempt = c => MessageOK(m))'
  BY <1>1, <1>2, <1>5 DEF CallOK, MessageOK
<1>7. EndOK(c)'
  BY <1>1, <1>5 DEF CallOK, EndOK, StoredFinal
<1>8. CallOK(c)'
  BY <1>2, <1>6, <1>7 DEF CallOK
<1> QED
  BY <1>3, <1>4, <1>5, <1>8, CallFrame

\* The final event goes through its slot.
LEMMA FinalMoves ==
  ASSUME AccountingInv, NEW c \in Calls, permit[c] = TRUE, SendFinal(c),
         NEW q \in {"refused", "failed", "left", "released", "finish_ack"},
         phase' = [phase EXCEPT ![c] = q], q = "released" => ~Durable,
         goal' \in [Calls -> {"failed", "released", None}], \A d \in Calls \ {c} : goal'[d] = goal[d],
         q = "finish_ack" => goal'[c] \in {"failed", "released"},
         UNCHANGED <<sent, mode, current, worker, excused, events, tombstones>>
  PROVE  AccountingInv'
<1> DEFINE m == EventOf(c, revision[c] + 1, TRUE)
<1>1. AccountingTypeOK /\ CallOK(c)
  BY DEF AccountingInv
<1>2. phase'[c] = q /\ (\A d \in Calls \ {c} : phase'[d] = phase[d]) /\ phase' \in [Calls -> Phases]
  BY <1>1 DEF AccountingTypeOK, Phases
<1>3. revision[c] \in Nat /\ revision[c] + 1 \in Nat
  BY <1>1 DEF AccountingTypeOK
<1>4. /\ revision'[c] = revision[c] + 1 /\ permit'[c] = FALSE /\ ack'[c] = None
      /\ \A d \in Calls \ {c} : revision'[d] = revision[d] /\ permit'[d] = permit[d] /\ ack'[d] = ack[d]
      /\ revision' \in [Calls -> Nat] /\ permit' \in [Calls -> BOOLEAN]
      /\ ack' \in [Calls -> {TRUE, FALSE, None}]
  BY <1>1, <1>3 DEF AccountingTypeOK, SendFinal
<1>5. /\ m \in Message /\ m.attempt = c /\ m.revision = revision[c] + 1 /\ m.kind = Finished
  BY <1>3, EventParts
<1>6. \/ worker = "up" /\ queue' = Append(queue, m)
      \/ worker = "down" /\ queue' = queue
  BY <1>1 DEF SendFinal, AccountingTypeOK
<1> HIDE DEF m
<1>7. /\ queue' \in Seq(Message) /\ InFlight \subseteq InFlight' /\ InFlight' \subseteq InFlight \cup {m}
      /\ worker = "up" => m \in InFlight'
  <2>1. CASE queue' = queue /\ worker = "down"
    BY <1>1, <2>1 DEF InFlight, AccountingTypeOK
  <2>2. CASE queue' = Append(queue, m) /\ worker = "up"
    BY <1>1, <1>5, <2>2, AppendFlies DEF AccountingTypeOK
  <2> QED
    BY <1>6, <2>1, <2>2
<1>8. AccountingTypeOK'
  BY <1>1, <1>2, <1>4, <1>7 DEF AccountingTypeOK
<1>9. OnlyCall(c)
  BY <1>2, <1>4 DEF OnlyCall
<1>10. PhaseOK(c)'
  BY <1>2, <1>4 DEF PhaseOK, Holding
<1>11. RecordedOK(c)'
  BY <1>1, <1>2, <1>4, AccountingAssumption DEF RecordedOK, CallOK, Durable
<1>12. EndOK(c)'
  BY <1>1, <1>4, <1>5, <1>7 DEF EndOK, CallOK, PhaseOK, AccountingTypeOK
<1>13. (\A k \in InFlight : k.attempt = c => MessageOK(k))'
  <2> SUFFICES ASSUME NEW k \in InFlight', k.attempt = c PROVE MessageOK(k)'
    OBVIOUS
  <2>1. CASE k = m
    BY <1>3, <1>4, <1>5, <2>1 DEF MessageOK
  <2>2. CASE k \in InFlight
    <3>1. k.revision \in Nat
      BY <1>1, <2>2, FlightIsMessages, MessageParts
    <3>2. k.revision <= revision[c] /\ k.kind # Finished
      BY <1>1, <2>2 DEF CallOK, MessageOK
    <3> QED
      BY <1>3, <1>4, <3>1, <3>2 DEF MessageOK
  <2> QED
    BY <1>7, <2>1, <2>2
<1>14. CallOK(c)'
  BY <1>10, <1>11, <1>12, <1>13 DEF CallOK
<1> QED
  BY <1>5, <1>7, <1>8, <1>9, <1>14, CallFrame

\* An event that is not final, queued or not.
LEMMA EventMoves ==
  ASSUME AccountingInv, NEW c \in Calls, NEW r \in Nat, r = revision[c] \/ permit[c] = TRUE,
         r >= revision[c], revision' = [revision EXCEPT ![c] = r],
         \/ queue' = queue /\ ack' = ack
         \/ queue' = Append(queue, EventOf(c, r, FALSE)) /\ ack' = [ack EXCEPT ![c] = None],
         NEW q \in {"start_ack", "update_ack", "dispatch", "open", "interrupted"},
         phase' = [phase EXCEPT ![c] = q],
         q = "start_ack" => r = 0 /\ queue' # queue,
         q = "dispatch" => ~Durable, phase[c] \in Holding,
         UNCHANGED <<permit, goal, sent, mode, current, worker, excused, events, tombstones>>
  PROVE  AccountingInv'
<1> DEFINE m == EventOf(c, r, FALSE)
<1>1. AccountingTypeOK /\ CallOK(c)
  BY DEF AccountingInv
<1>2. phase'[c] = q /\ (\A d \in Calls \ {c} : phase'[d] = phase[d]) /\ phase' \in [Calls -> Phases]
  BY <1>1 DEF AccountingTypeOK, Phases
<1>3. revision[c] \in Nat
  BY <1>1 DEF AccountingTypeOK
<1>4. /\ revision'[c] = r /\ revision' \in [Calls -> Nat]
      /\ \A d \in Calls \ {c} : revision'[d] = revision[d]
  BY <1>1 DEF AccountingTypeOK
<1>5. /\ ack' \in [Calls -> {TRUE, FALSE, None}]
      /\ \A d \in Calls \ {c} : ack'[d] = ack[d]
      /\ q = "start_ack" => ack'[c] = None
  BY <1>1 DEF AccountingTypeOK
<1>6. m \in Message /\ m.attempt = c /\ m.revision = r /\ m.kind # Finished
  BY EventParts
<1> HIDE DEF m
<1>7. queue' \in Seq(Message) /\ InFlight \subseteq InFlight' /\ InFlight' \subseteq InFlight \cup {m}
  <2>1. CASE queue' = queue
    BY <1>1, <2>1 DEF InFlight, AccountingTypeOK
  <2>2. CASE queue' = Append(queue, m)
    BY <1>1, <1>6, <2>2, AppendFlies DEF AccountingTypeOK
  <2> QED
    BY <2>1, <2>2 DEF m
<1>8. AccountingTypeOK'
  BY <1>1, <1>2, <1>4, <1>5, <1>7 DEF AccountingTypeOK
<1>9. OnlyCall(c)
  BY <1>2, <1>4, <1>5 DEF OnlyCall
<1>10. PhaseOK(c)'
  BY <1>1, <1>2, <1>4 DEF PhaseOK, Holding, CallOK, Durable
<1>11. RecordedOK(c)'
  BY <1>1, <1>2, <1>4, <1>5, AccountingAssumption DEF RecordedOK, CallOK, Durable
<1>12. EndOK(c)'
  BY <1>1, <1>3, <1>4, <1>7 DEF EndOK, CallOK, StoredFinal
<1>13. (\A k \in InFlight : k.attempt = c => MessageOK(k))'
  <2> SUFFICES ASSUME NEW k \in InFlight', k.attempt = c PROVE MessageOK(k)'
    OBVIOUS
  <2>1. CASE k = m
    BY <1>2, <1>4, <1>6, <2>1 DEF MessageOK
  <2>2. CASE k \in InFlight
    <3>1. k.revision \in Nat
      BY <1>1, <2>2, FlightIsMessages, MessageParts
    <3>2. k.revision <= revision[c] /\ (k.kind = Finished => permit[c] = FALSE /\ k.revision = revision[c] /\ k.revision > 0)
      BY <1>1, <2>2 DEF CallOK, MessageOK
    <3> QED
      BY <1>2, <1>3, <1>4, <2>2, <3>1, <3>2 DEF MessageOK
  <2> QED
    BY <1>7, <2>1, <2>2
<1>14. CallOK(c)'
  BY <1>10, <1>11, <1>12, <1>13 DEF CallOK
<1> QED
  BY <1>6, <1>7, <1>8, <1>9, <1>14, CallFrame

\* An attempt is dropped.
LEMMA DropKeepsInv ==
  ASSUME AccountingInv, NEW c \in Calls, NEW next \in {"refused", "failed", "left"},
         DropAttempt(c, next), UNCHANGED <<sent, otherVars, recorderVars>>
  PROVE  AccountingInv'
<1>1. AccountingTypeOK /\ CallOK(c) /\ phase' = [phase EXCEPT ![c] = next] /\ goal' = goal
  BY DEF AccountingInv, DropAttempt
<1>2. UNCHANGED <<sent, mode, current, worker, excused, events, tombstones>>
  BY DEF otherVars, recorderVars
<1>3. permit[c] \in BOOLEAN /\ goal \in [Calls -> {"failed", "released", None}] /\ sent \in [Calls -> BOOLEAN]
  BY <1>1 DEF AccountingTypeOK
<1>4. CASE permit[c] = TRUE
  <2>1. SendFinal(c)
    BY <1>4 DEF DropAttempt
  <2> QED
    BY <1>1, <1>2, <1>3, <1>4, <2>1, FinalMoves
<1>5. CASE permit[c] = FALSE
  <2>1. UNCHANGED <<permit, revision, ack, queue>>
    BY <1>5 DEF DropAttempt
  <2>2. next \in Phases \ {"arrived", "finish_ack"}
    BY DEF Phases
  <2>3. phase'[c] = next => PhaseOK(c)' /\ RecordedOK(c)'
    <3> SUFFICES ASSUME phase'[c] = next PROVE PhaseOK(c)' /\ RecordedOK(c)'
      OBVIOUS
    <3>1. PhaseOK(c)'
      BY <1>5, <2>1 DEF PhaseOK, Holding
    <3>2. RecordedOK(c)'
      BY <1>1, <1>2 DEF CallOK, RecordedOK, Durable
    <3> QED
      BY <3>1, <3>2
  <2> QED
    BY <1>1, <1>2, <1>3, <2>1, <2>2, <2>3, PhaseMoves
<1> QED
  BY <1>3, <1>4, <1>5

\* An attempt finishes; in durable_local mode its handler waits for the answer.
LEMMA FinishKeepsInv ==
  ASSUME AccountingInv, NEW c \in Calls, NEW next \in {"failed", "released"}, phase[c] \in Holding,
         Finish(c, next), UNCHANGED <<sent, otherVars, recorderVars>>
  PROVE  AccountingInv'
<1>1. AccountingTypeOK /\ CallOK(c)
  BY DEF AccountingInv
<1>2. UNCHANGED <<sent, mode, current, worker, excused, events, tombstones>>
  BY DEF otherVars, recorderVars
<1>3. permit[c] \in BOOLEAN /\ goal \in [Calls -> {"failed", "released", None}] /\ sent \in [Calls -> BOOLEAN]
  BY <1>1 DEF AccountingTypeOK
<1>4. CASE permit[c] = TRUE /\ Durable
  <2>1. /\ SendFinal(c) /\ phase' = [phase EXCEPT ![c] = "finish_ack"]
        /\ goal' = [goal EXCEPT ![c] = next]
    BY <1>4 DEF Finish
  <2>2. /\ goal' \in [Calls -> {"failed", "released", None}] /\ goal'[c] \in {"failed", "released"}
        /\ \A d \in Calls \ {c} : goal'[d] = goal[d]
    BY <1>3, <2>1
  <2> QED
    BY <1>2, <1>4, <2>1, <2>2, FinalMoves
<1>5. CASE permit[c] = TRUE /\ ~Durable
  <2>1. SendFinal(c) /\ phase' = [phase EXCEPT ![c] = next] /\ goal' = goal
    BY <1>5 DEF Finish
  <2> QED
    BY <1>2, <1>3, <1>5, <2>1, FinalMoves
<1>6. CASE permit[c] = FALSE
  <2>1. UNCHANGED <<permit, revision, ack, queue, goal>> /\ phase' = [phase EXCEPT ![c] = next]
    BY <1>6 DEF Finish
  <2>2. next \in Phases \ {"arrived", "finish_ack"}
    BY DEF Phases
  <2>3. ~Durable
    BY <1>1, <1>6 DEF CallOK, PhaseOK
  <2>4. phase'[c] = next => PhaseOK(c)' /\ RecordedOK(c)'
    <3> SUFFICES ASSUME phase'[c] = next PROVE PhaseOK(c)' /\ RecordedOK(c)'
      OBVIOUS
    <3>1. PhaseOK(c)'
      BY <1>6, <2>1 DEF PhaseOK, Holding
    <3>2. RecordedOK(c)'
      BY <1>2, <2>3 DEF RecordedOK, Durable
    <3> QED
      BY <3>1, <3>2
  <2> QED
    BY <1>2, <1>3, <2>1, <2>2, <2>4, PhaseMoves
<1> QED
  BY <1>3, <1>4, <1>5, <1>6

\* Attempt::start reserves the slot.
LEMMA ReserveKeepsInv ==
  ASSUME AccountingInv, NEW c \in Calls, Reserve(c)
  PROVE  AccountingInv'
<1> DEFINE granted == mode # "off" /\ worker = "up" /\ Free > 0
           q == IF granted THEN "starting" ELSE IF Durable THEN "refused" ELSE "dispatch"
<1>1. /\ phase[c] = "reserving"
      /\ permit' = [permit EXCEPT ![c] = granted] /\ phase' = [phase EXCEPT ![c] = q]
      /\ UNCHANGED <<revision, ack, goal, queue, sent, mode, current, worker, excused, events, tombstones>>
  BY DEF Reserve, otherVars, recorderVars
<1>2. AccountingTypeOK /\ CallOK(c)
  BY DEF AccountingInv
<1>3. granted \in BOOLEAN /\ (granted => worker = "up")
  OBVIOUS
<1>4. /\ q \in Phases /\ (granted => q = "starting")
      /\ (~granted => q \in {"refused", "dispatch"}) /\ (Durable => q # "dispatch")
  BY DEF Phases
<1> HIDE DEF granted, q
<1>5. /\ phase'[c] = q /\ phase' \in [Calls -> Phases] /\ permit' \in [Calls -> BOOLEAN]
      /\ permit'[c] = granted
      /\ \A d \in Calls \ {c} : phase'[d] = phase[d] /\ permit'[d] = permit[d]
  BY <1>1, <1>2, <1>3, <1>4 DEF AccountingTypeOK
<1>6. AccountingTypeOK'
  BY <1>1, <1>2, <1>5 DEF AccountingTypeOK
<1>7. OnlyCall(c)
  BY <1>1, <1>5 DEF OnlyCall
<1>8. InFlight' = InFlight
  BY <1>1 DEF InFlight
<1>9. revision[c] = 0 /\ revision' = revision
  BY <1>1, <1>2 DEF CallOK, PhaseOK
<1>10. PhaseOK(c)'
  <2>1. CASE granted
    <3>1. permit'[c] = TRUE /\ phase'[c] = "starting" /\ worker' = "up"
      BY <1>1, <1>3, <1>4, <1>5, <2>1
    <3> QED
      BY <1>9, <3>1 DEF PhaseOK, Holding
  <2>2. CASE ~granted
    <3>1. permit'[c] = FALSE /\ phase'[c] \in {"refused", "dispatch"} /\ (Durable => phase'[c] # "dispatch")
      BY <1>3, <1>4, <1>5, <2>2
    <3> QED
      BY <1>1, <3>1 DEF PhaseOK, Holding, Durable
  <2> QED
    BY <2>1, <2>2
<1>11. RecordedOK(c)'
  BY <1>1, <1>2, <1>4, <1>5 DEF CallOK, RecordedOK, Durable
<1>12. EndOK(c)'
  BY <1>9 DEF EndOK
<1>13. (\A m \in InFlight : m.attempt = c => MessageOK(m))'
  <2> SUFFICES ASSUME NEW m \in InFlight, m.attempt = c PROVE MessageOK(m)'
    BY <1>8
  <2>1. m.revision \in Nat
    BY <1>2, FlightIsMessages, MessageParts
  <2>2. MessageOK(m)
    BY <1>2 DEF CallOK
  <2>3. m.revision <= 0 /\ m.kind # Finished
    BY <1>9, <2>1, <2>2 DEF MessageOK
  <2> QED
    BY <1>4, <1>5, <1>9, <2>1, <2>3 DEF MessageOK
<1>14. CallOK(c)'
  BY <1>10, <1>11, <1>12, <1>13 DEF CallOK
<1> QED
  BY <1>1, <1>6, <1>7, <1>8, <1>14, CallFrame

\* A handler goes on: admission, an answer that arrives, the dispatch, the headers.
LEMMA AnswerKeepsInv ==
  ASSUME AccountingInv, NEW c \in Calls,
         Admit(c) \/ StartAnswer(c) \/ Dispatch(c) \/ UpdateAnswer(c) \/ FinishAnswer(c)
  PROVE  AccountingInv'
<1>1. AccountingTypeOK /\ CallOK(c)
  BY DEF AccountingInv
<1>2. /\ phase \in [Calls -> Phases] /\ sent \in [Calls -> BOOLEAN] /\ permit[c] \in BOOLEAN
      /\ ack[c] \in {TRUE, FALSE, None}
  BY <1>1 DEF AccountingTypeOK
<1>3. UNCHANGED <<mode, current, worker, excused, events, tombstones>>
  BY DEF Admit, StartAnswer, Dispatch, UpdateAnswer, FinishAnswer, otherVars, recorderVars
<1>4. CASE Admit(c)
  <2>1. /\ phase[c] = "arrived" /\ UNCHANGED <<revision, permit, ack, goal, queue, sent>>
        /\ phase' = [phase EXCEPT ![c] = "reserving"] \/ phase' = [phase EXCEPT ![c] = "refused"]
    BY <1>4 DEF Admit
  <2>2. PICK q \in {"reserving", "refused"} : phase' = [phase EXCEPT ![c] = q]
    BY <2>1
  <2>3. revision[c] = 0 /\ permit[c] = FALSE
    BY <1>1, <1>2, <2>1 DEF CallOK, PhaseOK, Holding
  <2>4. phase'[c] = q => PhaseOK(c)'
    BY <2>1, <2>3 DEF PhaseOK, Holding
  <2>5. phase'[c] = q => RecordedOK(c)'
    BY <1>1, <1>3, <2>1 DEF CallOK, RecordedOK, Durable
  <2> QED
    BY <1>2, <1>3, <2>1, <2>2, <2>4, <2>5, PhaseMoves DEF Phases
<1>5. CASE StartAnswer(c)
  <2>1. phase[c] = "start_ack" /\ UNCHANGED sent
    BY <1>5 DEF StartAnswer
  <2>2. CASE ack[c] = TRUE /\ phase' = [phase EXCEPT ![c] = "dispatch"] /\ UNCHANGED <<revision, permit, ack, goal, queue>>
    <3>1. phase'[c] = "dispatch" => PhaseOK(c)'
      BY <1>1, <1>3, <2>1, <2>2 DEF CallOK, PhaseOK, Holding, Durable
    <3>2. phase'[c] = "dispatch" => RecordedOK(c)'
      BY <1>1, <1>3, <2>1, <2>2 DEF CallOK, RecordedOK, Durable
    <3> QED
      BY <1>2, <1>3, <2>1, <2>2, <3>1, <3>2, PhaseMoves DEF Phases
  <2>3. CASE DropAttempt(c, "refused")
    BY <1>5, <2>3, DropKeepsInv DEF StartAnswer
  <2> QED
    BY <1>5, <2>2, <2>3 DEF StartAnswer
<1>6. CASE Dispatch(c)
  <2>1. /\ phase[c] = "dispatch" /\ phase' = [phase EXCEPT ![c] = "sent"]
        /\ sent' = [sent EXCEPT ![c] = TRUE] /\ UNCHANGED <<revision, permit, ack, goal, queue>>
    BY <1>6 DEF Dispatch
  <2>2. sent' \in [Calls -> BOOLEAN] /\ \A d \in Calls \ {c} : sent'[d] = sent[d]
    BY <1>2, <2>1
  <2>3. phase'[c] = "sent" => PhaseOK(c)'
    BY <1>1, <1>3, <2>1 DEF CallOK, PhaseOK, Holding, Durable
  <2>4. phase'[c] = "sent" => RecordedOK(c)'
    BY <1>1, <1>3, <2>1 DEF CallOK, RecordedOK, Durable
  <2> QED
    BY <1>3, <2>1, <2>2, <2>3, <2>4, PhaseMoves DEF Phases
<1>7. CASE UpdateAnswer(c)
  <2>1. phase[c] = "update_ack" /\ UNCHANGED <<revision, permit, ack, goal, queue, sent>>
    BY <1>7 DEF UpdateAnswer
  <2>2. PICK q \in {"open", "interrupted"} : phase' = [phase EXCEPT ![c] = q]
    BY <1>7 DEF UpdateAnswer
  <2>3. phase'[c] = q => PhaseOK(c)'
    BY <1>1, <1>3, <2>1 DEF CallOK, PhaseOK, Holding, Durable
  <2>4. phase'[c] = q => RecordedOK(c)'
    BY <1>1, <1>3, <2>1 DEF CallOK, RecordedOK, Durable
  <2> QED
    BY <1>2, <1>3, <2>1, <2>2, <2>3, <2>4, PhaseMoves DEF Phases
<1>8. CASE FinishAnswer(c)
  <2>1. phase[c] = "finish_ack" /\ UNCHANGED <<revision, permit, ack, goal, queue, sent>>
    BY <1>8 DEF FinishAnswer
  <2>2. goal[c] \in {"failed", "released"} /\ permit[c] = FALSE
    BY <1>1, <1>2, <2>1 DEF CallOK, PhaseOK, Holding
  <2>3. PICK q \in {"failed", "released"} : /\ phase' = [phase EXCEPT ![c] = q]
                                            /\ q = "released" => ack[c] = TRUE
    BY <1>8, <2>2 DEF FinishAnswer
  <2>4. phase'[c] = q => PhaseOK(c)'
    BY <2>1, <2>2 DEF PhaseOK, Holding
  <2>5. phase'[c] = q => RecordedOK(c)'
    BY <1>1, <1>3, <2>1, <2>3 DEF CallOK, RecordedOK, Durable, StoredFinal
  <2> QED
    BY <1>2, <1>3, <2>1, <2>3, <2>4, <2>5, PhaseMoves DEF Phases
<1> QED
  BY <1>4, <1>5, <1>6, <1>7, <1>8

\* The start and the updates of an attempt.
LEMMA UpdateKeepsInv ==
  ASSUME AccountingInv, NEW c \in Calls, QueueStart(c) \/ SkipStart(c) \/ Observe(c)
  PROVE  AccountingInv'
<1>1. AccountingTypeOK /\ CallOK(c)
  BY DEF AccountingInv
<1>2. /\ revision \in [Calls -> Nat] /\ revision[c] \in Nat /\ revision[c] + 1 \in Nat
      /\ phase \in [Calls -> Phases] /\ sent \in [Calls -> BOOLEAN]
  BY <1>1 DEF AccountingTypeOK
<1>3. UNCHANGED <<sent, mode, current, worker, excused, events, tombstones>>
  BY DEF QueueStart, SkipStart, Observe, otherVars, recorderVars
<1>4. CASE QueueStart(c)
  <2>1. /\ phase[c] = "starting" /\ UNCHANGED <<revision, permit, goal>>
        /\ queue' = Append(queue, EventOf(c, 0, FALSE)) /\ ack' = [ack EXCEPT ![c] = None]
    BY <1>4 DEF QueueStart, Enqueue
  <2>2. PICK q \in {"start_ack", "dispatch"} : /\ phase' = [phase EXCEPT ![c] = q]
                                               /\ q = "dispatch" => ~Durable
    BY <1>4 DEF QueueStart
  <2>3. revision[c] = 0 /\ revision' = [revision EXCEPT ![c] = 0]
    BY <1>1, <1>2, <2>1 DEF CallOK, PhaseOK
  <2>4. queue' # queue
    <3>1. Len(queue') = Len(queue) + 1 /\ Len(queue) \in Nat
      BY <1>1, <2>1, EventParts DEF AccountingTypeOK
    <3> QED
      BY <3>1
  <2> QED
    <3>1. /\ phase[c] \in Holding /\ q \in {"start_ack", "update_ack", "dispatch", "open", "interrupted"}
          /\ 0 \in Nat /\ 0 >= revision[c]
      BY <2>1, <2>3 DEF Holding
    <3> QED
      BY <1>3, <2>1, <2>2, <2>3, <2>4, <3>1, EventMoves
<1>5. CASE SkipStart(c)
  <2>1. phase[c] = "starting"
    BY <1>5 DEF SkipStart
  <2>2. CASE Durable
    BY <1>5, <2>2, DropKeepsInv DEF SkipStart
  <2>3. CASE ~Durable
    <3>1. phase' = [phase EXCEPT ![c] = "dispatch"] /\ UNCHANGED <<revision, permit, ack, goal, queue>>
      BY <1>5, <2>3 DEF SkipStart
    <3>2. phase'[c] = "dispatch" => PhaseOK(c)'
      BY <1>1, <1>3, <2>1, <2>3, <3>1 DEF CallOK, PhaseOK, Holding, Durable
    <3>3. phase'[c] = "dispatch" => RecordedOK(c)'
      BY <1>3, <2>3 DEF RecordedOK, Durable
    <3> QED
      BY <1>2, <1>3, <3>1, <3>2, <3>3, PhaseMoves DEF Phases
  <2> QED
    BY <2>2, <2>3
<1>6. CASE Observe(c)
  <2>1. /\ phase[c] = "open" /\ permit[c] = TRUE /\ UNCHANGED <<permit, goal>>
        /\ revision' = [revision EXCEPT ![c] = revision[c] + 1]
    BY <1>1, <1>6 DEF Observe, AccountingTypeOK
  <2>2. \/ queue' = queue /\ ack' = ack
        \/ queue' = Append(queue, EventOf(c, revision[c] + 1, FALSE)) /\ ack' = [ack EXCEPT ![c] = None]
    BY <1>6 DEF Observe, Enqueue
  <2>3. PICK q \in {"update_ack", "open", "interrupted"} : phase' = [phase EXCEPT ![c] = q]
    <3>1. phase = [phase EXCEPT ![c] = "open"]
      BY <1>2, <2>1
    <3> QED
      BY <1>6, <3>1 DEF Observe
  <2>4. revision[c] + 1 >= revision[c]
    BY <1>2
  <2> QED
    BY <1>2, <1>3, <2>1, <2>2, <2>3, <2>4, EventMoves DEF Holding
<1> QED
  BY <1>4, <1>5, <1>6

\* The response ends, fails or is abandoned.
LEMMA EndKeepsInv ==
  ASSUME AccountingInv, NEW c \in Calls,
         PrepareFails(c) \/ Headers(c) \/ Interrupted(c) \/ Terminal(c) \/ Broken(c) \/ Leave(c)
  PROVE  AccountingInv'
<1>1. AccountingTypeOK /\ CallOK(c)
  BY DEF AccountingInv
<1>2. UNCHANGED <<sent, otherVars, recorderVars>>
  BY DEF PrepareFails, Headers, Interrupted, Terminal, Broken, Leave
<1>3. CASE DropAttempt(c, "failed") \/ DropAttempt(c, "left")
  BY <1>2, <1>3, DropKeepsInv
<1>4. CASE /\ phase[c] \in {"sent", "open", "interrupted"}
           /\ Finish(c, "failed") \/ Finish(c, "released")
  <2>1. phase[c] \in Holding
    BY <1>4 DEF Holding
  <2> QED
    BY <1>2, <1>4, <2>1, FinishKeepsInv
<1>5. CASE /\ phase[c] = "sent" /\ phase' = [phase EXCEPT ![c] = "open"]
           /\ UNCHANGED <<revision, permit, ack, goal, queue>>
  <2>1. UNCHANGED <<mode, current, worker, excused, events, tombstones>> /\ sent' = sent
        /\ sent \in [Calls -> BOOLEAN]
    BY <1>1, <1>2 DEF otherVars, recorderVars, AccountingTypeOK
  <2>2. phase'[c] = "open" => PhaseOK(c)'
    BY <1>1, <1>5, <2>1 DEF CallOK, PhaseOK, Holding, Durable
  <2>3. phase'[c] = "open" => RecordedOK(c)'
    BY <1>1, <1>5, <2>1 DEF CallOK, RecordedOK, Durable
  <2> QED
    BY <1>5, <2>1, <2>2, <2>3, PhaseMoves DEF Phases
<1> QED
  BY <1>3, <1>4, <1>5 DEF PrepareFails, Headers, Interrupted, Interrupt, Terminal, Broken, Leave

-----------------------------------------------------------------------------
(* Preservation by the worker thread, its failure and a restart.           *)

\* The worker thread moves events along; an event leaves its hands when it is stored.
LEMMA WorkerFrame ==
  ASSUME AccountingInv, AccountingTypeOK', events \subseteq events', InFlight' \subseteq InFlight,
         \A m \in InFlight : m \in InFlight' \/ m \in events',
         UNCHANGED <<mode, phase, revision, permit, goal, sent, worker, excused>>,
         \A c \in Calls : ack'[c] = TRUE =>
            \/ ack[c] = TRUE
            \/ /\ phase[c] = "start_ack" => EventOf(c, 0, FALSE) \in events'
               /\ phase[c] = "finish_ack" => StoredFinal(c)',
         current' # None /\ current'.stored = TRUE => current'.event \in events'
  PROVE  AccountingInv'
<1>1. ASSUME NEW c \in Calls PROVE CallOK(c)'
  <2>1. CallOK(c) /\ (StoredFinal(c) => StoredFinal(c)')
    BY DEF AccountingInv, StoredFinal
  <2>2. PhaseOK(c)'
    BY <2>1 DEF CallOK, PhaseOK, Durable
  <2>3. RecordedOK(c)'
    BY <2>1 DEF CallOK, RecordedOK, Durable
  <2>4. EndOK(c)'
    BY <2>1 DEF CallOK, EndOK, StoredFinal
  <2>5. (\A m \in InFlight : m.attempt = c => MessageOK(m))'
    BY <2>1 DEF CallOK, MessageOK
  <2> QED
    BY <2>2, <2>3, <2>4, <2>5 DEF CallOK
<1> QED
  BY <1>1 DEF AccountingInv

\* The oldest event of the queue is taken.
LEMMA TakeKeepsInv ==
  ASSUME AccountingInv, Take
  PROVE  AccountingInv'
<1> DEFINE new == [event |-> Head(queue), stored |-> FALSE]
           M == Message
<1>1. /\ current = None /\ queue # <<>> /\ current' = new /\ queue' = Tail(queue)
      /\ UNCHANGED <<mode, phase, revision, permit, ack, goal, sent, worker, excused, events, tombstones>>
  BY DEF Take, callVars, recorderVars
<1>2. AccountingTypeOK /\ queue \in Seq(M)
  BY DEF AccountingInv, AccountingTypeOK
<1> HIDE DEF M
<1>3. /\ Head(queue) \in M /\ Head(queue) = queue[1] /\ Tail(queue) \in Seq(M)
      /\ Len(queue) \in Nat \ {0} /\ DOMAIN queue = 1..Len(queue)
      /\ DOMAIN Tail(queue) = 1..(Len(queue) - 1)
      /\ \A i \in 1..(Len(queue) - 1) : Tail(queue)[i] = queue[i + 1]
  BY <1>1, <1>2
<1>4. Head(queue) \in UsageMessage
  BY <1>3, MessageParts DEF M
<1>5. new \in Delivery /\ new.event = Head(queue)
  <2>1. FALSE \in BOOLEAN
    OBVIOUS
  <2> QED
    BY <1>4, <2>1 DEF Delivery
<1>6. new # None
  BY <1>5, AccountingAssumption
<1>7. new.stored = FALSE
  OBVIOUS
<1> HIDE DEF new
<1>8. {queue[i] : i \in DOMAIN queue} = {Tail(queue)[i] : i \in DOMAIN Tail(queue)} \cup {Head(queue)}
  <2>1. \A i \in 1..Len(queue) : i = 1 \/ (i - 1 \in 1..(Len(queue) - 1) /\ queue[i] = Tail(queue)[i - 1])
    BY <1>3
  <2>2. \A i \in 1..(Len(queue) - 1) : i + 1 \in 1..Len(queue) /\ Tail(queue)[i] = queue[i + 1]
    BY <1>3
  <2>3. 1 \in 1..Len(queue)
    BY <1>3
  <2>4. ASSUME NEW i \in 1..Len(queue)
        PROVE  queue[i] = Head(queue) \/ \E k \in 1..(Len(queue) - 1) : queue[i] = Tail(queue)[k]
    <3>1. CASE i = 1
      BY <1>3, <3>1
    <3>2. CASE i # 1
      BY <2>1, <3>2
    <3> QED
      BY <3>1, <3>2
  <2>5. \A k \in 1..(Len(queue) - 1) : \E i \in 1..Len(queue) : Tail(queue)[k] = queue[i]
    BY <2>2
  <2>6. \E i \in 1..Len(queue) : Head(queue) = queue[i]
    BY <1>3, <2>3
  <2> DEFINE h == Head(queue)
             t == Tail(queue)
  <2>7. DOMAIN queue = 1..Len(queue) /\ DOMAIN t = 1..(Len(queue) - 1)
    BY <1>3
  <2> HIDE DEF h, t
  <2>8. {queue[i] : i \in DOMAIN queue} = {t[i] : i \in DOMAIN t} \cup {h}
    <3>1. \A i \in DOMAIN queue : queue[i] \in {t[k] : k \in DOMAIN t} \cup {h}
      BY <2>4, <2>7 DEF h, t
    <3>2. \A i \in DOMAIN t : t[i] \in {queue[k] : k \in DOMAIN queue}
      BY <2>5, <2>7 DEF t
    <3>3. h \in {queue[k] : k \in DOMAIN queue}
      BY <2>6, <2>7 DEF h
    <3> QED
      BY <3>1, <3>2, <3>3
  <2> QED
    BY <2>8 DEF h, t
<1>9. InFlight' = InFlight
  BY <1>1, <1>5, <1>6, <1>8 DEF InFlight
<1>10. AccountingTypeOK'
  BY <1>1, <1>2, <1>3, <1>5 DEF AccountingTypeOK, M
<1> QED
  BY <1>1, <1>7, <1>9, <1>10, WorkerFrame

\* The recorder commits the event it was sent, or gives up.
LEMMA CommitKeepsInv ==
  ASSUME AccountingInv, Commit
  PROVE  AccountingInv'
<1> DEFINE e == current.event
<1>1. /\ current # None /\ Record(e) /\ current' = [current EXCEPT !.stored = serving' # None]
      /\ UNCHANGED <<mode, phase, revision, permit, ack, goal, sent, queue, worker, excused>>
  BY DEF Commit, callVars
<1>2. AccountingTypeOK /\ current \in Delivery /\ e \in Message /\ tombstones = {}
  BY <1>1 DEF AccountingInv, AccountingTypeOK
<1>3. (serving' # None) \in BOOLEAN
  OBVIOUS
<1>4. current' \in Delivery /\ current'.event = e /\ current'.stored = (serving' # None)
  BY <1>1, <1>2, <1>3 DEF Delivery
<1>5. current' # None
  BY <1>4, AccountingAssumption
<1>6. /\ serving # None /\ tombstones' = tombstones /\ events \subseteq events'
      /\ serving' # None => e \in events'
  <2>0. serving # None /\ tombstones' = tombstones
    BY <1>1 DEF Record
  <2>1. CASE Status(e) = "committed"
    BY <1>1, <2>0, <2>1 DEF Record, Insert
  <2>2. CASE Status(e) = "duplicate"
    <3>1. e \in events \cup tombstones
      BY <2>2 DEF Status
    <3> QED
      BY <1>1, <1>2, <2>0, <2>2, <3>1 DEF Record
  <2>3. CASE Status(e) \notin {"committed", "duplicate"}
    BY <1>1, <2>0, <2>3 DEF Record
  <2> QED
    BY <2>0, <2>1, <2>2, <2>3
<1>7. InFlight' = InFlight
  BY <1>1, <1>4, <1>5 DEF InFlight
<1>8. AccountingTypeOK'
  BY <1>1, <1>2, <1>4, <1>6 DEF AccountingTypeOK
<1>9. current'.stored = TRUE => current'.event \in events'
  BY <1>4, <1>6
<1> QED
  BY <1>1, <1>6, <1>7, <1>8, <1>9, WorkerFrame

\* The answer reaches the handler that waits for it.
LEMMA AcknowledgeKeepsInv ==
  ASSUME AccountingInv, Acknowledge
  PROVE  AccountingInv'
<1> DEFINE e == current.event
<1>1. /\ current # None /\ current.stored = TRUE /\ current' = None
      /\ ack' = [c \in Calls |-> Answered(c, TRUE)]
      /\ UNCHANGED <<mode, phase, revision, permit, goal, sent, queue, worker, excused, events, tombstones>>
  <2>1. current # None /\ current.stored
    BY DEF Acknowledge
  <2>2. current.stored \in BOOLEAN
    BY <2>1 DEF AccountingInv, AccountingTypeOK, Delivery
  <2> QED
    BY <2>1, <2>2 DEF Acknowledge, recorderVars
<1>2. AccountingTypeOK /\ e \in Message /\ e \in events /\ e \in InFlight
  BY <1>1 DEF AccountingInv, AccountingTypeOK, InFlight
<1>3. ASSUME NEW c \in Calls
      PROVE  /\ ack'[c] \in {TRUE, FALSE, None}
             /\ ack'[c] = TRUE =>
                  \/ ack[c] = TRUE
                  \/ /\ phase[c] = "start_ack" => EventOf(c, 0, FALSE) \in events
                     /\ phase[c] = "finish_ack" => StoredFinal(c)
  <2>0. ack[c] \in {TRUE, FALSE, None} /\ CallOK(c)
    BY DEF AccountingInv, AccountingTypeOK
  <2>1. CASE c = e.attempt /\ revision[c] = e.revision /\ Waiting(c)
    <3>1. ack'[c] = TRUE
      BY <1>1, <2>1 DEF Answered
    <3>2. MessageOK(e) /\ e.revision \in Nat /\ (e.kind # Finished => e = EventOf(e.attempt, e.revision, FALSE))
      BY <1>2, <2>0, <2>1, MessageParts DEF CallOK
    <3>3. phase[c] = "start_ack" => EventOf(c, 0, FALSE) \in events
      <4> SUFFICES ASSUME phase[c] = "start_ack" PROVE EventOf(c, 0, FALSE) \in events
        OBVIOUS
      <4>1. e.revision = 0
        BY <2>0, <2>1 DEF CallOK, PhaseOK
      <4>2. e.kind # Finished
        BY <3>2, <4>1 DEF MessageOK
      <4> QED
        BY <1>2, <2>1, <3>2, <4>1, <4>2
    <3>4. phase[c] = "finish_ack" => StoredFinal(c)
      BY <1>2, <2>1, <3>2 DEF MessageOK, StoredFinal
    <3> QED
      BY <3>1, <3>3, <3>4
  <2>2. CASE ~(c = e.attempt /\ revision[c] = e.revision /\ Waiting(c))
    <3>1. ack'[c] = ack[c]
      BY <1>1, <2>2 DEF Answered
    <3> QED
      BY <2>0, <3>1
  <2> QED
    BY <2>1, <2>2
<1>4. ack' \in [Calls -> {TRUE, FALSE, None}]
  BY <1>1, <1>3
<1>5. InFlight' \subseteq InFlight /\ \A m \in InFlight : m \in InFlight' \/ m \in events'
  BY <1>1, <1>2 DEF InFlight
<1>6. AccountingTypeOK'
  BY <1>1, <1>2, <1>4 DEF AccountingTypeOK
<1>7. \A c \in Calls : StoredFinal(c)' <=> StoredFinal(c)
  BY <1>1 DEF StoredFinal
<1> QED
  BY <1>1, <1>3, <1>5, <1>6, <1>7, WorkerFrame

\* The thread fails or the process ends: the calls of before are excused.
LEMMA FailureKeepsInv ==
  ASSUME AccountingInv, WorkerFails \/ Restart
  PROVE  AccountingInv'
<1>1. /\ current' = None /\ queue' = <<>> /\ excused' = {c \in Calls : phase[c] # "arrived"}
      /\ UNCHANGED <<mode, revision, goal, sent, events, tombstones>> /\ worker' \in {"up", "down"}
  BY DEF WorkerFails, Restart, storeVars
<1>2. AccountingTypeOK
  BY DEF AccountingInv
<1>3. InFlight' = {} /\ queue' \in Seq(Message)
  BY <1>1 DEF InFlight
<1>4. ASSUME NEW c \in Calls
      PROVE  /\ phase'[c] \in Phases /\ permit'[c] \in BOOLEAN /\ ack'[c] \in {TRUE, FALSE, None}
             /\ phase'[c] = phase[c] \/ (phase'[c] = "lost" /\ phase[c] # "arrived")
             /\ phase'[c] = phase[c] => ack'[c] # TRUE \/ ack'[c] = ack[c]
             /\ \/ permit'[c] = permit[c] /\ phase'[c] = phase[c]
                \/ permit'[c] = FALSE /\ phase'[c] \notin Holding
  <2>0. phase[c] \in Phases /\ permit[c] \in BOOLEAN /\ ack[c] \in {TRUE, FALSE, None}
    BY <1>2 DEF AccountingTypeOK
  <2>1. CASE WorkerFails
    <3>1. phase' = phase /\ permit' = permit /\ ack'[c] = Answered(c, FALSE)
      BY <2>1 DEF WorkerFails
    <3>2. CASE ack'[c] = FALSE
      BY <2>0, <3>1, <3>2
    <3>3. CASE ack'[c] = ack[c]
      BY <2>0, <3>1, <3>3
    <3> QED
      BY <3>1, <3>2, <3>3 DEF Answered
  <2>2. CASE Restart
    <3>1. permit'[c] = FALSE /\ ack'[c] = ack[c] /\ phase'[c] = IF Live(c) THEN "lost" ELSE phase[c]
      BY <2>2 DEF Restart
    <3>2. ~Live(c) => phase[c] \notin Holding
      BY <2>0 DEF Live, Holding
    <3>3. Live(c) => phase[c] # "arrived"
      BY DEF Live
    <3> QED
      BY <2>0, <3>1, <3>2, <3>3 DEF Phases, Holding
  <2> QED
    BY <2>1, <2>2
<1>5. phase' \in [Calls -> Phases] /\ permit' \in [Calls -> BOOLEAN] /\ ack' \in [Calls -> {TRUE, FALSE, None}]
  <2>1. CASE WorkerFails
    BY <1>2, <1>4, <2>1 DEF WorkerFails, AccountingTypeOK
  <2>2. CASE Restart
    BY <1>2, <1>4, <2>2 DEF Restart, AccountingTypeOK
  <2> QED
    BY <2>1, <2>2
<1>6. AccountingTypeOK'
  BY <1>1, <1>2, <1>3, <1>5 DEF AccountingTypeOK
<1>7. ASSUME NEW c \in Calls PROVE CallOK(c)'
  <2>1. CallOK(c) /\ (StoredFinal(c)' <=> StoredFinal(c))
    BY <1>1 DEF AccountingInv, StoredFinal
  <2>2. phase'[c] = "arrived" <=> c \notin excused'
    BY <1>1, <1>4
  <2>3. phase'[c] = "arrived" => revision'[c] = 0
    BY <1>1, <1>4, <2>1 DEF CallOK, PhaseOK
  <2>4. PhaseOK(c)'
    <3>1. CASE permit'[c] = permit[c] /\ phase'[c] = phase[c]
      <4>1. permit'[c] = TRUE => c \in excused'
        BY <2>1, <2>2, <3>1 DEF CallOK, PhaseOK, Holding
      <4> QED
        BY <1>1, <2>1, <2>2, <3>1, <4>1 DEF CallOK, PhaseOK, Durable
    <3>2. CASE permit'[c] = FALSE /\ phase'[c] \notin Holding
      BY <1>1, <1>4, <2>1, <2>2, <3>2 DEF CallOK, PhaseOK
    <3> QED
      BY <1>4, <3>1, <3>2
  <2>5. RecordedOK(c)'
    BY <1>1, <1>4, <2>1 DEF CallOK, RecordedOK, Durable
  <2>6. EndOK(c)'
    BY <2>2, <2>3 DEF EndOK
  <2> QED
    BY <1>3, <2>4, <2>5, <2>6 DEF CallOK
<1> QED
  BY <1>1, <1>6, <1>7 DEF AccountingInv

\* Every step keeps the invariant.
LEMMA AccountingInvStep == AccountingInv /\ [AccountingNext]_accountingVars => AccountingInv'
<1> SUFFICES ASSUME AccountingInv, [AccountingNext]_accountingVars PROVE AccountingInv'
  OBVIOUS
<1>1. CASE UNCHANGED accountingVars
  <2>1. AccountingTypeOK' /\ InFlight' = InFlight
    BY <1>1 DEF accountingVars, AccountingInv, AccountingTypeOK, InFlight
  <2> QED
    BY <1>1, <2>1, WorkerFrame DEF accountingVars, AccountingInv
<1>2. ASSUME NEW c \in Calls, Reserve(c) PROVE AccountingInv'
  BY <1>2, ReserveKeepsInv
<1>3. ASSUME NEW c \in Calls,
             Admit(c) \/ StartAnswer(c) \/ Dispatch(c) \/ UpdateAnswer(c) \/ FinishAnswer(c)
      PROVE  AccountingInv'
  BY <1>3, AnswerKeepsInv
<1>4. ASSUME NEW c \in Calls, QueueStart(c) \/ SkipStart(c) \/ Observe(c) PROVE AccountingInv'
  BY <1>4, UpdateKeepsInv
<1>5. ASSUME NEW c \in Calls,
             PrepareFails(c) \/ Headers(c) \/ Interrupted(c) \/ Terminal(c) \/ Broken(c) \/ Leave(c)
      PROVE  AccountingInv'
  BY <1>5, EndKeepsInv
<1>6. CASE WorkerStep
  BY <1>6, TakeKeepsInv, CommitKeepsInv, AcknowledgeKeepsInv DEF WorkerStep
<1>7. CASE WorkerFails \/ Restart
  BY <1>7, FailureKeepsInv
<1> QED
  BY <1>1, <1>2, <1>3, <1>4, <1>5, <1>6, <1>7 DEF AccountingNext, CallStep

\* AccountingInv holds in every state.
LEMMA AccountingInvariant == AccountingSpec => []AccountingInv
  BY AccountingInvInit, AccountingInvStep, PTL DEF AccountingSpec

-----------------------------------------------------------------------------
(* What the accounting promises.                                           *)

\* durable_local: nothing goes upstream before its start is in the ledger, and no final
\* response goes to the client before its end is.
THEOREM CommitAlwaysPrecedes == AccountingSpec => []CommitPrecedesEffect
<1>1. AccountingInv => CommitPrecedesEffect
  <2> SUFFICES ASSUME AccountingInv, Durable, NEW c \in Calls
               PROVE  /\ sent[c] => EventOf(c, 0, FALSE) \in events
                      /\ phase[c] = "released" => StoredFinal(c)
    BY DEF CommitPrecedesEffect
  <2>1. RecordedOK(c) /\ sent[c] \in BOOLEAN
    BY DEF AccountingInv, CallOK, AccountingTypeOK
  <2>2. CASE sent[c] = TRUE
    BY <2>1, <2>2 DEF RecordedOK
  <2>3. CASE sent[c] = FALSE
    BY <2>1, <2>3 DEF RecordedOK
  <2> QED
    BY <2>1, <2>2, <2>3
<1> QED
  BY <1>1, AccountingInvariant, PTL

\* The end of an attempt is queued, with the recorder or stored, however full the queue was.
THEOREM EndsAreNeverCrowdedOut == AccountingSpec => []EndIsNeverCrowdedOut
<1>1. AccountingInv => EndIsNeverCrowdedOut
  <2> SUFFICES ASSUME AccountingInv, NEW c \in Calls, c \notin excused, revision[c] > 0, ~permit[c]
               PROVE  \/ \E i \in DOMAIN queue : queue[i].attempt = c /\ queue[i].kind = Finished
                      \/ current # None /\ current.event.attempt = c /\ current.event.kind = Finished
                      \/ StoredFinal(c)
    BY DEF EndIsNeverCrowdedOut
  <2>1. EndOK(c) /\ permit[c] \in BOOLEAN
    BY DEF AccountingInv, CallOK, AccountingTypeOK
  <2>2. permit[c] = FALSE
    BY <2>1
  <2>3. (\E m \in InFlight : m.attempt = c /\ m.kind = Finished) \/ StoredFinal(c)
    BY <2>1, <2>2 DEF EndOK
  <2> QED
    BY <2>3 DEF InFlight
<1> QED
  BY <1>1, AccountingInvariant, PTL

-----------------------------------------------------------------------------
(* The slots of the queue.                                                 *)

\* The calls that hold a reserved slot.
Held == {c \in Calls : permit[c] = TRUE}

\* The queue never holds more than its slots, also when every reserved one is used: the
\* channel that reserve_owned and try_send work on is never overrun.
QueueFits == IsFiniteSet(Held) /\ Len(queue) + Cardinality(Held) <= Capacity

\* What a step may do to the slots.
SlotStep ==
    \/ Held' = Held /\ Len(queue') <= Len(queue)
    \/ Held' = Held /\ Len(queue') = Len(queue) + 1 /\ Free > 0
    \/ \E c \in Calls \ Held : Held' = Held \cup {c} /\ queue' = queue /\ Free > 0
    \/ \E c \in Held : Held' = Held \ {c} /\ Len(queue') <= Len(queue) + 1
    \/ Held' = {} /\ queue' = <<>>

\* The effect of SendFinal on the slots.
LEMMA FinalSlot ==
  ASSUME AccountingTypeOK, NEW c \in Calls, permit[c] = TRUE, SendFinal(c)
  PROVE  SlotStep
<1>1. revision[c] + 1 \in Nat /\ queue \in Seq(Message) /\ Len(queue) \in Nat
  BY DEF AccountingTypeOK
<1>2. EventOf(c, revision[c] + 1, TRUE) \in Message
  BY <1>1, EventParts
<1>3. Len(queue') <= Len(queue) + 1
  <2>1. CASE queue' = queue
    BY <1>1, <2>1
  <2>2. CASE queue' = Append(queue, EventOf(c, revision[c] + 1, TRUE))
    <3>1. Len(queue') = Len(queue) + 1
      BY <1>1, <1>2, <2>2
    <3> QED
      BY <1>1, <3>1
  <2> QED
    BY <2>1, <2>2 DEF SendFinal
<1>4. c \in Held /\ Held' = Held \ {c}
  BY DEF Held, SendFinal, AccountingTypeOK
<1> QED
  BY <1>3, <1>4 DEF SlotStep

\* Every step of the accounting is a step of the slots.
LEMMA StepsMoveSlots ==
  ASSUME AccountingInv, [AccountingNext]_accountingVars
  PROVE  SlotStep
<1>0. /\ AccountingTypeOK /\ permit \in [Calls -> BOOLEAN]
      /\ queue \in Seq(Message) /\ Len(queue) \in Nat
  <2>1. AccountingTypeOK
    BY DEF AccountingInv
  <2> DEFINE M == Message
  <2>2. permit \in [Calls -> BOOLEAN] /\ queue \in Seq(M)
    BY <2>1 DEF AccountingTypeOK
  <2> HIDE DEF M
  <2>3. Len(queue) \in Nat
    BY <2>2
  <2> QED
    BY <2>1, <2>2, <2>3 DEF M
<1>1. CASE permit' = permit /\ queue' = queue
  BY <1>0, <1>1 DEF SlotStep, Held
<1>2. ASSUME NEW c \in Calls, permit[c] = TRUE, SendFinal(c) PROVE SlotStep
  BY <1>0, <1>2, FinalSlot
<1>3. ASSUME NEW c \in Calls, NEW next, DropAttempt(c, next) \/ Finish(c, next) PROVE SlotStep
  <2>1. CASE permit[c] = TRUE
    BY <1>2, <1>3, <2>1 DEF DropAttempt, Finish
  <2>2. CASE permit[c] = FALSE
    BY <1>1, <1>3, <2>2 DEF DropAttempt, Finish
  <2> QED
    BY <1>0, <2>1, <2>2
<1>4. ASSUME NEW c \in Calls, NEW r \in Nat, Enqueue(c, r), permit' = permit, Free > 0 PROVE SlotStep
  <2>1. EventOf(c, r, FALSE) \in Message
    BY EventParts
  <2>2. Len(queue') = Len(queue) + 1
    BY <1>0, <1>4, <2>1 DEF Enqueue
  <2> QED
    BY <1>4, <2>2 DEF SlotStep, Held
<1>5. ASSUME NEW c \in Calls, Reserve(c) PROVE SlotStep
  <2> DEFINE granted == mode # "off" /\ worker = "up" /\ Free > 0
  <2>1. /\ phase[c] = "reserving" /\ queue' = queue /\ permit' = [permit EXCEPT ![c] = granted]
        /\ granted \in BOOLEAN
    BY <1>5 DEF Reserve
  <2>2. permit[c] = FALSE
    <3>1. PhaseOK(c) /\ permit[c] \in BOOLEAN
      BY <1>0 DEF AccountingInv, CallOK
    <3> QED
      BY <2>1, <3>1 DEF PhaseOK, Holding
  <2>3. CASE granted = TRUE
    <3>1. Free > 0
      BY <2>3
    <3> HIDE DEF granted
    <3>2. c \in Calls \ Held /\ Held' = Held \cup {c}
      BY <1>0, <2>1, <2>2, <2>3 DEF Held
    <3> QED
      BY <2>1, <3>1, <3>2 DEF SlotStep
  <2>4. CASE granted = FALSE
    <3> HIDE DEF granted
    <3>1. permit' = permit
      BY <1>0, <2>1, <2>2, <2>4
    <3> QED
      BY <1>1, <2>1, <3>1
  <2> QED
    BY <2>1, <2>3, <2>4
<1>6. ASSUME NEW c \in Calls, QueueStart(c) \/ SkipStart(c) PROVE SlotStep
  <2>1. CASE QueueStart(c)
    BY <1>4, <2>1 DEF QueueStart
  <2>2. CASE SkipStart(c)
    BY <1>1, <1>3, <2>2 DEF SkipStart
  <2> QED
    BY <1>6, <2>1, <2>2
<1>7. ASSUME NEW c \in Calls, Observe(c) PROVE SlotStep
  <2>1. revision[c] + 1 \in Nat
    BY <1>0 DEF AccountingTypeOK
  <2> QED
    BY <1>1, <1>4, <1>7, <2>1 DEF Observe
<1>8. ASSUME NEW c \in Calls, Admit(c) \/ Dispatch(c) \/ UpdateAnswer(c) \/ FinishAnswer(c) PROVE SlotStep
  BY <1>1, <1>8 DEF Admit, Dispatch, UpdateAnswer, FinishAnswer
<1>9. ASSUME NEW c \in Calls,
             StartAnswer(c) \/ PrepareFails(c) \/ Headers(c) \/ Interrupted(c) \/ Terminal(c) \/ Broken(c)
             \/ Leave(c)
      PROVE  SlotStep
  BY <1>1, <1>3, <1>9 DEF StartAnswer, PrepareFails, Headers, Interrupted, Interrupt, Terminal, Broken, Leave
<1>10. CASE WorkerStep
  <2>1. CASE Take
    <3>1. queue # <<>> /\ queue' = Tail(queue) /\ permit' = permit
      BY <2>1 DEF Take, callVars
    <3>2. Len(queue') <= Len(queue)
      BY <1>0, <3>1
    <3> QED
      BY <3>1, <3>2 DEF SlotStep, Held
  <2> QED
    BY <1>1, <1>10, <2>1 DEF WorkerStep, Commit, Acknowledge, callVars
<1>11. CASE WorkerFails
  <2>1. queue' = <<>> /\ permit' = permit
    BY <1>11 DEF WorkerFails
  <2>2. Len(queue') <= Len(queue)
    BY <1>0, <2>1
  <2> QED
    BY <2>1, <2>2 DEF SlotStep, Held
<1>12. CASE Restart
  BY <1>12 DEF Restart, SlotStep, Held
<1>13. CASE UNCHANGED accountingVars
  BY <1>1, <1>13 DEF accountingVars
<1> QED
  BY <1>5, <1>6, <1>7, <1>8, <1>9, <1>10, <1>11, <1>12, <1>13 DEF AccountingNext, CallStep

\* A step of the slots does not overrun them.
LEMMA SlotsFit ==
  ASSUME AccountingTypeOK, AccountingTypeOK', QueueFits, SlotStep
  PROVE  QueueFits'
<1>1. /\ IsFiniteSet(Held) /\ Cardinality(Held) \in Nat /\ Capacity \in Nat
      /\ Len(queue) \in Nat /\ Len(queue') \in Nat
  BY FS_CardinalityType, AccountingAssumption DEF QueueFits, AccountingTypeOK
<1>2. Free = Capacity - Len(queue) - Cardinality(Held)
  <2>1. {c \in Calls : permit[c]} = Held
    BY DEF Held, AccountingTypeOK
  <2> QED
    BY <2>1 DEF Free
<1>3. CASE Held' = Held
  BY <1>1, <1>2, <1>3 DEF SlotStep, QueueFits
<1>4. ASSUME NEW c \in Calls \ Held, Held' = Held \cup {c}, queue' = queue, Free > 0 PROVE QueueFits'
  <2>1. IsFiniteSet(Held') /\ Cardinality(Held') = Cardinality(Held) + 1
    BY <1>1, <1>4, FS_AddElement
  <2> QED
    BY <1>1, <1>2, <1>4, <2>1 DEF QueueFits
<1>5. ASSUME NEW c \in Held, Held' = Held \ {c}, Len(queue') <= Len(queue) + 1 PROVE QueueFits'
  <2>1. IsFiniteSet(Held') /\ Cardinality(Held') = Cardinality(Held) - 1
    BY <1>1, <1>5, FS_RemoveElement
  <2> QED
    BY <1>1, <1>5, <2>1 DEF QueueFits
<1>6. CASE Held' = {} /\ queue' = <<>>
  <2>1. IsFiniteSet(Held') /\ Cardinality(Held') = 0 /\ Len(queue') = 0
    BY <1>6, FS_EmptySet
  <2> QED
    BY <1>1, <2>1 DEF QueueFits
<1> QED
  BY <1>3, <1>4, <1>5, <1>6 DEF SlotStep

\* The queue of the usage sink is never overrun: what is queued and what is reserved for
\* final events fits its capacity in every state.
THEOREM QueueAlwaysFits == AccountingSpec => []QueueFits
<1>1. AccountingInit => QueueFits
  <2> SUFFICES ASSUME AccountingInit PROVE QueueFits
    OBVIOUS
  <2>1. Held = {} /\ queue = <<>>
    BY DEF AccountingInit, Held
  <2>2. IsFiniteSet(Held) /\ Cardinality(Held) = 0 /\ Len(queue) = 0
    BY <2>1, FS_EmptySet
  <2> QED
    BY <2>2, AccountingAssumption DEF QueueFits
<1>2. AccountingInv /\ AccountingInv' /\ QueueFits /\ [AccountingNext]_accountingVars => QueueFits'
  BY StepsMoveSlots, SlotsFit DEF AccountingInv
<1> QED
  BY <1>1, <1>2, AccountingInvariant, PTL DEF AccountingSpec

-----------------------------------------------------------------------------
(* Counters and usages.                                                    *)

Counts == 0..MaxU64

Sources == {"reported", "derived", "not_reported", "not_applicable", "invalid"}

Counter == {c \in [value : Counts \cup {NoValue}, source : Sources] : CounterValid(c)}

\* What can stand at a path: a derived or inapplicable counter never does.
PathCounter == {c \in Counter : c.source \notin {"derived", "not_applicable"}}

PathCounters(f) == f = [path \in DOMAIN f |-> f[path]] /\ \A path \in DOMAIN f : f[path] \in PathCounter

\* A usage whose counters are valid, with the reasons given so far.
Sound(u, reasons) ==
    /\ u = [counters |-> u.counters, details |-> u.details, reported |-> u.reported,
            violations |-> u.violations]
    /\ u.counters \in [Fields -> Counter]
    /\ PathCounters(u.details) /\ PathCounters(u.reported)
    /\ u.violations \subseteq reasons

\* The reasons normalize gives.
Given == {"invalid_counter", "input_partition", "total_mismatch", "subset_exceeds_total",
          "ttl_mismatch"}

\* v keeps or invalidates each counter of u, and the rest of u.
Weakens(u, v) ==
    /\ \A f \in Fields : v.counters[f] \in {u.counters[f], Invalid}
    /\ v.details = u.details /\ v.reported = u.reported

PartsFit(u) ==
    /\ \A part \in {"cache_read_input_tokens", "cache_write_input_tokens"} :
          HasValues(u, {part, "input_tokens"}) => Value(u, part) <= Value(u, "input_tokens")
    /\ HasValues(u, {"reasoning_output_tokens", "output_tokens"}) =>
          Value(u, "reasoning_output_tokens") <= Value(u, "output_tokens")

CacheFits(u) ==
    HasValues(u, {"input_tokens", "cache_read_input_tokens", "cache_write_input_tokens"}) =>
       Value(u, "cache_read_input_tokens") + Value(u, "cache_write_input_tokens")
          <= Value(u, "input_tokens")

TotalFits(u) ==
    HasValues(u, {"input_tokens", "output_tokens", "total_tokens"}) =>
       Value(u, "total_tokens") = Value(u, "input_tokens") + Value(u, "output_tokens")

\* A total that was derived stands beside what it was derived from.
DerivedFits(u) ==
    u.counters["total_tokens"].source = "derived" =>
       HasValues(u, {"input_tokens", "output_tokens"})

Underived(u) == u.counters["total_tokens"].source # "derived"

AddsUp(u) == PartsFit(u) /\ CacheFits(u) /\ TotalFits(u) /\ DerivedFits(u)

\* Which counters there are.
LEMMA CounterFacts ==
  /\ NotReported \in PathCounter /\ Invalid \in PathCounter /\ PathCounter \subseteq Counter
  /\ Invalid.value = NoValue /\ NotReported.value = NoValue /\ NoValue \notin Counts
  /\ Invalid.source = "invalid" /\ NotReported.source = "not_reported"
  /\ \A c \in Counter : c.value \in Counts \cup {NoValue}
  /\ \A n \in Counts : Known(n, "derived") \in Counter /\ Known(n, "derived").value = n
  /\ \A n \in Counts : Known(n, "reported") \in PathCounter /\ Known(n, "reported").value = n
  BY ContractAssumption
  DEF NotReported, Invalid, PathCounter, Counter, Counts, Sources, CounterValid, Known, Unknown

\* checked_add: the sum, or nothing at all.
LEMMA CheckedAddFacts ==
  ASSUME NEW a \in Counts \cup {NoValue}, NEW b \in Counts \cup {NoValue}
  PROVE  /\ CheckedAdd(a, b) \in Counts \cup {NoValue}
         /\ CheckedAdd(a, b) # NoValue => a # NoValue /\ b # NoValue /\ CheckedAdd(a, b) = a + b
         /\ Derived(CheckedAdd(a, b)) \in Counter
         /\ Derived(CheckedAdd(a, b)).value = CheckedAdd(a, b)
<1>1. /\ CheckedAdd(a, b) \in Counts \cup {NoValue}
      /\ CheckedAdd(a, b) # NoValue => a # NoValue /\ b # NoValue /\ CheckedAdd(a, b) = a + b
  BY ContractAssumption DEF CheckedAdd, Counts
<1> QED
  BY <1>1, CounterFacts DEF Derived, PathCounter

\* The value of a field of a sound usage.
LEMMA ValueFacts ==
  ASSUME NEW u, NEW reasons, Sound(u, reasons), NEW f \in Fields
  PROVE  Value(u, f) \in Counts \cup {NoValue} /\ u.counters[f] \in Counter
  BY CounterFacts DEF Sound, Value

\* set
LEMMA SetFacts ==
  ASSUME NEW u, NEW reasons, Sound(u, reasons), NEW f \in Fields, NEW c \in Counter
  PROVE  LET v == Set(u, f, c)
         IN  /\ Sound(v, reasons)
             /\ v.counters[f] = c /\ Value(v, f) = c.value
             /\ \A g \in Fields \ {f} : v.counters[g] = u.counters[g] /\ Value(v, g) = Value(u, g)
             /\ v.details = u.details /\ v.reported = u.reported
  BY DEF Sound, Set, Value

\* ... which leaves the total alone when it sets another field.
LEMMA SetKeepsTotal ==
  ASSUME NEW u, NEW reasons, Sound(u, reasons), NEW f, f # "total_tokens", NEW c
  PROVE  Set(u, f, c).counters["total_tokens"] = u.counters["total_tokens"]
<1>1. "total_tokens" \in Fields
  BY DEF Fields
<1> QED
  BY <1>1 DEF Sound, Set

\* Another reason.
LEMMA ViolationFacts ==
  ASSUME NEW u, NEW reasons, Sound(u, reasons), NEW r \in reasons
  PROVE  LET v == Violation(u, r)
         IN  /\ Sound(v, reasons)
             /\ v.counters = u.counters /\ v.details = u.details /\ v.reported = u.reported
             /\ v.violations = u.violations \cup {r}
  BY DEF Sound, Violation

\* set_invalid
LEMMA SetInvalidFacts ==
  ASSUME NEW u, NEW reasons, Sound(u, reasons), NEW f \in Fields, NEW r \in reasons
  PROVE  LET v == SetInvalid(u, f, r)
         IN  /\ Sound(v, reasons) /\ Weakens(u, v)
             /\ Value(v, f) = NoValue
             /\ \A g \in Fields \ {f} : Value(v, g) = Value(u, g)
<1> DEFINE v == SetInvalid(u, f, r)
<1>1. Invalid \in Counter /\ Invalid.value = NoValue
  BY CounterFacts
<1>2. v = [counters |-> [u.counters EXCEPT ![f] = Invalid], details |-> u.details,
           reported |-> u.reported, violations |-> u.violations \cup {r}]
  <2>1. Set(u, f, Invalid) = [counters |-> [u.counters EXCEPT ![f] = Invalid], details |-> u.details,
                              reported |-> u.reported, violations |-> u.violations]
    BY DEF Sound, Set
  <2> QED
    BY <2>1 DEF SetInvalid, Violation
<1>3. Sound(v, reasons)
  <2>1. [u.counters EXCEPT ![f] = Invalid] \in [Fields -> Counter]
    BY <1>1 DEF Sound
  <2> HIDE DEF v
  <2> QED
    BY <1>2, <2>1 DEF Sound
<1>4. /\ v.counters[f] = Invalid /\ v.details = u.details /\ v.reported = u.reported
      /\ \A g \in Fields \ {f} : v.counters[g] = u.counters[g]
  <2> HIDE DEF v
  <2> QED
    BY <1>2 DEF Sound
<1> HIDE DEF v
<1>5. Weakens(u, v)
  BY <1>4 DEF Weakens
<1>6. Value(v, f) = NoValue /\ \A g \in Fields \ {f} : Value(v, g) = Value(u, g)
  BY <1>1, <1>4 DEF Value
<1> QED
  BY <1>3, <1>5, <1>6 DEF v

-----------------------------------------------------------------------------
(* The rules.                                                              *)

\* What has been established is not lost when counters are invalidated.
LEMMA WeakeningKeeps ==
  ASSUME NEW u, NEW v, Weakens(u, v)
  PROVE  /\ \A f \in Fields : Value(v, f) \in {Value(u, f), NoValue}
         /\ PartsFit(u) => PartsFit(v)
         /\ CacheFits(u) => CacheFits(v)
         /\ TotalFits(u) => TotalFits(v)
         /\ Underived(u) => Underived(v)
<1>1. \A f \in Fields : Value(v, f) \in {Value(u, f), NoValue}
  BY CounterFacts DEF Weakens, Value
<1>2. PartsFit(u) => PartsFit(v)
  BY <1>1 DEF PartsFit, HasValues, Fields
<1>3. CacheFits(u) => CacheFits(v)
  BY <1>1 DEF CacheFits, HasValues, Fields
<1>4. TotalFits(u) => TotalFits(v)
  BY <1>1 DEF TotalFits, HasValues, Fields
<1>5. Underived(u) => Underived(v)
  BY CounterFacts DEF Underived, Weakens, Fields
<1> QED
  BY <1>1, <1>2, <1>3, <1>4, <1>5

\* Invalidating twice is invalidating.
LEMMA WeakeningTwice ==
  ASSUME NEW u, NEW v, NEW w, Weakens(u, v), Weakens(v, w)
  PROVE  Weakens(u, w)
  BY DEF Weakens

\* Nothing invalidated.
LEMMA WeakeningNone ==
  ASSUME NEW u
  PROVE  Weakens(u, u)
  BY DEF Weakens

\* A part that exceeds its total is invalidated.
LEMMA SubsetRuleFacts ==
  ASSUME NEW u, NEW reasons, Sound(u, reasons), "subset_exceeds_total" \in reasons,
         NEW field \in Fields, NEW parent \in Fields, field # parent
  PROVE  LET v == SubsetRule(u, field, parent)
         IN  /\ Sound(v, reasons) /\ Weakens(u, v)
             /\ HasValues(v, {field, parent}) => Value(v, field) <= Value(v, parent)
             /\ \A g \in Fields \ {field} : Value(v, g) = Value(u, g)
<1> DEFINE v == SubsetRule(u, field, parent)
           bad == HasValues(u, {field, parent}) /\ Value(u, field) > Value(u, parent)
<1>1. CASE bad
  <2>1. v = SetInvalid(u, field, "subset_exceeds_total")
    BY <1>1 DEF SubsetRule
  <2>2. /\ Sound(v, reasons) /\ Weakens(u, v) /\ Value(v, field) = NoValue
        /\ \A g \in Fields \ {field} : Value(v, g) = Value(u, g)
    BY <2>1, SetInvalidFacts
  <2> HIDE DEF v
  <2> QED
    BY <2>2 DEF HasValues, v
<1>2. CASE ~bad
  <2>1. v = u
    BY <1>2 DEF SubsetRule
  <2>2. Value(u, field) \in Counts \cup {NoValue} /\ Value(u, parent) \in Counts \cup {NoValue}
    BY ValueFacts
  <2>3. HasValues(u, {field, parent}) => Value(u, field) <= Value(u, parent)
    BY <1>2, <2>2, ContractAssumption DEF HasValues, Counts
  <2> HIDE DEF v
  <2> QED
    BY <2>1, <2>3, WeakeningNone DEF v
<1> QED
  BY <1>1, <1>2

LEMMA SubsetRulesFacts ==
  ASSUME NEW u, NEW reasons, Sound(u, reasons), "subset_exceeds_total" \in reasons
  PROVE  LET v == SubsetRules(u)
         IN  /\ Sound(v, reasons) /\ Weakens(u, v) /\ PartsFit(v)
             /\ \A g \in {"input_tokens", "output_tokens", "total_tokens", "input_regular_tokens"} :
                   Value(v, g) = Value(u, g)
<1> DEFINE a == SubsetRule(u, "cache_read_input_tokens", "input_tokens")
           b == SubsetRule(a, "cache_write_input_tokens", "input_tokens")
           c == SubsetRule(b, "reasoning_output_tokens", "output_tokens")
<1>0. /\ "cache_read_input_tokens" \in Fields /\ "cache_write_input_tokens" \in Fields
      /\ "reasoning_output_tokens" \in Fields /\ "output_tokens" \in Fields
      /\ "input_tokens" \in Fields /\ "total_tokens" \in Fields /\ "input_regular_tokens" \in Fields
  BY DEF Fields
<1>1. /\ Sound(a, reasons) /\ Weakens(u, a)
      /\ HasValues(a, {"cache_read_input_tokens", "input_tokens"})
            => Value(a, "cache_read_input_tokens") <= Value(a, "input_tokens")
      /\ \A g \in Fields \ {"cache_read_input_tokens"} : Value(a, g) = Value(u, g)
  BY <1>0, SubsetRuleFacts
<1> HIDE DEF a
<1>2. /\ Sound(b, reasons) /\ Weakens(a, b)
      /\ HasValues(b, {"cache_write_input_tokens", "input_tokens"})
            => Value(b, "cache_write_input_tokens") <= Value(b, "input_tokens")
      /\ \A g \in Fields \ {"cache_write_input_tokens"} : Value(b, g) = Value(a, g)
  BY <1>0, <1>1, SubsetRuleFacts
<1> HIDE DEF b
<1>3. /\ Sound(c, reasons) /\ Weakens(b, c)
      /\ HasValues(c, {"reasoning_output_tokens", "output_tokens"})
            => Value(c, "reasoning_output_tokens") <= Value(c, "output_tokens")
      /\ \A g \in Fields \ {"reasoning_output_tokens"} : Value(c, g) = Value(b, g)
  BY <1>0, <1>2, SubsetRuleFacts
<1> HIDE DEF c
<1>4. Weakens(u, c)
  BY <1>1, <1>2, <1>3, WeakeningTwice
<1>5. PartsFit(c)
  BY <1>0, <1>1, <1>2, <1>3 DEF PartsFit, HasValues
<1>6. \A g \in {"input_tokens", "output_tokens", "total_tokens", "input_regular_tokens"} :
         Value(c, g) = Value(u, g)
  BY <1>0, <1>1, <1>2, <1>3
<1>7. SubsetRules(u) = c
  BY DEF SubsetRules, a, b, c
<1> QED
  BY <1>3, <1>4, <1>5, <1>6, <1>7

\* The fields the rules name.
LEMMA FieldNames ==
  /\ "input_tokens" \in Fields /\ "output_tokens" \in Fields /\ "total_tokens" \in Fields
  /\ "input_regular_tokens" \in Fields /\ "cache_read_input_tokens" \in Fields
  /\ "cache_write_input_tokens" \in Fields /\ "reasoning_output_tokens" \in Fields
  BY DEF Fields

\* Cache reads and writes that exceed the input are both invalidated.
LEMMA PartitionRuleFacts ==
  ASSUME NEW u, NEW p, NEW reasons, Sound(u, reasons), "input_partition" \in reasons
  PROVE  LET v == PartitionRule(p, u)
         IN  /\ Sound(v, reasons) /\ CacheFits(v)
             /\ v.details = u.details /\ v.reported = u.reported
             /\ Underived(u) => Underived(v)
<1> DEFINE v == PartitionRule(p, u)
           in == Value(u, "input_tokens")
           cr == Value(u, "cache_read_input_tokens")
           cw == Value(u, "cache_write_input_tokens")
           all == HasValues(u, {"input_tokens", "cache_read_input_tokens", "cache_write_input_tokens"})
           a == SetInvalid(u, "cache_read_input_tokens", "input_partition")
           b == SetInvalid(a, "cache_write_input_tokens", "input_partition")
           c == Set(u, "input_regular_tokens", Derived(in - cr - cw))
<1>1. /\ in \in Counts \cup {NoValue} /\ cr \in Counts \cup {NoValue} /\ cw \in Counts \cup {NoValue}
  BY FieldNames, ValueFacts
<1>2. all <=> in # NoValue /\ cr # NoValue /\ cw # NoValue
  BY DEF HasValues
<1>3. CASE ~all
  <2>1. v = u
    BY <1>3 DEF PartitionRule
  <2> QED
    BY <1>3, <2>1 DEF CacheFits
<1>4. CASE all /\ in - cr - cw < 0
  <2>1. v = b
    BY <1>4 DEF PartitionRule
  <2>2. Sound(a, reasons) /\ Weakens(u, a)
    BY FieldNames, SetInvalidFacts
  <2> HIDE DEF a
  <2>3. Sound(b, reasons) /\ Weakens(a, b) /\ Value(b, "cache_write_input_tokens") = NoValue
    BY <2>2, FieldNames, SetInvalidFacts
  <2> HIDE DEF b
  <2>4. CacheFits(b)
    BY <2>3 DEF CacheFits, HasValues
  <2>5. Underived(u) => Underived(b)
    BY <2>2, <2>3, WeakeningKeeps
  <2> HIDE DEF v
  <2> QED
    BY <2>1, <2>2, <2>3, <2>4, <2>5 DEF Weakens, v
<1>5. CASE all /\ ~(in - cr - cw < 0)
  <2>1. in - cr - cw \in Counts /\ cr + cw <= in
    BY <1>1, <1>2, <1>5, ContractAssumption DEF Counts
  <2>2. CacheFits(u)
    BY <2>1 DEF CacheFits
  <2>3. CASE p = "messages/v1"
    <3>1. v = u
      BY <1>5, <2>3 DEF PartitionRule
    <3> QED
      BY <2>2, <3>1
  <2>4. CASE p # "messages/v1"
    <3>1. v = c
      BY <1>5, <2>4 DEF PartitionRule
    <3>2. Derived(in - cr - cw) \in Counter
      BY <2>1, CounterFacts DEF Derived
    <3>3. /\ Sound(c, reasons) /\ c.details = u.details /\ c.reported = u.reported
          /\ \A g \in Fields \ {"input_regular_tokens"} : Value(c, g) = Value(u, g)
      BY <3>2, FieldNames, SetFacts
    <3>5. c.counters["total_tokens"] = u.counters["total_tokens"]
      BY SetKeepsTotal
    <3> HIDE DEF c
    <3>4. CacheFits(c)
      BY <2>2, <3>3, FieldNames DEF CacheFits, HasValues
    <3> HIDE DEF v
    <3> QED
      BY <3>1, <3>3, <3>4, <3>5 DEF v, Underived
  <2> QED
    BY <2>3, <2>4
<1> QED
  BY <1>3, <1>4, <1>5

\* A total that is not the sum is invalidated, a missing one is derived.
LEMMA TotalRuleFacts ==
  ASSUME NEW u, NEW reasons, Sound(u, reasons), "total_mismatch" \in reasons
  PROVE  LET v == TotalRule(u)
         IN  /\ Sound(v, reasons) /\ TotalFits(v)
             /\ v.details = u.details /\ v.reported = u.reported
             /\ \A g \in Fields \ {"total_tokens"} : Value(v, g) = Value(u, g)
             /\ Underived(u) => DerivedFits(v)
<1> DEFINE v == TotalRule(u)
           in == Value(u, "input_tokens")
           ou == Value(u, "output_tokens")
           sum == CheckedAdd(in, ou)
           total == u.counters["total_tokens"]
           both == HasValues(u, {"input_tokens", "output_tokens"})
<1>1. in \in Counts \cup {NoValue} /\ ou \in Counts \cup {NoValue} /\ total \in Counter
  BY FieldNames, ValueFacts
<1>2. /\ sum \in Counts \cup {NoValue} /\ Derived(sum) \in Counter /\ Derived(sum).value = sum
      /\ sum # NoValue => sum = in + ou
  BY <1>1, CheckedAddFacts
<1> HIDE DEF sum
<1>3. CASE ~both
  <2>1. v = u
    BY <1>3 DEF TotalRule
  <2> QED
    BY <1>3, <2>1 DEF TotalFits, HasValues, Underived, DerivedFits
<1>4. CASE both /\ total.value # NoValue /\ total.value # sum
  <2>1. v = SetInvalid(u, "total_tokens", "total_mismatch")
    BY <1>4 DEF TotalRule, sum
  <2>2. /\ Sound(v, reasons) /\ Weakens(u, v) /\ Value(v, "total_tokens") = NoValue
        /\ \A g \in Fields \ {"total_tokens"} : Value(v, g) = Value(u, g)
    BY <2>1, FieldNames, SetInvalidFacts
  <2> HIDE DEF v
  <2>3. Underived(u) => Underived(v)
    BY <2>2, WeakeningKeeps
  <2> QED
    BY <2>2, <2>3 DEF TotalFits, HasValues, Weakens, Underived, DerivedFits, v
<1>5. CASE both /\ ~(total.value # NoValue /\ total.value # sum) /\ total = NotReported
  <2>1. v = Set(u, "total_tokens", Derived(sum))
    BY <1>5 DEF TotalRule, sum
  <2>2. /\ Sound(v, reasons) /\ v.details = u.details /\ v.reported = u.reported
        /\ Value(v, "total_tokens") = sum
        /\ \A g \in Fields \ {"total_tokens"} : Value(v, g) = Value(u, g)
    <3> DEFINE c == Derived(sum)
    <3>1. c \in Counter /\ c.value = sum
      BY <1>2
    <3> HIDE DEF c
    <3>2. "total_tokens" \in Fields
      BY FieldNames
    <3>3. Value(Set(u, "total_tokens", c), "total_tokens") = c.value
      BY <3>1, <3>2, SetFacts
    <3>4. Sound(Set(u, "total_tokens", c), reasons)
      BY <3>1, <3>2, SetFacts
    <3>5. /\ Set(u, "total_tokens", c).details = u.details
          /\ Set(u, "total_tokens", c).reported = u.reported
      BY <3>1, <3>2, SetFacts
    <3>6. \A g \in Fields \ {"total_tokens"} : Value(Set(u, "total_tokens", c), g) = Value(u, g)
      BY <3>1, <3>2, SetFacts
    <3> QED
      BY <2>1, <3>1, <3>3, <3>4, <3>5, <3>6 DEF c
  <2> HIDE DEF v
  <2>3. DerivedFits(v)
    BY <1>5, <2>2, FieldNames DEF DerivedFits, HasValues
  <2> QED
    BY <1>2, <2>2, <2>3, FieldNames DEF TotalFits, HasValues, v
<1>6. CASE both /\ ~(total.value # NoValue /\ total.value # sum) /\ total # NotReported
  <2>1. v = u
    BY <1>6 DEF TotalRule, sum
  <2>2. TotalFits(u)
    BY <1>2, <1>6 DEF TotalFits, HasValues, Value
  <2> QED
    BY <2>1, <2>2 DEF Underived, DerivedFits
<1> QED
  BY <1>3, <1>4, <1>5, <1>6

-----------------------------------------------------------------------------
(* normalize.                                                              *)

\* Read yields a counter that can stand at a path.
LEMMA ReadFacts ==
  ASSUME NEW json
  PROVE  Read(json) \in PathCounter
<1>1. CASE json = Null
  BY <1>1, CounterFacts, ContractAssumption DEF Read
<1>2. CASE json # Null /\ json \in Values
  BY <1>2, CounterFacts, ContractAssumption DEF Read, Counts
<1>3. CASE json # Null /\ json \notin Values
  BY <1>3, CounterFacts DEF Read
<1> QED
  BY <1>1, <1>2, <1>3

\* The paths mapped to fields.
LEMMA FromPathsFacts ==
  ASSUME NEW p, NEW rep, PathCounters(rep)
  PROVE  LET u == FromPaths(p, rep)
         IN  Sound(u, Given) /\ u.reported = rep /\ u.details = <<>> /\ Underived(u)
<1> DEFINE read == (DOMAIN rep) \cap DOMAIN Paths[p]
           used == IF "prompt_cache_hit_tokens" \in read THEN read \ {"cached_tokens"} ELSE read
           m == Mapped(p, rep)
           u == [counters |-> m, details |-> <<>>, reported |-> rep, violations |-> {}]
<1>1. m = [f \in Fields |-> IF \E path \in used : Paths[p][path] = f
                            THEN rep[CHOOSE path \in used : Paths[p][path] = f]
                            ELSE NotReported]
  BY DEF Mapped
<1>2. m \in [Fields -> PathCounter]
  <2> SUFFICES ASSUME NEW f \in Fields PROVE m[f] \in PathCounter
    BY <1>1
  <2>1. CASE \E path \in used : Paths[p][path] = f
    <3> DEFINE q == CHOOSE path \in used : Paths[p][path] = f
    <3>1. q \in used
      BY <2>1
    <3>2. q \in DOMAIN rep
      BY <3>1
    <3>3. m[f] = rep[q]
      BY <1>1, <2>1
    <3> HIDE DEF q
    <3> QED
      BY <3>2, <3>3, CounterFacts DEF PathCounters
  <2>2. CASE ~\E path \in used : Paths[p][path] = f
    BY <1>1, <2>2, CounterFacts
  <2> QED
    BY <2>1, <2>2
<1> HIDE DEF m
<1>3. PathCounters(<<>>)
  BY DEF PathCounters
<1>4. Sound(u, Given)
  <2>1. m \in [Fields -> Counter]
    BY <1>2, CounterFacts
  <2> QED
    BY <1>3, <2>1 DEF Sound
<1>5. u.reported = rep /\ u.details = <<>> /\ Underived(u)
  BY <1>2, FieldNames DEF Underived, PathCounter
<1>6. FromPaths(p, rep) \in {u, Violation(u, "invalid_counter")}
  BY DEF FromPaths, m
<1> HIDE DEF u
<1> QED
  BY <1>4, <1>5, <1>6, ViolationFacts DEF Given, Underived

\* A value at a path.
LEMMA ReportedValueFacts ==
  ASSUME NEW u, NEW reasons, Sound(u, reasons), NEW path
  PROVE  ReportedValue(u, path) \in Counts \cup {NoValue}
  BY CounterFacts DEF Sound, PathCounters, ReportedValue

\* What each profile's rules keep, whatever the reasons they may give.
LEMMA DeepSeekFacts ==
  ASSUME NEW u, NEW reasons, Sound(u, reasons), Given \subseteq reasons,
         "cache_alias_mismatch" \in reasons
  PROVE  /\ Sound(DeepSeekRules(u), reasons) /\ DeepSeekRules(u).reported = u.reported
         /\ Underived(u) => Underived(DeepSeekRules(u))
<1> DEFINE a == SetInvalid(u, "cache_read_input_tokens", "cache_alias_mismatch")
           alias == ReportedValue(u, "cached_tokens")
           hit == ReportedValue(u, "prompt_cache_hit_tokens")
           v == IF NoValue \notin {alias, hit} /\ alias # hit THEN a ELSE u
           b == SetInvalid(v, "input_regular_tokens", "input_partition")
<1>0. Sound(a, reasons) /\ Weakens(u, a)
  BY FieldNames, SetInvalidFacts
<1> HIDE DEF a
<1>1. Sound(v, reasons) /\ v.reported = u.reported /\ (Underived(u) => Underived(v))
  BY <1>0, WeakeningKeeps DEF Weakens
<1> HIDE DEF v
<1>2. Sound(b, reasons) /\ Weakens(v, b)
  BY <1>1, FieldNames, SetInvalidFacts DEF Given
<1>4. b.reported = v.reported /\ (Underived(v) => Underived(b))
  BY <1>2, WeakeningKeeps DEF Weakens
<1> HIDE DEF b
<1>3. DeepSeekRules(u) \in {v, b}
  BY DEF DeepSeekRules, v, a, b
<1> QED
  BY <1>1, <1>2, <1>3, <1>4

\* Thinking is part of the output, which needs both.
LEMMA GeminiFacts ==
  ASSUME NEW u, NEW reasons, Sound(u, reasons)
  PROVE  /\ Sound(GeminiRules(u), reasons) /\ GeminiRules(u).reported = u.reported
         /\ Underived(u) => Underived(GeminiRules(u))
<1> DEFINE sum == CheckedAdd(Value(u, "output_tokens"), Value(u, "reasoning_output_tokens"))
           c == IF HasValues(u, {"output_tokens", "reasoning_output_tokens"})
                THEN Derived(sum) ELSE NotReported
<1>1. Derived(sum) \in Counter
  BY FieldNames, ValueFacts, CheckedAddFacts
<1>2. c \in Counter
  BY <1>1, CounterFacts
<1>3. GeminiRules(u) = Set(u, "output_tokens", c)
  BY DEF GeminiRules
<1> HIDE DEF c
<1>4. "output_tokens" \in Fields
  BY FieldNames
<1>5. Sound(Set(u, "output_tokens", c), reasons)
  BY <1>2, <1>4, SetFacts
<1>6. Set(u, "output_tokens", c).reported = u.reported
  BY <1>2, <1>4, SetFacts
<1>7. Set(u, "output_tokens", c).counters["total_tokens"] = u.counters["total_tokens"]
  BY SetKeepsTotal
<1> QED
  BY <1>3, <1>5, <1>6, <1>7 DEF Underived

\* The details are those of its reported lifetimes.
LEMMA MessagesFacts ==
  ASSUME NEW u, NEW reasons, Sound(u, reasons), Given \subseteq reasons
  PROVE  /\ Sound(MessagesRules(u), reasons) /\ MessagesRules(u).reported = u.reported
         /\ Underived(u) => Underived(MessagesRules(u))
<1> DEFINE sum3 == CheckedSum(Value(u, "input_regular_tokens"), Value(u, "cache_read_input_tokens"),
                              Value(u, "cache_write_input_tokens"))
           summed == IF HasValues(u, {"input_regular_tokens", "cache_read_input_tokens",
                                      "cache_write_input_tokens"})
                     THEN Set(u, "input_tokens", Derived(sum3)) ELSE u
           ttl == TtlPaths \cap DOMAIN u.reported
           d == [path \in ttl |-> u.reported[path]]
           v == [summed EXCEPT !.details = d]
           b == SetInvalid(v, "cache_write_input_tokens", "ttl_mismatch")
<1>1. Derived(sum3) \in Counter
  BY FieldNames, ValueFacts, CheckedAddFacts DEF CheckedSum
<1>2. Sound(summed, reasons) /\ summed.reported = u.reported
  BY <1>1, FieldNames, SetFacts
<1>9. summed.counters["total_tokens"] = u.counters["total_tokens"]
  BY SetKeepsTotal
<1>3. PathCounters(d)
  BY DEF Sound, PathCounters
<1> HIDE DEF summed, d
<1>4. v = [counters |-> summed.counters, details |-> d, reported |-> summed.reported,
           violations |-> summed.violations]
  BY <1>2 DEF Sound
<1>5. Sound(v, reasons) /\ v.reported = u.reported /\ (Underived(u) => Underived(v))
  <2> HIDE DEF v
  <2> QED
    BY <1>2, <1>3, <1>4, <1>9 DEF Sound, Underived
<1>6. MessagesRules(u) \in {v, b}
  BY DEF MessagesRules, summed, d
<1> HIDE DEF v
<1>7. Sound(b, reasons) /\ Weakens(v, b)
  BY <1>5, FieldNames, SetInvalidFacts DEF Given
<1> HIDE DEF b
<1>8. b.reported = v.reported /\ (Underived(v) => Underived(b))
  BY <1>7, WeakeningKeeps DEF Weakens
<1> QED
  BY <1>5, <1>6, <1>7, <1>8

\* normalize gives known reasons and leaves counters that add up.
LEMMA NormalizeFacts ==
  ASSUME NEW p, NEW rep, PathCounters(rep), NEW reasons, Given \subseteq reasons,
         p = "deepseek/v1" => "cache_alias_mismatch" \in reasons
  PROVE  LET n == Normalize(p, rep)
         IN  Sound(n, reasons) /\ AddsUp(n) /\ n.reported = rep
<1> DEFINE u == FromPaths(p, rep)
           v == CASE p = "deepseek/v1"            -> DeepSeekRules(u)
                  [] p = "gemini_interactions/v1" -> GeminiRules(u)
                  [] p = "messages/v1"            -> MessagesRules(u)
                  [] OTHER                        -> u
           x == PartitionRule(p, v)
           y == SubsetRules(x)
           w == TotalRule(y)
           n == IF AnyInvalid(w) THEN Violation(w, "invalid_counter") ELSE w
<1>0. /\ "invalid_counter" \in reasons /\ "input_partition" \in reasons
      /\ "total_mismatch" \in reasons /\ "subset_exceeds_total" \in reasons
  BY DEF Given
<1>1. Sound(u, reasons) /\ u.reported = rep /\ Underived(u)
  BY FromPathsFacts DEF Sound
<1>2. Sound(v, reasons) /\ v.reported = rep /\ Underived(v)
  <2> HIDE DEF u
  <2>1. CASE p = "deepseek/v1"
    BY <1>1, <2>1, DeepSeekFacts
  <2>2. CASE p = "gemini_interactions/v1"
    BY <1>1, <2>2, GeminiFacts
  <2>3. CASE p = "messages/v1"
    BY <1>1, <2>3, MessagesFacts
  <2>4. CASE p \notin {"deepseek/v1", "gemini_interactions/v1", "messages/v1"}
    BY <1>1, <2>4
  <2> QED
    BY <2>1, <2>2, <2>3, <2>4
<1>3. Normalize(p, rep) = n
  BY DEF Normalize
<1> HIDE DEF v
<1>4. Sound(x, reasons) /\ CacheFits(x) /\ x.reported = rep /\ Underived(x)
  BY <1>0, <1>2, PartitionRuleFacts
<1> HIDE DEF x
<1>5. Sound(y, reasons) /\ Weakens(x, y) /\ PartsFit(y)
  BY <1>0, <1>4, SubsetRulesFacts
<1>6. CacheFits(y) /\ y.reported = rep /\ Underived(y)
  BY <1>4, <1>5, WeakeningKeeps DEF Weakens
<1> HIDE DEF y
<1>7. /\ Sound(w, reasons) /\ TotalFits(w) /\ w.reported = rep
      /\ DerivedFits(w)
      /\ \A g \in Fields \ {"total_tokens"} : Value(w, g) = Value(y, g)
  BY <1>0, <1>5, <1>6, TotalRuleFacts
<1> HIDE DEF w
<1>8. PartsFit(w) /\ CacheFits(w)
  BY <1>5, <1>6, <1>7, FieldNames DEF PartsFit, CacheFits, HasValues
<1>9. Sound(n, reasons) /\ n.reported = rep /\ n.counters = w.counters
  BY <1>0, <1>7, ViolationFacts
<1> HIDE DEF n
<1>10. \A f : Value(n, f) = Value(w, f)
  BY <1>9 DEF Value
<1>11. AddsUp(n)
  BY <1>7, <1>8, <1>9, <1>10 DEF AddsUp, PartsFit, CacheFits, TotalFits, DerivedFits, HasValues
<1> QED
  BY <1>3, <1>9, <1>11

-----------------------------------------------------------------------------
(* The typed snapshot of a plugin.                                         *)

\* What a plugin may say of a field.
LEMMA SnapshotCounterFacts == SnapshotCounters \subseteq Counter
<1>1. Unknown("not_applicable") \in Counter
  BY DEF Unknown, Counter, Counts, Sources, CounterValid
<1> QED
  BY <1>1, CounterFacts, ContractAssumption DEF SnapshotCounters, Counts

\* The plugin's total: its sum must exist.
LEMMA PluginTotalFacts ==
  ASSUME NEW u, NEW reasons, Sound(u, reasons), "total_mismatch" \in reasons
  PROVE  LET v == PluginTotal(u)
         IN  /\ Sound(v, reasons) /\ TotalFits(v)
             /\ v.details = u.details /\ v.reported = u.reported
             /\ Underived(u) => DerivedFits(v)
<1> DEFINE v == PluginTotal(u)
           in == Value(u, "input_tokens")
           ou == Value(u, "output_tokens")
           sum == CheckedAdd(in, ou)
           total == u.counters["total_tokens"]
           both == HasValues(u, {"input_tokens", "output_tokens"})
           bad == sum = NoValue \/ (total.value # NoValue /\ total.value # sum)
<1>1. in \in Counts \cup {NoValue} /\ ou \in Counts \cup {NoValue} /\ total \in Counter
  BY FieldNames, ValueFacts
<1>2. /\ sum \in Counts \cup {NoValue} /\ Derived(sum) \in Counter /\ Derived(sum).value = sum
      /\ sum # NoValue => sum = in + ou
  BY <1>1, CheckedAddFacts
<1> HIDE DEF sum
<1>3. CASE ~both
  <2>1. v = u
    BY <1>3 DEF PluginTotal
  <2> QED
    BY <1>3, <2>1 DEF TotalFits, HasValues, Underived, DerivedFits
<1>4. CASE both /\ bad
  <2>1. v = SetInvalid(u, "total_tokens", "total_mismatch")
    BY <1>4 DEF PluginTotal, sum
  <2>2. Sound(v, reasons) /\ Weakens(u, v) /\ Value(v, "total_tokens") = NoValue
    BY <2>1, FieldNames, SetInvalidFacts
  <2> HIDE DEF v
  <2>3. Underived(u) => Underived(v)
    BY <2>2, WeakeningKeeps
  <2> QED
    BY <2>2, <2>3 DEF TotalFits, HasValues, Weakens, Underived, DerivedFits, v
<1>5. CASE both /\ ~bad /\ total = NotReported
  <2> DEFINE c == Derived(sum)
  <2>1. v = Set(u, "total_tokens", c)
    BY <1>5 DEF PluginTotal, sum
  <2>2. c \in Counter /\ c.value = sum /\ "total_tokens" \in Fields
    BY <1>2, FieldNames
  <2> HIDE DEF c
  <2>3. Value(Set(u, "total_tokens", c), "total_tokens") = c.value
    BY <2>2, SetFacts
  <2>4. Sound(Set(u, "total_tokens", c), reasons)
    BY <2>2, SetFacts
  <2>5. /\ Set(u, "total_tokens", c).details = u.details
        /\ Set(u, "total_tokens", c).reported = u.reported
    BY <2>2, SetFacts
  <2>6. \A g \in Fields \ {"total_tokens"} : Value(Set(u, "total_tokens", c), g) = Value(u, g)
    BY <2>2, SetFacts
  <2> HIDE DEF v
  <2>7. TotalFits(v)
    BY <1>2, <2>1, <2>2, <2>3, <2>6, FieldNames DEF TotalFits, HasValues
  <2>8. DerivedFits(v)
    BY <1>5, <2>1, <2>6, FieldNames DEF DerivedFits, HasValues
  <2> QED
    BY <2>1, <2>4, <2>5, <2>7, <2>8 DEF v
<1>6. CASE both /\ ~bad /\ total # NotReported
  <2>1. v = u
    BY <1>6 DEF PluginTotal, sum
  <2>2. TotalFits(u)
    BY <1>2, <1>6 DEF TotalFits, HasValues, Value
  <2> QED
    BY <2>1, <2>2 DEF Underived, DerivedFits
<1> QED
  BY <1>3, <1>4, <1>5, <1>6

\* The sum of the known parts of the input bounds its cache parts.
LEMMA PartSumFacts ==
  ASSUME NEW u, NEW reasons, Sound(u, reasons)
  PROVE  /\ PartSum(u) \in Counts \cup {NoValue}
         /\ /\ PartSum(u) # NoValue
            /\ HasValues(u, {"cache_read_input_tokens", "cache_write_input_tokens"})
            => Value(u, "cache_read_input_tokens") + Value(u, "cache_write_input_tokens")
                  <= PartSum(u)
<1> DEFINE Or0(f) == IF Value(u, f) = NoValue THEN 0 ELSE Value(u, f)
           r == Or0("input_regular_tokens")
           cr == Or0("cache_read_input_tokens")
           cw == Or0("cache_write_input_tokens")
           s == CheckedAdd(r, cr)
<1>1. r \in Counts /\ cr \in Counts /\ cw \in Counts
  BY FieldNames, ValueFacts, ContractAssumption DEF Counts
<1>2. PartSum(u) = CheckedAdd(s, cw)
  BY DEF PartSum, InputParts, CheckedSum
<1>3. HasValues(u, {"cache_read_input_tokens", "cache_write_input_tokens"}) =>
         /\ cr = Value(u, "cache_read_input_tokens")
         /\ cw = Value(u, "cache_write_input_tokens")
  BY DEF HasValues
<1> HIDE DEF r, cr, cw
<1>4. s \in Counts \cup {NoValue} /\ (s # NoValue => s = r + cr)
  BY <1>1, CheckedAddFacts
<1> HIDE DEF s
<1>5. /\ CheckedAdd(s, cw) \in Counts \cup {NoValue}
      /\ CheckedAdd(s, cw) # NoValue => s # NoValue /\ CheckedAdd(s, cw) = s + cw
  BY <1>1, <1>4, CheckedAddFacts
<1> QED
  BY <1>1, <1>2, <1>3, <1>4, <1>5 DEF Counts

\* Some counters are taken away, for a reason.
LEMMA InvalidateFacts ==
  ASSUME NEW u, NEW reasons, Sound(u, reasons), NEW lost, NEW r \in reasons
  PROVE  LET v == Invalidate(u, lost, r)
         IN  /\ Sound(v, reasons) /\ Weakens(u, v)
             /\ \A f \in Fields \cap lost : v.counters[f] = Invalid /\ Value(v, f) = NoValue
             /\ \A f \in Fields \ lost : v.counters[f] = u.counters[f] /\ Value(v, f) = Value(u, f)
<1> DEFINE m == [f \in Fields |-> IF f \in lost THEN Invalid ELSE u.counters[f]]
           v == [u EXCEPT !.counters = m]
           w == Violation(v, r)
<1>1. Invalidate(u, lost, r) = IF lost = {} THEN u ELSE w
  BY DEF Invalidate
<1>2. m \in [Fields -> Counter]
  BY CounterFacts DEF Sound
<1>3. /\ \A f \in Fields \cap lost : m[f] = Invalid
      /\ \A f \in Fields \ lost : m[f] = u.counters[f]
  OBVIOUS
<1> HIDE DEF m
<1>4. v = [counters |-> m, details |-> u.details, reported |-> u.reported,
           violations |-> u.violations]
  BY DEF Sound
<1> HIDE DEF v
<1>5. Sound(v, reasons)
  BY <1>2, <1>4 DEF Sound
<1>6. /\ Sound(w, reasons) /\ w.counters = v.counters
      /\ w.details = v.details /\ w.reported = v.reported
  BY <1>5, ViolationFacts
<1> HIDE DEF w
<1>7. Weakens(u, w)
  BY <1>3, <1>4, <1>6 DEF Weakens
<1>8. /\ \A f \in Fields \cap lost : w.counters[f] = Invalid /\ Value(w, f) = NoValue
      /\ \A f \in Fields \ lost : w.counters[f] = u.counters[f] /\ Value(w, f) = Value(u, f)
  BY <1>3, <1>4, <1>6, CounterFacts DEF Value
<1>9. CASE lost = {}
  BY <1>1, <1>9, WeakeningNone
<1>10. CASE lost # {}
  BY <1>1, <1>6, <1>7, <1>8, <1>10
<1> QED
  BY <1>9, <1>10

\* The partition rule takes the input away, its parts, and a total derived from it.
LEMMA InvalidateInputFacts ==
  ASSUME NEW u, NEW reasons, Sound(u, reasons), "input_partition" \in reasons
  PROVE  LET v == InvalidateInput(u)
         IN  /\ Sound(v, reasons) /\ Weakens(u, v)
             /\ Value(v, "input_tokens") = NoValue /\ Underived(v)
<1> DEFINE lost == {f \in {"input_tokens"} \union {InputParts[i] : i \in 1..3} :
                       Value(u, f) # NoValue}
                     \union {f \in {"total_tokens"} : u.counters[f].source = "derived"}
           v == Invalidate(u, lost, "input_partition")
<1>1. InvalidateInput(u) = v
  BY DEF InvalidateInput
<1>2. /\ Value(u, "input_tokens") # NoValue => "input_tokens" \in lost
      /\ ~Underived(u) => "total_tokens" \in lost
  BY DEF Underived
<1> HIDE DEF lost
<1>3. /\ Sound(v, reasons) /\ Weakens(u, v)
      /\ \A f \in Fields \cap lost : v.counters[f] = Invalid /\ Value(v, f) = NoValue
      /\ \A f \in Fields \ lost : v.counters[f] = u.counters[f] /\ Value(v, f) = Value(u, f)
  BY InvalidateFacts
<1> HIDE DEF v
<1>4. Value(v, "input_tokens") = NoValue
  BY <1>2, <1>3, FieldNames
<1>5. Underived(v)
  BY <1>2, <1>3, FieldNames, CounterFacts DEF Underived
<1> QED
  BY <1>1, <1>3, <1>4, <1>5

\* What the parts of the input must satisfy beside it.
PartitionFits(u) ==
    HasValues(u, {"input_tokens"}) =>
       /\ PartSum(u) # NoValue
       /\ PartSum(u) <= Value(u, "input_tokens")
       /\ AllParts(u) => PartSum(u) = Value(u, "input_tokens")

\* What can be said of an observation: its counters add up, and no path is recorded.
Typed(u) ==
    /\ Sound(u, Reasons) /\ AddsUp(u) /\ PartitionFits(u)
    /\ u.details = <<>> /\ u.reported = <<>>

\* Such an observation is one the event codec takes.
LEMMA TypedIsValid ==
  ASSUME NEW u, Typed(u)
  PROVE  ProviderUsageValid(u)
<1>1. Sound(u, Reasons) /\ TotalFits(u) /\ PartsFit(u)
  BY DEF Typed, AddsUp
<1>2. HasValues(u, {"input_tokens", "output_tokens", "total_tokens"}) =>
         CheckedAdd(Value(u, "input_tokens"), Value(u, "output_tokens"))
             = Value(u, "total_tokens")
  <2>1. \A f \in {"input_tokens", "output_tokens", "total_tokens"} :
           Value(u, f) \in Counts \cup {NoValue}
    BY <1>1, FieldNames, ValueFacts
  <2> QED
    BY <1>1, <2>1, CounterFacts, ContractAssumption DEF TotalFits, HasValues, CheckedAdd, Counts
<1>3. UsageValid(u)
  <2>1. \A f \in Fields : CounterValid(u.counters[f])
    BY <1>1 DEF Sound, Counter
  <2> QED
    BY <1>1, <2>1 DEF UsageValid, Sound, Typed
<1> QED
  BY <1>1, <1>2, <1>3 DEF ProviderUsageValid, PartsFit, Typed, PartitionFits

\* A sum of parts of which some are taken away: it still exists and is no larger.
LEMMA PartSumWeakens ==
  ASSUME NEW u, NEW v, Sound(u, Reasons), Sound(v, Reasons), Weakens(u, v), PartSum(u) # NoValue
  PROVE  /\ PartSum(v) \in Counts /\ PartSum(v) <= PartSum(u)
         /\ AllParts(v) => AllParts(u) /\ PartSum(v) = PartSum(u)
<1> DEFINE Or0(w, f) == IF Value(w, f) = NoValue THEN 0 ELSE Value(w, f)
           r(w) == Or0(w, "input_regular_tokens")
           cr(w) == Or0(w, "cache_read_input_tokens")
           cw(w) == Or0(w, "cache_write_input_tokens")
<1>1. \A f \in Fields : /\ Value(v, f) \in {Value(u, f), NoValue}
                        /\ Value(u, f) \in Counts \cup {NoValue}
  BY WeakeningKeeps, ValueFacts
<1>2. \A w : PartSum(w) = CheckedAdd(CheckedAdd(r(w), cr(w)), cw(w))
  BY DEF PartSum, InputParts, CheckedSum
<1>3. \A w : AllParts(w) <=> /\ Value(w, "input_regular_tokens") # NoValue
                             /\ Value(w, "cache_read_input_tokens") # NoValue
                             /\ Value(w, "cache_write_input_tokens") # NoValue
  BY DEF AllParts, HasValues, InputParts
<1>4. /\ r(u) \in Counts /\ cr(u) \in Counts /\ cw(u) \in Counts
      /\ r(v) \in Counts /\ cr(v) \in Counts /\ cw(v) \in Counts
      /\ r(v) <= r(u) /\ cr(v) <= cr(u) /\ cw(v) <= cw(u)
  BY <1>1, FieldNames, ContractAssumption DEF Counts
<1>5. AllParts(v) => AllParts(u) /\ r(v) = r(u) /\ cr(v) = cr(u) /\ cw(v) = cw(u)
  BY <1>1, <1>3, FieldNames
<1> DEFINE a == r(u)
           b == cr(u)
           c == cw(u)
           x == r(v)
           y == cr(v)
           z == cw(v)
<1>6. /\ PartSum(u) = CheckedAdd(CheckedAdd(a, b), c)
      /\ PartSum(v) = CheckedAdd(CheckedAdd(x, y), z)
  BY <1>2
<1>7. /\ a \in Counts /\ b \in Counts /\ c \in Counts /\ x \in Counts /\ y \in Counts
      /\ z \in Counts /\ x <= a /\ y <= b /\ z <= c
      /\ AllParts(v) => AllParts(u) /\ x = a /\ y = b /\ z = c
  BY <1>4, <1>5
<1> HIDE DEF a, b, c, x, y, z
<1>8. NoValue \notin Counts
  BY CounterFacts
<1>9. CheckedAdd(a, b) = a + b /\ a + b \in Counts /\ PartSum(u) = a + b + c /\ a + b + c \in Counts
  <2>1. /\ CheckedAdd(a, b) \in Counts \cup {NoValue}
        /\ CheckedAdd(a, b) # NoValue => CheckedAdd(a, b) = a + b
    BY <1>7, CheckedAddFacts
  <2>2. CheckedAdd(a, b) # NoValue
    BY <1>6 DEF CheckedAdd
  <2>3. /\ CheckedAdd(a + b, c) \in Counts \cup {NoValue}
        /\ CheckedAdd(a + b, c) # NoValue => CheckedAdd(a + b, c) = a + b + c
    BY <1>7, <2>1, <2>2, CheckedAddFacts
  <2> QED
    BY <1>6, <2>1, <2>2, <2>3
<1>10. CheckedAdd(x, y) = x + y /\ x + y \in Counts
  BY <1>7, <1>8, <1>9, ContractAssumption DEF CheckedAdd, Counts
<1>11. CheckedAdd(x + y, z) = x + y + z /\ x + y + z \in Counts /\ x + y + z <= a + b + c
  BY <1>7, <1>8, <1>9, <1>10, ContractAssumption DEF CheckedAdd, Counts
<1> QED
  BY <1>6, <1>7, <1>9, <1>10, <1>11

\* Taking counters away keeps an observation, when a derived total goes with its parts.
LEMMA WeakeningTyped ==
  ASSUME NEW u, NEW v, Typed(u), Sound(v, Reasons), Weakens(u, v), DerivedFits(v)
  PROVE  Typed(v)
<1>1. AddsUp(v)
  BY WeakeningKeeps DEF Typed, AddsUp
<1>2. PartitionFits(v)
  <2> SUFFICES ASSUME HasValues(v, {"input_tokens"})
               PROVE  /\ PartSum(v) # NoValue
                      /\ PartSum(v) <= Value(v, "input_tokens")
                      /\ AllParts(v) => PartSum(v) = Value(v, "input_tokens")
    BY DEF PartitionFits
  <2>1. Value(v, "input_tokens") = Value(u, "input_tokens") /\ HasValues(u, {"input_tokens"})
    BY WeakeningKeeps, FieldNames DEF HasValues
  <2>2. /\ PartSum(u) # NoValue /\ PartSum(u) <= Value(u, "input_tokens")
        /\ AllParts(u) => PartSum(u) = Value(u, "input_tokens")
    BY <2>1 DEF Typed, PartitionFits
  <2>3. /\ PartSum(v) \in Counts /\ PartSum(v) <= PartSum(u)
        /\ AllParts(v) => AllParts(u) /\ PartSum(v) = PartSum(u)
    BY <2>2, PartSumWeakens DEF Typed
  <2>4. PartSum(u) \in Counts /\ Value(u, "input_tokens") \in Counts
    BY <2>1, <2>2, PartSumFacts, ValueFacts, FieldNames DEF Typed, HasValues
  <2> QED
    BY <2>1, <2>2, <2>3, <2>4, CounterFacts, ContractAssumption DEF Counts
<1> QED
  BY <1>1, <1>2 DEF Typed, Weakens

\* What the host reads in a snapshot adds up.
LEMMA ObserveSnapshotFacts ==
  ASSUME NEW counters \in [Fields -> SnapshotCounters]
  PROVE  Typed(ObserveSnapshot(counters))
<1> DEFINE u0 == [DefaultUsage EXCEPT !.counters = counters]
           u1 == IF AnyInvalid(u0) THEN Violation(u0, "invalid_counter") ELSE u0
           t == PluginTotal(u1)
           s == SubsetRules(t)
           x == SubsetRule(s, "input_regular_tokens", "input_tokens")
           i == InvalidateInput(x)
           v == PluginPartition(x)
           sum == PartSum(x)
           in == Value(x, "input_tokens")
           bad == \/ sum = NoValue
                  \/ /\ in # NoValue
                     /\ sum # NoValue
                     /\ (sum > in \/ (AllParts(x) /\ sum # in))
           Plain(w) == w.details = <<>> /\ w.reported = <<>>
<1>0. /\ "invalid_counter" \in Given /\ "input_partition" \in Given
      /\ "total_mismatch" \in Given /\ "subset_exceeds_total" \in Given
  BY DEF Given
<1>1. counters \in [Fields -> Counter] /\ counters["total_tokens"].source # "derived"
  <2>1. \A c \in SnapshotCounters : c.source # "derived"
    BY DEF SnapshotCounters, Known, NotReported, Invalid, Unknown
  <2> QED
    BY <2>1, SnapshotCounterFacts, FieldNames
<1>2. u0 = [counters |-> counters, details |-> <<>>, reported |-> <<>>, violations |-> {}]
  <2> DEFINE d == DefaultUsage
             c == [f \in Fields |-> NotReported]
  <2>1. d = [counters |-> c, details |-> <<>>, reported |-> <<>>, violations |-> {}]
    BY DEF DefaultUsage
  <2> HIDE DEF c, d
  <2>2. u0 = [d EXCEPT !.counters = counters]
    BY DEF d
  <2> HIDE DEF u0
  <2> QED
    BY <2>1, <2>2
<1> HIDE DEF u0
<1>3. Sound(u0, Given) /\ Plain(u0) /\ Underived(u0)
  BY <1>1, <1>2 DEF Sound, PathCounters, Underived
<1>4. Sound(u1, Given) /\ Plain(u1) /\ Underived(u1)
  BY <1>0, <1>3, ViolationFacts DEF Underived
<1>5. ObserveSnapshot(counters) = v
  BY DEF ObserveSnapshot, u0
<1> HIDE DEF u1
<1>6. Sound(t, Given) /\ TotalFits(t) /\ Plain(t) /\ DerivedFits(t)
  BY <1>0, <1>4, PluginTotalFacts
<1> HIDE DEF t
<1>7. /\ Sound(s, Given) /\ Weakens(t, s) /\ PartsFit(s)
      /\ \A g \in {"input_tokens", "output_tokens"} : Value(s, g) = Value(t, g)
  BY <1>0, <1>6, SubsetRulesFacts
<1> HIDE DEF s
<1>8. /\ Sound(x, Given) /\ Weakens(s, x)
      /\ \A g \in Fields \ {"input_regular_tokens"} : Value(x, g) = Value(s, g)
  BY <1>0, <1>7, FieldNames, SubsetRuleFacts
<1> HIDE DEF x
<1>9. PartsFit(x) /\ TotalFits(x) /\ Plain(x)
  BY <1>6, <1>7, <1>8, WeakeningKeeps DEF Weakens
<1>21. DerivedFits(x)
  <2>1. x.counters["total_tokens"] \in {t.counters["total_tokens"], Invalid}
    BY <1>7, <1>8, FieldNames DEF Weakens
  <2> QED
    BY <1>6, <1>7, <1>8, <2>1, CounterFacts, FieldNames DEF DerivedFits, HasValues
<1>10. /\ Sound(i, Given) /\ Weakens(x, i) /\ Value(i, "input_tokens") = NoValue
       /\ Underived(i)
  BY <1>0, <1>8, InvalidateInputFacts
<1>11. v = IF bad THEN i ELSE x
  BY DEF PluginPartition
<1> HIDE DEF i, v
<1>12. Sound(v, Given) /\ PartsFit(v) /\ TotalFits(v) /\ Plain(v) /\ DerivedFits(v)
  BY <1>8, <1>9, <1>10, <1>11, <1>21, WeakeningKeeps DEF Weakens, Underived, DerivedFits
<1>13. HasValues(v, {"input_tokens"}) => v = x /\ ~bad
  BY <1>10, <1>11 DEF HasValues
<1>14. sum \in Counts \cup {NoValue} /\ in \in Counts \cup {NoValue}
  BY <1>8, PartSumFacts, ValueFacts, FieldNames
<1>15. HasValues(v, {"input_tokens"}) =>
          /\ PartSum(v) # NoValue
          /\ PartSum(v) <= Value(v, "input_tokens")
          /\ AllParts(v) => PartSum(v) = Value(v, "input_tokens")
  BY <1>13, <1>14, CounterFacts DEF HasValues, Counts
<1>16. CacheFits(v)
  <2> SUFFICES ASSUME HasValues(v, {"input_tokens", "cache_read_input_tokens",
                                    "cache_write_input_tokens"})
               PROVE  Value(v, "cache_read_input_tokens") + Value(v, "cache_write_input_tokens")
                         <= Value(v, "input_tokens")
    BY DEF CacheFits
  <2>1. /\ HasValues(v, {"input_tokens"})
        /\ HasValues(v, {"cache_read_input_tokens", "cache_write_input_tokens"})
    BY DEF HasValues
  <2>2. /\ PartSum(v) # NoValue /\ PartSum(v) <= Value(v, "input_tokens")
        /\ PartSum(v) \in Counts \cup {NoValue}
        /\ Value(v, "cache_read_input_tokens") + Value(v, "cache_write_input_tokens") <= PartSum(v)
    BY <1>12, <1>15, <2>1, PartSumFacts
  <2>3. /\ Value(v, "cache_read_input_tokens") \in Counts
        /\ Value(v, "cache_write_input_tokens") \in Counts
        /\ Value(v, "input_tokens") \in Counts
    BY <1>12, <2>1, FieldNames, ValueFacts DEF HasValues
  <2> QED
    BY <2>2, <2>3, ContractAssumption DEF Counts
<1>17. Sound(v, Reasons)
  BY <1>12 DEF Sound, Given, Reasons
<1> QED
  BY <1>5, <1>12, <1>15, <1>16, <1>17 DEF Typed, AddsUp, PartitionFits

\* Before anything is reported.
LEMMA DefaultIsTyped == Typed(DefaultUsage)
<1> DEFINE e == [f \in Fields |-> NotReported]
           d == DefaultUsage
<1>1. d = [counters |-> e, details |-> <<>>, reported |-> <<>>, violations |-> {}]
  BY DEF DefaultUsage
<1>2. e \in [Fields -> Counter] /\ PathCounters(<<>>)
  BY CounterFacts DEF PathCounters
<1>3. \A f \in Fields : e[f] = NotReported
  OBVIOUS
<1> HIDE DEF d, e
<1>4. Sound(d, Reasons)
  BY <1>1, <1>2 DEF Sound
<1>5. \A f \in Fields : Value(d, f) = NoValue /\ d.counters[f] = NotReported
  BY <1>1, <1>3, CounterFacts DEF Value
<1>6. AddsUp(d) /\ PartitionFits(d)
  BY <1>5, FieldNames, CounterFacts
  DEF AddsUp, PartsFit, CacheFits, TotalFits, DerivedFits, PartitionFits, HasValues
<1> QED
  BY <1>1, <1>4, <1>6 DEF Typed, d

\* What is read of a reply that cannot be decoded.
LEMMA ObserveWireFacts ==
  ASSUME NEW wire \in [Fields -> SnapshotCounters] \cup {Bad}
  PROVE  Typed(ObserveWire(wire))
<1> DEFINE v == Invalidate(DefaultUsage, Fields, "invalid_counter")
<1>1. Sound(DefaultUsage, Reasons) /\ "invalid_counter" \in Reasons
  BY DefaultIsTyped DEF Typed, Reasons
<1>2. /\ Sound(v, Reasons) /\ Weakens(DefaultUsage, v)
      /\ \A f \in Fields \cap Fields : v.counters[f] = Invalid
  BY <1>1, InvalidateFacts
<1> HIDE DEF v
<1>3. DerivedFits(v)
  BY <1>2, FieldNames, CounterFacts DEF DerivedFits
<1>4. Typed(v)
  BY <1>2, <1>3, DefaultIsTyped, WeakeningTyped
<1>5. CASE wire = Bad
  BY <1>4, <1>5 DEF ObserveWire, v
<1>6. CASE wire # Bad
  BY <1>6, ObserveSnapshotFacts DEF ObserveWire
<1> QED
  BY <1>5, <1>6

\* A later snapshot loses what fell, and with it a total that was derived from it.
LEMMA ObserveCumulativeFacts ==
  ASSUME NEW previous, NEW u, Typed(u)
  PROVE  Typed(ObserveCumulative(previous, u))
<1> DEFINE fallen == Fallen(previous, u)
           orphan == {f \in {"total_tokens"} :
                        /\ u.counters[f].source = "derived"
                        /\ \E g \in {"input_tokens", "output_tokens"} :
                              g \in fallen \/ u.counters[g].source = "invalid"}
           lost == fallen \union orphan
           v == Invalidate(u, lost, "counter_decreased")
<1>1. ObserveCumulative(previous, u) = v
  BY DEF ObserveCumulative
<1>2. /\ \E g \in {"input_tokens", "output_tokens"} : g \in lost
      /\ u.counters["total_tokens"].source = "derived"
      => "total_tokens" \in lost
  OBVIOUS
<1> HIDE DEF lost
<1>3. Sound(u, Reasons) /\ "counter_decreased" \in Reasons
  BY DEF Typed, Reasons
<1>4. /\ Sound(v, Reasons) /\ Weakens(u, v)
      /\ \A f \in Fields \cap lost : v.counters[f] = Invalid /\ Value(v, f) = NoValue
      /\ \A f \in Fields \ lost : v.counters[f] = u.counters[f] /\ Value(v, f) = Value(u, f)
  BY <1>3, InvalidateFacts
<1> HIDE DEF v
<1>5. DerivedFits(v)
  <2> SUFFICES ASSUME v.counters["total_tokens"].source = "derived"
               PROVE  HasValues(v, {"input_tokens", "output_tokens"})
    BY DEF DerivedFits
  <2>1. "total_tokens" \notin lost /\ u.counters["total_tokens"].source = "derived"
    BY <1>4, FieldNames, CounterFacts
  <2>2. HasValues(u, {"input_tokens", "output_tokens"})
    BY <2>1 DEF Typed, AddsUp, DerivedFits
  <2>3. "input_tokens" \notin lost /\ "output_tokens" \notin lost
    BY <1>2, <2>1
  <2> QED
    BY <1>4, <2>2, <2>3, FieldNames DEF HasValues
<1> QED
  BY <1>1, <1>4, <1>5, WeakeningTyped

-----------------------------------------------------------------------------
(* The accumulator.                                                        *)

\* The reasons the rules of a profile give.
ReasonsOf(p) == Given \cup (IF p = "deepseek/v1" THEN {"cache_alias_mismatch"} ELSE {})

\* What an attempt has accumulated is what its reported paths normalise to; what a plugin
\* reported adds up, and while its session is open nothing in it was refused, so the next
\* snapshot is compared with counters that all stand.
Accumulated ==
    IF profile = "plugin"
    THEN Typed(usage) /\ (session = "open" => usage.violations = {})
    ELSE LET n == Normalize(profile, reported)
         IN  /\ PathCounters(reported)
             /\ usage.reported = reported
             /\ usage.counters = n.counters /\ usage.details = n.details
             /\ usage.violations \ {"counter_decreased"} = n.violations

\* Nothing reported normalises to the default usage.
LEMMA NothingReported ==
  ASSUME NEW p
  PROVE  LET n == Normalize(p, <<>>)
         IN  /\ n.counters = [f \in Fields |-> NotReported]
             /\ n.details = <<>> /\ n.violations = {}
<1> DEFINE e == [f \in Fields |-> NotReported]
           u == [counters |-> e, details |-> <<>>, reported |-> <<>>, violations |-> {}]
           Blank(w) == /\ w = [counters |-> w.counters, details |-> w.details,
                               reported |-> w.reported, violations |-> w.violations]
                       /\ w.counters = e /\ w.details = <<>> /\ w.reported = <<>>
                       /\ w.violations = {}
<1>1. NotReported # Invalid /\ NotReported.value = NoValue
  BY CounterFacts DEF NotReported, Invalid, Unknown
<1>2. Mapped(p, <<>>) = e
  BY DEF Mapped
<1>3. Blank(u)
  OBVIOUS
<1>4. ASSUME NEW w, Blank(w)
      PROVE  /\ ~AnyInvalid(w)
             /\ \A f \in Fields : Value(w, f) = NoValue
             /\ \A f \in Fields : \A S : f \in S => ~HasValues(w, S)
  BY <1>1, <1>4 DEF AnyInvalid, Value, HasValues
<1>5. FromPaths(p, <<>>) = u
  BY <1>2, <1>3, <1>4 DEF FromPaths
<1> HIDE DEF u
<1>6. \A path : ReportedValue(u, path) = NoValue
  BY <1>3 DEF ReportedValue
<1>7. DeepSeekRules(u) = u
  BY <1>6 DEF DeepSeekRules
<1>8. GeminiRules(u) = u
  <2>1. GeminiRules(u) = Set(u, "output_tokens", NotReported)
    BY <1>3, <1>4, FieldNames DEF GeminiRules
  <2>2. [u.counters EXCEPT !["output_tokens"] = NotReported] = u.counters
    BY <1>3, FieldNames
  <2> QED
    BY <1>3, <2>1, <2>2 DEF Set
<1>9. MessagesRules(u) = u
  <2> DEFINE ttl == TtlPaths \cap DOMAIN u.reported
             d == [path \in ttl |-> u.reported[path]]
             x == [u EXCEPT !.details = d]
  <2>1. ttl = {} /\ ttl # TtlPaths
    BY <1>3 DEF TtlPaths
  <2>2. d = <<>>
    BY <2>1
  <2>3. MessagesRules(u) = x
    BY <1>3, <1>4, <2>1, FieldNames DEF MessagesRules
  <2> HIDE DEF d
  <2> QED
    BY <1>3, <2>2, <2>3
<1> DEFINE v == CASE p = "deepseek/v1"            -> DeepSeekRules(u)
                  [] p = "gemini_interactions/v1" -> GeminiRules(u)
                  [] p = "messages/v1"            -> MessagesRules(u)
                  [] OTHER                        -> u
<1>10. v = u
  BY <1>7, <1>8, <1>9
<1>11. PartitionRule(p, u) = u
  BY <1>3, <1>4, FieldNames DEF PartitionRule
<1>12. SubsetRules(u) = u
  <2>1. \A f \in Fields : \A g : SubsetRule(u, f, g) = u
    BY <1>3, <1>4 DEF SubsetRule
  <2> QED
    BY <2>1, FieldNames DEF SubsetRules
<1>13. TotalRule(u) = u
  BY <1>3, <1>4, FieldNames DEF TotalRule
<1>14. Normalize(p, <<>>) = u
  <2>1. Normalize(p, <<>>) = IF AnyInvalid(TotalRule(SubsetRules(PartitionRule(p, v))))
                             THEN Violation(TotalRule(SubsetRules(PartitionRule(p, v))),
                                            "invalid_counter")
                             ELSE TotalRule(SubsetRules(PartitionRule(p, v)))
    BY <1>5 DEF Normalize
  <2> HIDE DEF v
  <2> QED
    BY <1>3, <1>4, <1>10, <1>11, <1>12, <1>13, <2>1
<1> QED
  BY <1>3, <1>14

\* A fresh accumulator.
LEMMA AccumulatedInit == ContractInit => Accumulated
<1> SUFFICES ASSUME ContractInit PROVE Accumulated
  OBVIOUS
<1> DEFINE e == [f \in Fields |-> NotReported]
<1>1. /\ reported = <<>> /\ usage.reported = <<>> /\ usage.details = <<>>
      /\ usage.counters = e /\ usage.violations = {}
  BY DEF ContractInit, DefaultUsage
<1>2. CASE profile = "plugin"
  BY <1>1, <1>2, DefaultIsTyped DEF Accumulated, ContractInit
<1>3. CASE profile # "plugin"
  <2>1. PathCounters(<<>>)
    BY DEF PathCounters
  <2> QED
    BY <1>1, <1>3, <2>1, NothingReported DEF Accumulated
<1> QED
  BY <1>2, <1>3

\* The reasons of a profile, which never include a fallen counter.
LEMMA NormalizedReasons ==
  ASSUME NEW p, NEW rep, PathCounters(rep)
  PROVE  LET n == Normalize(p, rep)
         IN  /\ Sound(n, ReasonsOf(p)) /\ AddsUp(n) /\ n.reported = rep
             /\ n.violations \ {"counter_decreased"} = n.violations
<1>1. Given \subseteq ReasonsOf(p) /\ (p = "deepseek/v1" => "cache_alias_mismatch" \in ReasonsOf(p))
  BY DEF ReasonsOf
<1>2. "counter_decreased" \notin ReasonsOf(p)
  BY DEF ReasonsOf, Given
<1>3. LET n == Normalize(p, rep)
      IN  Sound(n, ReasonsOf(p)) /\ AddsUp(n) /\ n.reported = rep
  BY <1>1, NormalizeFacts
<1> QED
  BY <1>2, <1>3 DEF Sound

\* Merging counters into the accumulator.
LEMMA ObserveCountersKeeps ==
  ASSUME Accumulated, profile # "plugin", NEW counters, NEW other,
         \A path \in DOMAIN counters : counters[path] \in PathCounter,
         ObserveCounters(counters, other)
  PROVE  Accumulated'
<1> DEFINE fallen == {path \in DOMAIN counters : Fell(path, counters[path])}
           merged == [path \in (DOMAIN reported) \union DOMAIN counters |->
                        IF path \in fallen THEN Invalid
                        ELSE IF path \in DOMAIN counters THEN counters[path]
                        ELSE reported[path]]
           n == Normalize(profile, merged)
           w == Violation(n, "counter_decreased")
<1>1. /\ reported' = merged /\ profile' = profile /\ usage' \in {n, w}
  BY DEF ObserveCounters
<1> HIDE DEF fallen
<1>2. PathCounters(merged)
  BY CounterFacts DEF Accumulated, PathCounters
<1> HIDE DEF merged
<1>3. /\ Sound(n, ReasonsOf(profile)) /\ n.reported = merged
      /\ n.violations \ {"counter_decreased"} = n.violations
  BY <1>2, NormalizedReasons
<1> HIDE DEF n
<1>4. /\ w.counters = n.counters /\ w.details = n.details /\ w.reported = n.reported
      /\ w.violations \ {"counter_decreased"} = n.violations
  <2>1. Sound(n, ReasonsOf(profile) \cup {"counter_decreased"})
    BY <1>3 DEF Sound
  <2>2. /\ w.counters = n.counters /\ w.details = n.details /\ w.reported = n.reported
        /\ w.violations = n.violations \cup {"counter_decreased"}
    BY <2>1, ViolationFacts
  <2> HIDE DEF w
  <2> QED
    BY <1>3, <2>2
<1> HIDE DEF w
<1>5. Normalize(profile', reported') = n
  BY <1>1 DEF n
<1> QED
  BY <1>1, <1>2, <1>3, <1>4, <1>5 DEF Accumulated

\* Every snapshot, of whatever shape, keeps the accumulator.
LEMMA AccumulatedStep == Accumulated /\ [ContractNext]_contractVars => Accumulated'
<1> SUFFICES ASSUME Accumulated, [ContractNext]_contractVars PROVE Accumulated'
  OBVIOUS
<1>1. CASE ObserveObject
  <2>1. PICK path \in AllowedPaths(profile), json \in Values \union {Null, Bad} :
           ObserveCounters(Extract(profile, path :> json), FALSE)
    BY <1>1 DEF ObserveObject
  <2>2. \A q \in DOMAIN Extract(profile, path :> json) :
           Extract(profile, path :> json)[q] \in PathCounter
    BY ReadFacts DEF Extract
  <2> QED
    BY <1>1, <2>1, <2>2, ObserveCountersKeeps DEF ObserveObject
<1>2. CASE ObserveOther
  <2>1. \A q \in DOMAIN ExtractOther(profile) : ExtractOther(profile)[q] \in PathCounter
    BY CounterFacts DEF ExtractOther
  <2> QED
    BY <1>2, <2>1, ObserveCountersKeeps DEF ObserveOther
<1>3. CASE ObserveForeign
  <2>1. /\ profile # "plugin" /\ profile' = profile /\ reported' = reported
        /\ usage' = Normalize(profile, reported)
    BY <1>3 DEF ObserveForeign
  <2>2. PathCounters(reported)
    BY <2>1 DEF Accumulated
  <2>3. LET n == Normalize(profile, reported)
        IN  n.reported = reported /\ n.violations \ {"counter_decreased"} = n.violations
    BY <2>2, NormalizedReasons
  <2> QED
    BY <2>1, <2>2, <2>3 DEF Accumulated
<1>4. ASSUME NEW counters \in Snapshots, PluginSnapshot(counters)
      PROVE  Accumulated'
  <2> DEFINE v == ObserveCumulative(usage, ObserveSnapshot(counters))
  <2>1. /\ profile' = profile /\ profile = "plugin" /\ usage' = v
        /\ session' = "open" => usage'.violations = {}
    BY <1>4 DEF PluginSnapshot, ObserveProvider
  <2>2. Typed(v)
    BY ObserveSnapshotFacts, ObserveCumulativeFacts, ContractAssumption
  <2> HIDE DEF v
  <2>3. Typed(usage)' <=> Typed(usage')
    OBVIOUS
  <2> QED
    BY <2>1, <2>2, <2>3 DEF Accumulated
<1>6. ASSUME NEW wire \in Snapshots \union {Bad}, PluginAttempt(wire)
      PROVE  Accumulated'
  <2>1. /\ profile' = profile /\ profile = "plugin" /\ usage' = ObserveWire(wire)
        /\ session' # "open"
    BY <1>6 DEF PluginAttempt, ObserveProvider
  <2>2. Typed(usage')
    BY <2>1, ObserveWireFacts, ContractAssumption
  <2>3. Typed(usage)' <=> Typed(usage')
    OBVIOUS
  <2> QED
    BY <2>1, <2>2, <2>3 DEF Accumulated
<1>5. CASE UNCHANGED contractVars
  BY <1>5 DEF contractVars, Accumulated
<1> QED
  BY <1>1, <1>2, <1>3, <1>4, <1>5, <1>6 DEF ContractNext

\* observe, observe_cumulative and observe_wire: over any number of snapshots the accumulated
\* usage is what the reported paths normalise to, a fallen counter apart; what the host keeps
\* of a plugin's snapshots, each compared with the one before, adds up whichever counters fell,
\* and a session goes on only from an observation without violations.
THEOREM AlwaysAccumulated == ContractSpec => []Accumulated
  BY AccumulatedInit, AccumulatedStep, PTL DEF ContractSpec

\* What is accumulated adds up.
LEMMA AccumulatedAddsUp == Accumulated => TokensAddUp
<1> SUFFICES ASSUME Accumulated PROVE TokensAddUp
  OBVIOUS
<1>1. AddsUp(usage)
  <2>1. CASE profile = "plugin"
    BY <2>1 DEF Accumulated, Typed
  <2>2. CASE profile # "plugin"
    <3> DEFINE n == Normalize(profile, reported)
    <3>1. PathCounters(reported) /\ usage.counters = n.counters
      BY <2>2 DEF Accumulated
    <3>2. AddsUp(n)
      BY <3>1, NormalizedReasons
    <3> HIDE DEF n
    <3>3. \A f : Value(usage, f) = Value(n, f)
      BY <3>1 DEF Value
    <3> QED
      BY <3>1, <3>2, <3>3 DEF AddsUp, PartsFit, CacheFits, TotalFits, DerivedFits, HasValues
  <2> QED
    BY <2>1, <2>2
<1> QED
  BY <1>1 DEF TokensAddUp, AddsUp, PartsFit, CacheFits, TotalFits, DerivedFits

\* normalize and observe_snapshot, of every profile: the counters that survive never contradict
\* each other, so the recorder's aggregation cannot meet an impossible partition.
THEOREM CountersAddUp == ContractSpec => []TokensAddUp
  BY AlwaysAccumulated, AccumulatedAddsUp, PTL

\* What the rules of every profile but DeepSeek's give is what the event codec accepts.
LEMMA AccumulatedRecordable == Accumulated /\ profile # "deepseek/v1" => UsageIsRecordable
<1> SUFFICES ASSUME Accumulated, profile # "deepseek/v1" PROVE UsageIsRecordable
  OBVIOUS
<1>1. CASE profile = "plugin"
  BY <1>1, TypedIsValid DEF Accumulated, UsageIsRecordable
<1>2. CASE profile # "plugin"
  <2> DEFINE n == Normalize(profile, reported)
  <2>1. /\ PathCounters(reported) /\ usage.reported = reported
        /\ usage.counters = n.counters /\ usage.details = n.details
        /\ usage.violations \ {"counter_decreased"} = n.violations
    BY <1>2 DEF Accumulated
  <2>2. Sound(n, ReasonsOf(profile))
    BY <2>1, NormalizedReasons
  <2>3. Normalize(profile, usage.reported) = n
    BY <2>1
  <2> HIDE DEF n
  <2>4. usage.violations \subseteq Reasons
    BY <2>1, <2>2 DEF Sound, ReasonsOf, Given, Reasons
  <2>5. /\ \A f \in Fields : CounterValid(usage.counters[f])
        /\ \A path \in DOMAIN usage.reported : CounterValid(usage.reported[path])
        /\ \A path \in DOMAIN usage.details : CounterValid(usage.details[path])
    BY <2>1, <2>2 DEF Sound, PathCounters, PathCounter, Counter
  <2>6. \A path \in DOMAIN usage.reported :
           usage.reported[path].source \notin {"derived", "not_applicable"}
    BY <2>1 DEF PathCounters, PathCounter
  <2>7. EventValid(profile, usage)
    BY <2>1, <2>3, <2>4, <2>5, <2>6 DEF EventValid, UsageValid
  <2> QED
    BY <1>2, <2>7 DEF UsageIsRecordable
<1> QED
  BY <1>1, <1>2

\* UsageEvent::validate and provider_usage_valid: whatever is reported under any profile but
\* DeepSeek's, whose alias mismatch has no reason in the wire format, the usage can be recorded.
THEOREM UsageCanBeRecorded ==
  ContractSpec => [](profile # "deepseek/v1" => UsageIsRecordable)
<1>1. Accumulated => (profile # "deepseek/v1" => UsageIsRecordable)
  BY AccumulatedRecordable
<1> QED
  BY <1>1, AlwaysAccumulated, PTL
=============================================================================
