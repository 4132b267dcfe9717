--------------------------- MODULE TeamHttpProofs ---------------------------
(***************************************************************************)
(* Proofs about the team entry point, for any number of connections,       *)
(* subjects, sessions and changes of authorization.                        *)
(*                                                                         *)
(* The argument: the ledger, the intents and the peer's sessions only grow *)
(* and a subject's version never goes back (Grows), so what a connection   *)
(* learned under the mutex stays true (Right).  Admission identifiers are  *)
(* fresh, hence each has one guard (OwnIds).  A refreshed version is newer *)
(* than that of every late admission, and only the job that holds the      *)
(* mutex can add one (RefreshedIsNewer).                                   *)
(***************************************************************************)
EXTENDS TeamHttp, TLAPS

-----------------------------------------------------------------------------
(* The inductive invariant.                                                *)

Guarding == {"guarded", "sent", "streaming"}
Admitted == {"committed", "ending"} \cup Guarding

\* What a future, its job and its guard hold.
Authenticated(x) ==
    x.pc # "idle" =>
       /\ x.subject \in Subjects
       /\ x.version <= auth[x.subject].version
       /\ x.version = auth[x.subject].version => auth[x.subject].enabled = TRUE
       /\ x.kind = "create" => x.key \in Keys

Resolved(x) ==
    /\ x.pc \in {"locked"} \cup Admitted => x.peer \in Origins
    /\ x.pc = "posting" => x.name \in Names
    /\ x.internal # None =>
         /\ created[x.internal] # None
         /\ intent[created[x.internal]] # None
         /\ intent[created[x.internal]].subject = x.subject
         /\ intent[created[x.internal]].origin = x.peer

HasRow(x) ==
    /\ x.pc \in Admitted <=> x.id # None
    /\ x.id # None => row[x.id] # None /\ row[x.id].subject = x.subject

Right == {x \in Connection : Authenticated(x) /\ Resolved(x) /\ HasRow(x)}

\* One guard for each admission, one job at the ledger.
OwnIds == \A r, q \in Connections : (conn[r].id # None /\ conn[r].id = conn[q].id) => r = q

OneAtLedger ==
    \A r, q \in Connections :
       (conn[r].pc \in {"locked", "committed"} /\ conn[q].pc \in {"locked", "committed"}) => r = q

\* Late admissions carry a version the authority has left behind.
LateIsOld == \A i \in late : row[i] # None /\ row[i].version < auth[row[i].subject].version

RefreshedIsNewer ==
    \A r \in Connections : conn[r].pc = "locked" =>
       \A i \in late : row[i].subject # conn[r].subject \/ row[i].version # conn[r].version

\* Sessions at the peer: one for each intent whose creation was sent.
OneIntent ==
    \A n, m \in Names :
       (/\ intent[n] # None /\ intent[m] # None
        /\ intent[n].subject = intent[m].subject /\ intent[n].key = intent[m].key) => n = m

PeerSessions ==
    /\ \A n \in posts : intent[n] # None /\ \A x \in Internals : created[x] # n
    /\ \A x \in Internals : created[x] # None => intent[created[x]] # None
    /\ \A x, y \in Internals : (created[x] # None /\ created[x] = created[y]) => x = y
    /\ \A n \in Names : binding[n] # None => created[binding[n]] = n

TeamInv ==
    /\ TeamTypeOK /\ (\A r \in Connections : conn[r] \in Right) /\ OwnIds /\ OneAtLedger
    /\ LateIsOld /\ RefreshedIsNewer /\ OneIntent /\ PeerSessions
    /\ ActiveIsOwned /\ OneLateAdmission /\ CallsAreAdmitted

-----------------------------------------------------------------------------
(* What no step takes back.                                                *)

Grows ==
    /\ \A s \in Subjects : /\ auth'[s].version >= auth[s].version
                           /\ auth'[s].version = auth[s].version => auth'[s] = auth[s]
    /\ \A i \in Ids : row[i] # None => /\ row'[i] # None
                                       /\ row'[i].subject = row[i].subject
                                       /\ row'[i].version = row[i].version
    /\ \A n \in Names : intent[n] # None => intent'[n] = intent[n]
    /\ \A x \in Internals : created[x] # None => created'[x] = created[x]

\* A step that leaves the authority, the rows, the intents and the peer's sessions alone.
LEMMA SameGrows ==
  ASSUME TeamTypeOK, UNCHANGED <<auth, row, intent, created>>
  PROVE  Grows
<1>1. \A s \in Subjects : auth[s].version \in Nat
  BY DEF TeamTypeOK
<1> QED
  BY <1>1 DEF Grows

\* A row that is written again keeps its subject and its version.
LEMMA EvidenceGrows ==
  ASSUME TeamTypeOK, UNCHANGED <<auth, intent, created>>, NEW i \in Ids, row[i] # None,
         \/ \E g \in GatewayIds \cup {None} : row' = [row EXCEPT ![i] = [@ EXCEPT !.gid = g]]
         \/ row' = [row EXCEPT ![i] = [@ EXCEPT !.ended = TRUE]]
         \/ row' = row
  PROVE  Grows /\ row' \in [Ids -> Row \cup {None}]
<1>1. \A s \in Subjects : auth[s].version \in Nat
  BY DEF TeamTypeOK
<1>2. row[i] \in Row /\ row \in [Ids -> Row \cup {None}]
  BY DEF TeamTypeOK
<1>3. ASSUME NEW g \in GatewayIds \cup {None}, row' = [row EXCEPT ![i] = [@ EXCEPT !.gid = g]]
      PROVE  /\ row'[i] \in Row /\ row'[i].subject = row[i].subject /\ row'[i].version = row[i].version
             /\ \A k \in Ids \ {i} : row'[k] = row[k]
             /\ row' = [row EXCEPT ![i] = row'[i]]
  BY <1>2, <1>3 DEF Row
<1>4. ASSUME row' = [row EXCEPT ![i] = [@ EXCEPT !.ended = TRUE]]
      PROVE  /\ row'[i] \in Row /\ row'[i].subject = row[i].subject /\ row'[i].version = row[i].version
             /\ \A k \in Ids \ {i} : row'[k] = row[k]
             /\ row' = [row EXCEPT ![i] = row'[i]]
  BY <1>2, <1>4 DEF Row
<1>5. CASE row' = row
  BY <1>1, <1>2, <1>5 DEF Grows
<1>6. CASE /\ row'[i] \in Row /\ row'[i].subject = row[i].subject /\ row'[i].version = row[i].version
           /\ \A k \in Ids \ {i} : row'[k] = row[k]
           /\ row' = [row EXCEPT ![i] = row'[i]]
  <2>1. row' \in [Ids -> Row \cup {None}]
    BY <1>2, <1>6
  <2>2. \A k \in Ids : row[k] # None => /\ row'[k] # None
                                        /\ row'[k].subject = row[k].subject
                                        /\ row'[k].version = row[k].version
    BY <1>2, <1>6, TeamAssumption
  <2> QED
    BY <1>1, <2>1, <2>2 DEF Grows
<1> QED
  BY <1>3, <1>4, <1>5, <1>6

\* What a connection learned stays true.
LEMMA RightStays ==
  ASSUME TeamTypeOK, TeamTypeOK', Grows
  PROVE  Right \subseteq Right'
<1> SUFFICES ASSUME NEW x \in Connection, Authenticated(x), Resolved(x), HasRow(x)
             PROVE  Authenticated(x)' /\ Resolved(x)' /\ HasRow(x)'
  BY DEF Right
<1>1. Authenticated(x)'
  <2> SUFFICES ASSUME x.pc # "idle" PROVE Authenticated(x)'
    BY DEF Authenticated
  <2>1. /\ x.subject \in Subjects /\ x.version \in Nat
        /\ auth[x.subject].version \in Nat /\ auth'[x.subject].version \in Nat
    BY DEF Authenticated, Connection, TeamTypeOK
  <2> QED
    BY <2>1 DEF Authenticated, Grows
<1>2. Resolved(x)'
  <2>1. x.internal # None => x.internal \in Internals /\ created[x.internal] \in Names \cup {None}
    BY DEF Connection, TeamTypeOK
  <2> QED
    BY <2>1 DEF Resolved, Grows
<1>3. HasRow(x)'
  <2>1. x.id # None => x.id \in Ids
    BY DEF Connection
  <2> QED
    BY <2>1 DEF HasRow, Grows
<1> QED
  BY <1>1, <1>2, <1>3

\* Calls that were admitted, and admissions that were late, stay so.
LEMMA LedgerStays ==
  ASSUME TeamInv, TeamTypeOK', Grows
  PROVE  /\ \A c \in calls :
              /\ row'[c.id] # None /\ row'[c.id].subject = c.subject
              /\ c.internal # None =>
                   /\ created'[c.internal] # None
                   /\ intent'[created'[c.internal]].subject = c.subject
                   /\ intent'[created'[c.internal]].origin = c.peer
         /\ \A i \in late : /\ row'[i] # None /\ row'[i].version < auth'[row'[i].subject].version
                            /\ row'[i].subject = row[i].subject /\ row'[i].version = row[i].version
         /\ calls' = calls => CallsAreAdmitted'
         /\ late' = late => LateIsOld' /\ OneLateAdmission'
<1> USE DEF TeamInv
<1>1. \A c \in calls : c.id \in Ids /\ (c.internal # None => c.internal \in Internals)
  BY DEF TeamTypeOK
<1>2. \A c \in calls : c.internal # None =>
         created[c.internal] # None /\ created[c.internal] \in Names /\ intent[created[c.internal]] # None
  BY <1>1 DEF TeamTypeOK, CallsAreAdmitted, PeerSessions
<1>3. \A c \in calls :
        /\ row'[c.id] # None /\ row'[c.id].subject = c.subject
        /\ c.internal # None =>
             /\ created'[c.internal] # None
             /\ intent'[created'[c.internal]].subject = c.subject
             /\ intent'[created'[c.internal]].origin = c.peer
  BY <1>1, <1>2 DEF CallsAreAdmitted, Grows
<1>4. \A i \in late : /\ row'[i] # None /\ row'[i].version < auth'[row'[i].subject].version
                      /\ row'[i].subject = row[i].subject /\ row'[i].version = row[i].version
  <2> SUFFICES ASSUME NEW i \in late
               PROVE  /\ row'[i] # None /\ row'[i].version < auth'[row'[i].subject].version
                      /\ row'[i].subject = row[i].subject /\ row'[i].version = row[i].version
    OBVIOUS
  <2>1. i \in Ids /\ row[i] # None /\ row[i].version < auth[row[i].subject].version
    BY DEF TeamTypeOK, LateIsOld
  <2>2. row[i] \in Row
    BY <2>1 DEF TeamTypeOK
  <2>3. /\ row[i].subject \in Subjects /\ row[i].version \in Nat
        /\ auth[row[i].subject].version \in Nat /\ auth'[row[i].subject].version \in Nat
    BY <2>2 DEF TeamTypeOK, Row
  <2> QED
    BY <2>1, <2>3 DEF Grows
<1>5. calls' = calls => CallsAreAdmitted'
  BY <1>3 DEF CallsAreAdmitted
<1>6. late' = late => LateIsOld' /\ OneLateAdmission'
  BY <1>4 DEF LateIsOld, OneLateAdmission
<1> QED
  BY <1>3, <1>4, <1>5, <1>6

-----------------------------------------------------------------------------
(* Preservation.                                                           *)

\* The entry point starts without calls, rows and sessions.
LEMMA TeamInvInit == TeamInit => TeamInv
<1> SUFFICES ASSUME TeamInit PROVE TeamInv
  OBVIOUS
<1>1. Idle \in Connection /\ Idle.pc = "idle" /\ Idle.id = None /\ Idle.internal = None
  BY DEF Idle, Connection, Stages
<1>2. \A r \in Connections : conn[r] = Idle
  BY DEF TeamInit
<1>3. Idle \in Right
  BY <1>1 DEF Right, Authenticated, Resolved, HasRow, Admitted, Guarding
<1>4. TeamTypeOK
  BY <1>1 DEF TeamInit, TeamTypeOK
<1>5. OwnIds /\ OneAtLedger /\ LateIsOld /\ RefreshedIsNewer
  BY <1>1, <1>2 DEF TeamInit, OwnIds, OneAtLedger, LateIsOld, RefreshedIsNewer
<1>6. OneIntent /\ PeerSessions
  BY DEF TeamInit, OneIntent, PeerSessions
<1>7. ActiveIsOwned /\ OneLateAdmission /\ CallsAreAdmitted
  BY <1>1, <1>2 DEF TeamInit, ActiveIsOwned, OneLateAdmission, CallsAreAdmitted
<1> QED
  BY <1>2, <1>3, <1>4, <1>5, <1>6, <1>7 DEF TeamInv

\* How the set of live requests follows the guard of one connection.
LiveFollows(r) ==
    \/ conn'[r].pc \in Guarding /\ conn[r].pc \in Guarding /\ conn'[r].id = conn[r].id /\ live' = live
    \/ conn'[r].pc \notin Guarding /\ conn[r].pc \notin Guarding /\ live' = live
    \/ conn'[r].pc \in Guarding /\ conn[r].pc \notin Guarding /\ live' = live \cup {conn'[r].id}
    \/ conn'[r].pc \notin Guarding /\ conn[r].pc \in Guarding /\ live' = live \ {conn[r].id}

\* One connection moves on.
LEMMA ConnectionMoves ==
  ASSUME TeamInv, TeamTypeOK', Grows, NEW r \in Connections,
         conn' = [conn EXCEPT ![r] = conn'[r]], conn'[r] \in Right',
         conn'[r].id # None => conn'[r].id = conn[r].id \/ row[conn'[r].id] = None,
         conn'[r].pc \in {"locked", "committed"} =>
            conn[r].pc \in {"locked", "committed"} \/ LedgerFree,
         conn'[r].pc = "locked" =>
            /\ conn'[r].subject = conn[r].subject /\ conn'[r].version = conn[r].version
            /\ conn[r].pc = "locked" \/ conn[r].version = auth[conn[r].subject].version,
         LiveFollows(r)
  PROVE  /\ \A q \in Connections : conn'[q] \in Right'
         /\ OwnIds' /\ OneAtLedger' /\ ActiveIsOwned'
         /\ late' = late => RefreshedIsNewer'
<1> USE DEF TeamInv
<1>1. \A q \in Connections \ {r} : conn'[q] = conn[q]
  BY DEF TeamTypeOK
<1>2. \A q \in Connections : conn'[q] \in Right'
  BY <1>1, RightStays
<1>3. /\ \A q \in Connections : conn[q].id # None => row[conn[q].id] # None
      /\ \A q \in Connections : conn[q].pc \in Guarding => conn[q].id # None /\ conn[q].id \in Ids
      /\ conn'[r].pc \in Guarding => conn'[r].id # None /\ conn'[r].id \in Ids
  <2>1. \A q \in Connections : conn[q].id # None => row[conn[q].id] # None
    BY DEF Right, HasRow
  <2>2. \A q \in Connections : conn[q].pc \in Guarding => conn[q].id # None /\ conn[q].id \in Ids
    BY DEF Right, HasRow, Admitted, Connection
  <2>3. conn'[r].pc \in Guarding => conn'[r].id # None /\ conn'[r].id \in Ids
    BY DEF Right, HasRow, Admitted, Connection
  <2> QED
    BY <2>1, <2>2, <2>3
<1>4. \A q \in Connections \ {r} : conn[q].id # None => conn'[r].id # conn[q].id
  BY <1>3 DEF OwnIds
<1>5. OwnIds'
  BY <1>1, <1>4 DEF OwnIds
<1>6. OneAtLedger'
  BY <1>1 DEF OneAtLedger, LedgerFree
<1>7. ActiveIsOwned'
  <2> SUFFICES ASSUME NEW i \in Ids
               PROVE  i \in live' <=> \E q \in Connections : conn'[q].id = i /\ conn'[q].pc \in Guarding
    BY DEF ActiveIsOwned, Guarding
  <2> DEFINE Others == \E q \in Connections \ {r} : conn[q].id = i /\ conn[q].pc \in Guarding
  <2>1. i \in live <=> (Others \/ (conn[r].id = i /\ conn[r].pc \in Guarding))
    BY DEF ActiveIsOwned, Guarding
  <2>2. (\E q \in Connections : conn'[q].id = i /\ conn'[q].pc \in Guarding)
        <=> (Others \/ (conn'[r].id = i /\ conn'[r].pc \in Guarding))
    BY <1>1
  <2>3. conn[r].pc \in Guarding /\ conn[r].id = i => ~Others
    BY <1>3 DEF OwnIds
  <2> HIDE DEF Others
  <2>4. i \in live' <=> (Others \/ (conn'[r].id = i /\ conn'[r].pc \in Guarding))
    BY <2>1, <2>3 DEF LiveFollows
  <2> QED
    BY <2>2, <2>4
<1>8. late' = late => RefreshedIsNewer'
  <2> SUFFICES ASSUME late' = late, NEW q \in Connections, conn'[q].pc = "locked", NEW i \in late
               PROVE  row'[i].subject # conn'[q].subject \/ row'[i].version # conn'[q].version
    BY DEF RefreshedIsNewer
  <2>1. row'[i].subject = row[i].subject /\ row'[i].version = row[i].version
    BY LedgerStays
  <2>2. CASE conn[q].pc = "locked" /\ conn'[q].subject = conn[q].subject /\ conn'[q].version = conn[q].version
    BY <2>1, <2>2 DEF RefreshedIsNewer
  <2>3. CASE q = r /\ conn[r].version = auth[conn[r].subject].version
    <3>1. row[i] # None /\ row[i].version < auth[row[i].subject].version
      BY DEF LateIsOld
    <3>2. i \in Ids /\ row[i] \in Row
      BY <3>1 DEF TeamTypeOK
    <3>3. row[i].subject \in Subjects /\ row[i].version \in Nat /\ auth[row[i].subject].version \in Nat
      BY <3>2 DEF TeamTypeOK, Row
    <3> QED
      BY <2>1, <2>3, <3>1, <3>3
  <2> QED
    BY <1>1, <2>2, <2>3
<1> QED
  BY <1>2, <1>5, <1>6, <1>7, <1>8

\* Intents, the peer and its sessions are left alone.
LEMMA SessionsStay ==
  ASSUME TeamInv, UNCHANGED <<intent, binding, posts, created>>
  PROVE  OneIntent' /\ PeerSessions'
  BY DEF TeamInv, OneIntent, PeerSessions

\* A connection moves on and writes no table.
LEMMA OnlyConnection ==
  ASSUME TeamInv, NEW r \in Connections,
         UNCHANGED <<auth, peer, row, intent, binding, posts, created, calls, late>>,
         conn' = [conn EXCEPT ![r] = conn'[r]], conn'[r] \in Right',
         conn'[r].id # None => conn'[r].id = conn[r].id,
         conn'[r].pc \in {"locked", "committed"} =>
            conn[r].pc \in {"locked", "committed"} \/ LedgerFree,
         conn'[r].pc = "locked" =>
            /\ conn'[r].subject = conn[r].subject /\ conn'[r].version = conn[r].version
            /\ conn[r].pc = "locked" \/ conn[r].version = auth[conn[r].subject].version,
         LiveFollows(r)
  PROVE  TeamInv'
<1>1. conn'[r].pc \in Guarding => conn'[r].id \in Ids
  BY DEF Right, HasRow, Admitted, Connection
<1>2. live' \subseteq Ids
  BY <1>1 DEF LiveFollows, TeamInv, TeamTypeOK
<1>3. TeamTypeOK'
  BY <1>2 DEF TeamInv, TeamTypeOK, Right
<1>4. Grows
  BY SameGrows DEF TeamInv
<1>5. /\ \A q \in Connections : conn'[q] \in Right'
      /\ OwnIds' /\ OneAtLedger' /\ ActiveIsOwned' /\ RefreshedIsNewer'
  BY <1>3, <1>4, ConnectionMoves
<1>6. LateIsOld' /\ OneLateAdmission' /\ CallsAreAdmitted'
  BY <1>3, <1>4, LedgerStays
<1>7. OneIntent' /\ PeerSessions'
  BY SessionsStay
<1> QED
  BY <1>3, <1>5, <1>6, <1>7 DEF TeamInv

\* A connection that keeps all it holds but its stage and its client.
Keeps(r) ==
    /\ conn'[r] \in Connection /\ conn' = [conn EXCEPT ![r] = conn'[r]]
    /\ conn'[r].id = conn[r].id /\ conn'[r].kind = conn[r].kind
    /\ conn'[r].subject = conn[r].subject /\ conn'[r].version = conn[r].version
    /\ conn'[r].key = conn[r].key /\ conn'[r].name = conn[r].name /\ conn'[r].peer = conn[r].peer
    /\ conn'[r].internal = conn[r].internal

\* Another stage of the same future.
LEMMA StageKeeps ==
  ASSUME conn \in [Connections -> Connection], NEW r \in Connections, NEW pc \in Stages,
         conn' = [conn EXCEPT ![r] = [conn[r] EXCEPT !.pc = pc]]
  PROVE  Keeps(r) /\ conn'[r].pc = pc
<1>1. conn[r] \in Connection /\ conn'[r] = [conn[r] EXCEPT !.pc = pc]
  OBVIOUS
<1>2. conn'[r] \in Connection
  BY <1>1 DEF Connection
<1> QED
  BY <1>1, <1>2 DEF Keeps, Connection

\* What it holds is still right.
LEMMA FurtherIsRight ==
  ASSUME TeamInv, NEW r \in Connections, UNCHANGED <<auth, row, intent, created>>, Keeps(r),
         conn[r].pc # "idle", conn'[r].pc \in Admitted <=> conn[r].pc \in Admitted,
         conn'[r].pc = "locked" => conn[r].pc = "locked", conn'[r].pc # "posting"
  PROVE  conn'[r] \in Right'
<1>1. conn[r] \in Connection /\ Authenticated(conn[r]) /\ Resolved(conn[r]) /\ HasRow(conn[r])
  BY DEF TeamInv, Right
<1>2. Authenticated(conn[r])'
  BY <1>1 DEF Authenticated, Keeps
<1>3. Resolved(conn[r])'
  BY <1>1 DEF Resolved, Admitted, Guarding, Keeps
<1>4. HasRow(conn[r])'
  BY <1>1 DEF HasRow, Keeps
<1> QED
  BY <1>2, <1>3, <1>4 DEF Right, Keeps

\* An idle connection holds nothing.
LEMMA IdleIsRight == Idle \in Right /\ Idle.pc = "idle" /\ Idle.id = None
<1>1. Idle \in Connection /\ Idle.pc = "idle" /\ Idle.id = None /\ Idle.internal = None
  BY DEF Idle, Connection, Stages
<1> QED
  BY <1>1 DEF Right, Authenticated, Resolved, HasRow, Admitted, Guarding

\* arrive, submit, reject, unconfirmed.
LEMMA OutsideKeepsInv ==
  ASSUME TeamInv, NEW r \in Connections,
         \/ \E s \in Subjects :
              \/ Arrive(r, s, "plain", None, None)
              \/ \E n \in Names : Arrive(r, s, "managed", None, n)
              \/ \E k \in Keys : Arrive(r, s, "create", k, None)
         \/ Submit(r) \/ Reject(r) \/ Unconfirmed(r)
  PROVE  TeamInv'
<1>0. conn \in [Connections -> Connection] /\ conn[r] \in Connection
  BY DEF TeamInv, TeamTypeOK
<1>1. ASSUME NEW s \in Subjects, NEW kind \in Kinds, NEW k \in Keys \cup {None},
             NEW n \in Names \cup {None}, kind = "create" => k \in Keys, Arrive(r, s, kind, k, n)
      PROVE TeamInv'
  <2> DEFINE y == [Idle EXCEPT !.pc = "authed", !.kind = kind, !.subject = s,
                               !.version = auth[s].version, !.key = k, !.name = n]
  <2>1. /\ conn' = [conn EXCEPT ![r] = y] /\ conn[r].pc = "idle" /\ auth[s].enabled = TRUE
        /\ auth[s].version \in Nat
        /\ UNCHANGED <<auth, peer, row, live, intent, binding, posts, created, calls, late>>
    BY <1>1 DEF Arrive, Set, TeamInv, TeamTypeOK
  <2>2. y \in Connection
    BY <2>1 DEF Idle, Connection, Stages
  <2>3. /\ y.pc = "authed" /\ y.kind = kind /\ y.subject = s /\ y.version = auth[s].version
        /\ y.key = k /\ y.id = None /\ y.internal = None
    BY DEF Idle
  <2>4. conn'[r] = y
    BY <1>0, <2>1
  <2> HIDE DEF y
  <2>5. conn'[r] \in Right'
    BY <1>1, <2>1, <2>2, <2>3, <2>4 DEF Right, Authenticated, Resolved, HasRow, Admitted, Guarding
  <2>6. LiveFollows(r)
    BY <2>1, <2>3, <2>4 DEF LiveFollows, Guarding
  <2> QED
    BY <2>1, <2>3, <2>4, <2>5, <2>6, OnlyConnection
<1>2. CASE Submit(r)
  <2>1. /\ conn' = [conn EXCEPT ![r] = [conn[r] EXCEPT !.pc = "queued"]] /\ conn[r].pc = "authed"
        /\ UNCHANGED <<auth, peer, row, live, intent, binding, posts, created, calls, late>>
    BY <1>2 DEF Submit, Set
  <2>2. Keeps(r) /\ conn'[r].pc = "queued"
    BY <1>0, <2>1, StageKeeps DEF Stages
  <2>3. conn'[r] \in Right'
    BY <2>1, <2>2, FurtherIsRight DEF Admitted, Guarding
  <2>4. LiveFollows(r)
    BY <2>1, <2>2 DEF LiveFollows, Guarding
  <2> QED
    BY <2>1, <2>2, <2>3, <2>4, OnlyConnection DEF Keeps
<1>3. CASE Reject(r) \/ Unconfirmed(r)
  <2>1. /\ conn' = [conn EXCEPT ![r] = Idle] /\ conn[r].pc \notin Guarding
        /\ UNCHANGED <<auth, peer, row, live, intent, binding, posts, created, calls, late>>
    BY <1>3 DEF Reject, Unconfirmed, Set, Guarding
  <2>2. conn'[r] = Idle /\ conn'[r].pc = "idle" /\ conn'[r].id = None
    BY <1>0, <2>1, IdleIsRight
  <2>3. Idle \in Right'
    BY <2>1, IdleIsRight DEF Right, Authenticated, Resolved, HasRow
  <2>4. LiveFollows(r)
    BY <2>1, <2>2 DEF LiveFollows, Guarding
  <2> QED
    BY <2>1, <2>2, <2>3, <2>4, OnlyConnection
<1> QED
  <2>1. "plain" \in Kinds /\ "managed" \in Kinds /\ "create" \in Kinds /\ "plain" # "create" /\ "managed" # "create"
    BY DEF Kinds
  <2> QED
    BY <1>1, <1>2, <1>3, <2>1

\* A client leaves, a guard appears or goes.
LEMMA GuardKeepsInv ==
  ASSUME TeamInv, NEW r \in Connections, Return(r) \/ TransportEnds(r) \/ Disconnect(r)
  PROVE  TeamInv'
<1>0. conn \in [Connections -> Connection] /\ conn[r] \in Connection
  BY DEF TeamInv, TeamTypeOK
<1>1. UNCHANGED <<auth, peer, row, intent, binding, posts, created, calls, late>>
  BY DEF Return, TransportEnds, Disconnect, Ending
<1>2. CASE Return(r)
  <2>1. /\ conn' = [conn EXCEPT ![r] = [conn[r] EXCEPT !.pc = "guarded"]] /\ conn[r].pc = "committed"
        /\ live' = live \cup {conn[r].id}
    BY <1>2 DEF Return, Set
  <2>2. Keeps(r) /\ conn'[r].pc = "guarded"
    BY <1>0, <2>1, StageKeeps DEF Stages
  <2>3. conn'[r] \in Right'
    BY <1>1, <2>1, <2>2, FurtherIsRight DEF Admitted, Guarding
  <2>4. LiveFollows(r)
    BY <2>1, <2>2 DEF LiveFollows, Guarding, Keeps
  <2> QED
    BY <1>1, <2>1, <2>2, <2>3, <2>4, OnlyConnection DEF Keeps
<1>3. CASE conn[r].pc \in Guarding /\ Ending(r)
  <2>1. /\ conn' = [conn EXCEPT ![r] = [conn[r] EXCEPT !.pc = "ending"]]
        /\ live' = live \ {conn[r].id}
    BY <1>3 DEF Ending, Set
  <2>2. Keeps(r) /\ conn'[r].pc = "ending"
    BY <1>0, <2>1, StageKeeps DEF Stages
  <2>3. conn'[r] \in Right'
    BY <1>1, <1>3, <2>1, <2>2, FurtherIsRight DEF Admitted, Guarding
  <2>4. LiveFollows(r)
    BY <1>3, <2>1, <2>2 DEF LiveFollows, Guarding, Keeps
  <2> QED
    BY <1>1, <2>1, <2>2, <2>3, <2>4, OnlyConnection DEF Keeps
<1>4. CASE /\ conn[r].pc \in {"queued", "locked", "committed"}
           /\ Set(r, [conn[r] EXCEPT !.gone = TRUE]) /\ live' = live
  <2>1. conn' = [conn EXCEPT ![r] = [conn[r] EXCEPT !.gone = TRUE]]
        /\ conn'[r] = [conn[r] EXCEPT !.gone = TRUE]
    BY <1>0, <1>4 DEF Set
  <2>2. conn'[r] \in Connection
    BY <1>0, <2>1 DEF Connection
  <2>3. Keeps(r) /\ conn'[r].pc = conn[r].pc
    BY <1>0, <2>1, <2>2 DEF Connection, Keeps
  <2>4. conn'[r] \in Right'
    BY <1>1, <1>4, <2>3, FurtherIsRight
  <2>5. LiveFollows(r)
    BY <1>4, <2>3 DEF LiveFollows, Guarding
  <2> QED
    BY <1>1, <1>4, <2>3, <2>4, <2>5, OnlyConnection DEF Keeps
<1> QED
  BY <1>2, <1>3, <1>4 DEF TransportEnds, Disconnect, Guarding

\* The job takes the ledger, with a version that is current and a session of its subject.
LEMMA LockKeepsInv ==
  ASSUME TeamInv, NEW r \in Connections, NEW i \in Internals \cup {None}, LockRefresh(r, i)
  PROVE  TeamInv'
<1> DEFINE y == [conn[r] EXCEPT !.pc = "locked", !.peer = peer, !.internal = i]
<1>0. conn \in [Connections -> Connection] /\ conn[r] \in Connection /\ peer \in Origins
  BY DEF TeamInv, TeamTypeOK
<1>1. /\ conn' = [conn EXCEPT ![r] = y] /\ conn[r].pc = "queued" /\ LedgerFree
      /\ conn[r].version = auth[conn[r].subject].version
      /\ Resolves(conn[r], peer, i)
      /\ UNCHANGED <<auth, peer, row, live, intent, binding, posts, created, calls, late>>
  BY DEF LockRefresh, Set, Current
<1>2. y \in Connection
  BY <1>0 DEF Connection, Stages
<1>3. /\ y.pc = "locked" /\ y.id = conn[r].id /\ y.kind = conn[r].kind
      /\ y.subject = conn[r].subject /\ y.version = conn[r].version
      /\ y.key = conn[r].key /\ y.name = conn[r].name /\ y.peer = peer /\ y.internal = i
  BY <1>0 DEF Connection
<1>4. conn'[r] = y
  BY <1>0, <1>1
<1> HIDE DEF y
<1>5. conn[r] \in Connection /\ Authenticated(conn[r]) /\ Resolved(conn[r]) /\ HasRow(conn[r])
  BY DEF TeamInv, Right
<1>6. i # None => /\ created[i] # None /\ intent[created[i]] # None
                  /\ intent[created[i]].subject = y.subject /\ intent[created[i]].origin = peer
  <2> SUFFICES ASSUME i # None
               PROVE  /\ created[i] # None /\ intent[created[i]] # None
                      /\ intent[created[i]].subject = y.subject /\ intent[created[i]].origin = peer
    OBVIOUS
  <2>1. /\ conn[r].name \in Names /\ intent[conn[r].name] # None
        /\ intent[conn[r].name].subject = conn[r].subject /\ intent[conn[r].name].origin = peer
        /\ i = binding[conn[r].name]
    BY <1>0, <1>1 DEF Resolves, Connection
  <2>2. created[i] = conn[r].name
    BY <2>1 DEF TeamInv, PeerSessions
  <2> QED
    BY <1>3, <2>1, <2>2, TeamAssumption
<1>7. Authenticated(conn[r])'
  BY <1>1, <1>3, <1>4, <1>5 DEF Authenticated
<1>8. Resolved(conn[r])'
  BY <1>0, <1>1, <1>3, <1>4, <1>6 DEF Resolved
<1>9. HasRow(conn[r])'
  BY <1>1, <1>3, <1>4, <1>5 DEF HasRow, Admitted, Guarding
<1>10. conn'[r] \in Right'
  BY <1>2, <1>4, <1>7, <1>8, <1>9 DEF Right
<1>11. LiveFollows(r)
  BY <1>1, <1>3, <1>4 DEF LiveFollows, Guarding
<1> QED
  BY <1>1, <1>3, <1>4, <1>10, <1>11, OnlyConnection

\* admit: a fresh row of the refreshed subject and version, late at most for this job.
LEMMA AdmitKeepsInv ==
  ASSUME TeamInv, NEW r \in Connections, NEW i \in Ids, Admit(r, i)
  PROVE  TeamInv'
<1> DEFINE y == [conn[r] EXCEPT !.pc = "committed", !.id = i]
           new == [subject |-> conn[r].subject, version |-> conn[r].version,
                   gid |-> None, ended |-> FALSE]
<1>0. conn \in [Connections -> Connection] /\ conn[r] \in Connection
  BY DEF TeamInv, TeamTypeOK
<1>1. /\ conn' = [conn EXCEPT ![r] = y] /\ conn[r].pc = "locked" /\ row[i] = None
      /\ row' = [row EXCEPT ![i] = new]
      /\ late' = IF Current(conn[r].subject, conn[r].version) THEN late ELSE late \cup {i}
      /\ UNCHANGED <<auth, peer, live, intent, binding, posts, created, calls>>
  BY DEF Admit, Set
<1>2. Authenticated(conn[r]) /\ Resolved(conn[r]) /\ HasRow(conn[r])
  BY DEF TeamInv, Right
<1>3. conn[r].subject \in Subjects /\ conn[r].version \in Nat
  BY <1>0, <1>1, <1>2 DEF Authenticated, Connection
<1>4. new \in Row /\ new # None
  <2>1. None \in GatewayIds \cup {None} /\ FALSE \in BOOLEAN
    OBVIOUS
  <2>2. new \in Row
    BY <1>3, <2>1 DEF Row
  <2> QED
    BY <2>2, TeamAssumption
<1>5. new.subject = conn[r].subject /\ new.version = conn[r].version
  OBVIOUS
<1> HIDE DEF new
<1>6. /\ row'[i] = new /\ \A k \in Ids \ {i} : row'[k] = row[k]
      /\ row' \in [Ids -> Row \cup {None}]
  BY <1>1, <1>4 DEF TeamInv, TeamTypeOK
<1>7. y \in Connection
  BY <1>0 DEF Connection, Stages
<1>8. /\ y.pc = "committed" /\ y.id = i /\ y.kind = conn[r].kind
      /\ y.subject = conn[r].subject /\ y.version = conn[r].version
      /\ y.key = conn[r].key /\ y.name = conn[r].name /\ y.peer = conn[r].peer
      /\ y.internal = conn[r].internal
  BY <1>0 DEF Connection
<1>9. conn'[r] = y
  BY <1>0, <1>1
<1> HIDE DEF y
<1>10. TeamTypeOK'
  BY <1>1, <1>6, <1>7, <1>9 DEF TeamInv, TeamTypeOK
<1>11. Grows
  <2>1. \A s \in Subjects : auth[s].version \in Nat
    BY DEF TeamInv, TeamTypeOK
  <2> QED
    BY <1>1, <1>6, <2>1 DEF Grows
<1>12. conn'[r] \in Right'
  <2>1. Authenticated(conn[r])'
    BY <1>1, <1>2, <1>8, <1>9 DEF Authenticated
  <2>2. Resolved(conn[r])'
    BY <1>1, <1>2, <1>8, <1>9 DEF Resolved
  <2>3. HasRow(conn[r])'
    BY <1>4, <1>5, <1>6, <1>8, <1>9, TeamAssumption DEF HasRow, Admitted
  <2> QED
    BY <1>7, <1>9, <2>1, <2>2, <2>3 DEF Right
<1>13. LiveFollows(r)
  BY <1>1, <1>8, <1>9 DEF LiveFollows, Guarding
<1>14. /\ \A q \in Connections : conn'[q] \in Right'
       /\ OwnIds' /\ OneAtLedger' /\ ActiveIsOwned'
  BY <1>1, <1>8, <1>9, <1>10, <1>11, <1>12, <1>13, ConnectionMoves
<1>15. RefreshedIsNewer'
  <2>1. \A q \in Connections : conn'[q].pc # "locked"
    BY <1>0, <1>1, <1>8, <1>9 DEF TeamInv, OneAtLedger
  <2> QED
    BY <2>1 DEF RefreshedIsNewer
<1>16. /\ \A k \in late : /\ row'[k] # None /\ row'[k].version < auth'[row'[k].subject].version
                          /\ row'[k].subject = row[k].subject /\ row'[k].version = row[k].version
       /\ CallsAreAdmitted' /\ (late' = late => LateIsOld' /\ OneLateAdmission')
  BY <1>1, <1>10, <1>11, LedgerStays
<1>17. LateIsOld' /\ OneLateAdmission'
  <2>1. CASE late' = late
    BY <1>16, <2>1
  <2>2. CASE late' = late \cup {i} /\ ~Current(conn[r].subject, conn[r].version)
    <3>1. auth[conn[r].subject].version \in Nat
      BY <1>3 DEF TeamInv, TeamTypeOK
    <3>2. new.version < auth[new.subject].version
      BY <1>1, <1>2, <1>3, <1>5, <2>2, <3>1 DEF Authenticated, Current
    <3>3. LateIsOld'
      BY <1>1, <1>4, <1>6, <1>16, <2>2, <3>2 DEF LateIsOld
    <3>4. \A k \in late : row'[k].subject # new.subject \/ row'[k].version # new.version
      BY <1>1, <1>5, <1>16 DEF TeamInv, RefreshedIsNewer
    <3>5. OneLateAdmission'
      BY <1>6, <1>16, <2>2, <3>4 DEF TeamInv, OneLateAdmission
    <3> QED
      BY <3>3, <3>5
  <2> QED
    BY <1>1, <2>1, <2>2
<1>18. OneIntent' /\ PeerSessions'
  BY <1>1, SessionsStay
<1> QED
  BY <1>10, <1>14, <1>15, <1>16, <1>17, <1>18 DEF TeamInv

\* send: the call is that of an admitted row, with the session that was looked up.
LEMMA CallKeepsInv ==
  ASSUME TeamInv, NEW r \in Connections, Call(r)
  PROVE  TeamInv'
<1> DEFINE c == [id |-> conn[r].id, subject |-> conn[r].subject,
                 internal |-> conn[r].internal, peer |-> conn[r].peer]
<1>0. conn \in [Connections -> Connection] /\ conn[r] \in Connection
  BY DEF TeamInv, TeamTypeOK
<1>1. /\ conn' = [conn EXCEPT ![r] = [conn[r] EXCEPT !.pc = "sent"]] /\ conn[r].pc = "guarded"
      /\ calls' = calls \cup {c}
      /\ UNCHANGED <<auth, peer, row, live, intent, binding, posts, created, late>>
  BY DEF Call, Set
<1>2. Keeps(r) /\ conn'[r].pc = "sent"
  BY <1>0, <1>1, StageKeeps DEF Stages
<1>3. conn'[r] \in Right'
  BY <1>1, <1>2, FurtherIsRight DEF Admitted, Guarding
<1>4. LiveFollows(r)
  BY <1>1, <1>2 DEF LiveFollows, Guarding, Keeps
<1>5. Authenticated(conn[r]) /\ Resolved(conn[r]) /\ HasRow(conn[r])
  BY DEF TeamInv, Right
<1>6. /\ conn[r].id \in Ids /\ conn[r].subject \in Subjects /\ conn[r].peer \in Origins
      /\ conn[r].internal \in Internals \cup {None}
  BY <1>0, <1>1, <1>5 DEF Authenticated, Resolved, HasRow, Admitted, Guarding, Connection
<1>7. c \in [id : Ids, subject : Subjects, internal : Internals \cup {None}, peer : Origins]
  BY <1>6
<1>8. TeamTypeOK'
  BY <1>1, <1>2, <1>7 DEF TeamInv, TeamTypeOK, Keeps
<1>9. Grows
  BY <1>1, SameGrows DEF TeamInv
<1>10. /\ \A q \in Connections : conn'[q] \in Right'
       /\ OwnIds' /\ OneAtLedger' /\ ActiveIsOwned' /\ RefreshedIsNewer'
  BY <1>1, <1>2, <1>3, <1>4, <1>8, <1>9, ConnectionMoves DEF Keeps
<1>11. LateIsOld' /\ OneLateAdmission'
  BY <1>1, <1>8, <1>9, LedgerStays
<1>12. CallsAreAdmitted'
  <2>1. /\ row[c.id] # None /\ row[c.id].subject = c.subject
        /\ c.internal # None =>
             /\ created[c.internal] # None
             /\ intent[created[c.internal]].subject = c.subject
             /\ intent[created[c.internal]].origin = c.peer
    BY <1>1, <1>5 DEF Resolved, HasRow, Admitted, Guarding
  <2> HIDE DEF c
  <2> QED
    BY <1>1, <2>1 DEF TeamInv, CallsAreAdmitted
<1>13. OneIntent' /\ PeerSessions'
  BY <1>1, SessionsStay
<1> QED
  BY <1>8, <1>10, <1>11, <1>12, <1>13 DEF TeamInv

\* Evidence of headers and of the end is added to a row; the end releases the permit.
LEMMA EvidenceKeepsInv ==
  ASSUME TeamInv, NEW r \in Connections,
         (\E g \in GatewayIds \cup {None} : Headers(r, g)) \/ Finish(r)
  PROVE  TeamInv'
<1>0. conn \in [Connections -> Connection] /\ conn[r] \in Connection
  BY DEF TeamInv, TeamTypeOK
<1>1. /\ conn[r].pc \in {"sent", "ending"}
      /\ \/ \E g \in GatewayIds \cup {None} : row' = [row EXCEPT ![conn[r].id] = [@ EXCEPT !.gid = g]]
         \/ row' = [row EXCEPT ![conn[r].id] = [@ EXCEPT !.ended = TRUE]]
         \/ row' = row
      /\ UNCHANGED <<auth, peer, live, intent, binding, posts, created, calls, late>>
  BY DEF Headers, Finish
<1>2. HasRow(conn[r])
  BY DEF TeamInv, Right
<1>3. conn[r].id \in Ids /\ row[conn[r].id] # None
  BY <1>0, <1>1, <1>2 DEF HasRow, Admitted, Guarding, Connection
<1>4. Grows /\ row' \in [Ids -> Row \cup {None}]
  BY <1>1, <1>3, EvidenceGrows DEF TeamInv
<1>5. /\ conn' \in [Connections -> Connection] /\ conn' = [conn EXCEPT ![r] = conn'[r]]
      /\ conn'[r].id # None => conn'[r].id = conn[r].id
      /\ conn'[r].pc \notin {"locked", "committed"} /\ LiveFollows(r)
      /\ (Keeps(r) /\ conn'[r].pc = "streaming") \/ conn'[r] = Idle
  <2>1. ASSUME NEW g \in GatewayIds \cup {None}, Headers(r, g)
        PROVE  Keeps(r) /\ conn'[r].pc = "streaming" /\ conn[r].pc = "sent"
    BY <1>0, <2>1, StageKeeps DEF Headers, Set, Stages
  <2>2. CASE Finish(r)
    <3>1. conn' = [conn EXCEPT ![r] = Idle] /\ conn[r].pc = "ending" /\ conn'[r] = Idle
      BY <1>0, <2>2 DEF Finish, Set
    <3> QED
      BY <1>0, <1>1, <3>1, IdleIsRight DEF LiveFollows, Guarding, Right
  <2>3. Keeps(r) /\ conn'[r].pc = "streaming" /\ conn[r].pc = "sent" => LiveFollows(r)
    BY <1>1 DEF Keeps, LiveFollows, Guarding
  <2> QED
    BY <1>0, <2>1, <2>2, <2>3 DEF Keeps
<1>6. TeamTypeOK'
  BY <1>1, <1>4, <1>5 DEF TeamInv, TeamTypeOK
<1>7. Right \subseteq Right' /\ conn[r] \in Right
  BY <1>4, <1>6, RightStays DEF TeamInv
<1>8. conn'[r] \in Right'
  <2>1. CASE conn'[r] = Idle
    BY <1>7, <2>1, IdleIsRight
  <2>2. CASE Keeps(r) /\ conn'[r].pc = "streaming"
    <3>1. conn'[r].pc \in Admitted
      BY <2>2 DEF Admitted, Guarding
    <3>2. conn[r].pc \in Admitted /\ conn[r].pc # "idle" /\ conn'[r].pc # "posting"
      BY <1>1, <2>2 DEF Admitted, Guarding
    <3>4. Authenticated(conn[r]) /\ Resolved(conn[r])
      BY DEF TeamInv, Right
    <3>5. Authenticated(conn[r])'
      BY <1>1, <2>2, <3>2, <3>4 DEF Authenticated, Keeps
    <3>6. Resolved(conn[r])'
      BY <1>1, <2>2, <3>2, <3>4 DEF Resolved, Keeps
    <3>7. HasRow(conn[r])'
      BY <1>2, <1>3, <1>4, <2>2, <3>1, TeamAssumption DEF HasRow, Keeps, Grows
    <3> QED
      BY <2>2, <3>5, <3>6, <3>7 DEF Right, Keeps
  <2> QED
    BY <1>5, <2>1, <2>2
<1>9. /\ \A q \in Connections : conn'[q] \in Right'
      /\ OwnIds' /\ OneAtLedger' /\ ActiveIsOwned' /\ RefreshedIsNewer'
  BY <1>1, <1>4, <1>5, <1>6, <1>8, ConnectionMoves
<1>10. LateIsOld' /\ OneLateAdmission' /\ CallsAreAdmitted'
  BY <1>1, <1>4, <1>6, LedgerStays
<1>11. OneIntent' /\ PeerSessions'
  BY <1>1, SessionsStay
<1> QED
  BY <1>6, <1>9, <1>10, <1>11 DEF TeamInv

\* session_intent: the first intent of its subject and key, sent to the peer at most once.
LEMMA IntendKeepsInv ==
  ASSUME TeamInv, NEW r \in Connections, NEW n \in Names, Intend(r, n)
  PROVE  TeamInv'
<1> DEFINE y == [conn[r] EXCEPT !.pc = "posting", !.name = n]
           new == [subject |-> conn[r].subject, key |-> conn[r].key, origin |-> conn[r].peer]
<1>0. conn \in [Connections -> Connection] /\ conn[r] \in Connection
  BY DEF TeamInv, TeamTypeOK
<1>1. /\ conn[r].pc = "locked" /\ conn[r].kind = "create" /\ intent[n] = None
      /\ Fresh(conn[r].subject, conn[r].key)
      /\ intent' = [intent EXCEPT ![n] = new]
      /\ \/ conn' = [conn EXCEPT ![r] = Idle] /\ posts' = posts
         \/ conn' = [conn EXCEPT ![r] = y] /\ posts' = posts \cup {n}
      /\ UNCHANGED <<auth, peer, row, live, binding, created, calls, late>>
  BY DEF Intend, Set
<1>2. Authenticated(conn[r]) /\ Resolved(conn[r]) /\ HasRow(conn[r])
  BY DEF TeamInv, Right
<1>3. conn[r].subject \in Subjects /\ conn[r].key \in Keys /\ conn[r].peer \in Origins
  BY <1>1, <1>2 DEF Authenticated, Resolved
<1>4. new \in Intent /\ new # None
  <2>1. new \in Intent
    BY <1>3 DEF Intent
  <2> QED
    BY <2>1, TeamAssumption
<1>5. new.subject = conn[r].subject /\ new.key = conn[r].key
  OBVIOUS
<1> HIDE DEF new
<1>6. /\ intent'[n] = new /\ \A m \in Names \ {n} : intent'[m] = intent[m]
      /\ intent' \in [Names -> Intent \cup {None}]
  BY <1>1, <1>4 DEF TeamInv, TeamTypeOK
<1>7. y \in Connection
  BY <1>0 DEF Connection, Stages
<1>8. /\ y.pc = "posting" /\ y.id = conn[r].id /\ y.kind = conn[r].kind
      /\ y.subject = conn[r].subject /\ y.version = conn[r].version
      /\ y.key = conn[r].key /\ y.name = n /\ y.peer = conn[r].peer
      /\ y.internal = conn[r].internal
  BY <1>0 DEF Connection
<1> HIDE DEF y
<1>9. /\ conn' = [conn EXCEPT ![r] = conn'[r]] /\ (conn'[r] = Idle \/ conn'[r] = y)
      /\ conn' \in [Connections -> Connection]
  BY <1>0, <1>1, <1>7, IdleIsRight DEF Right
<1>10. TeamTypeOK'
  BY <1>1, <1>6, <1>9 DEF TeamInv, TeamTypeOK
<1>11. Grows
  <2>1. \A s \in Subjects : auth[s].version \in Nat
    BY DEF TeamInv, TeamTypeOK
  <2> QED
    BY <1>1, <1>6, <2>1 DEF Grows
<1>12. Right \subseteq Right' /\ conn[r] \in Right
  BY <1>10, <1>11, RightStays DEF TeamInv
<1>13. conn'[r] \in Right'
  <2>1. CASE conn'[r] = Idle
    BY <1>12, <2>1, IdleIsRight
  <2>2. CASE conn'[r] = y
    <3>1. Authenticated(conn[r])'
      BY <1>1, <1>2, <1>8, <2>2 DEF Authenticated
    <3>2. y.internal # None => y.internal \in Internals /\ created[y.internal] \in Names \cup {None}
      BY <1>0, <1>8 DEF Connection, TeamInv, TeamTypeOK
    <3>3. Resolved(conn[r])'
      BY <1>1, <1>2, <1>8, <1>11, <2>2, <3>2 DEF Resolved, Admitted, Guarding, Grows
    <3>4. HasRow(conn[r])'
      BY <1>1, <1>2, <1>8, <2>2 DEF HasRow, Admitted, Guarding
    <3> QED
      BY <1>7, <2>2, <3>1, <3>3, <3>4 DEF Right
  <2> QED
    BY <1>9, <2>1, <2>2
<1>14. /\ conn'[r].id # None => conn'[r].id = conn[r].id
       /\ conn'[r].pc \in {"idle", "posting"} /\ LiveFollows(r)
  BY <1>1, <1>8, <1>9, IdleIsRight DEF LiveFollows, Guarding
<1>15. /\ \A q \in Connections : conn'[q] \in Right'
       /\ OwnIds' /\ OneAtLedger' /\ ActiveIsOwned' /\ RefreshedIsNewer'
  BY <1>1, <1>9, <1>10, <1>11, <1>13, <1>14, ConnectionMoves
<1>16. LateIsOld' /\ OneLateAdmission' /\ CallsAreAdmitted'
  BY <1>1, <1>10, <1>11, LedgerStays
<1>17. OneIntent'
  <2>1. \A m \in Names \ {n} :
           intent[m] # None => intent[m].subject # new.subject \/ intent[m].key # new.key
    BY <1>1, <1>5 DEF Fresh
  <2> QED
    BY <1>6, <2>1 DEF TeamInv, OneIntent
<1>18. PeerSessions'
  <2>1. n # None /\ \A x \in Internals : created[x] \in Names \cup {None}
    BY TeamAssumption DEF TeamInv, TeamTypeOK
  <2>2. \A x \in Internals : created[x] # n
    BY <1>1, <2>1 DEF TeamInv, PeerSessions
  <2>3. posts' \subseteq posts \cup {n} /\ created' = created /\ binding' = binding /\ posts \subseteq Names
    BY <1>1 DEF TeamInv, TeamTypeOK
  <2>4. \A m \in posts' : intent'[m] # None /\ \A x \in Internals : created'[x] # m
    BY <1>4, <1>6, <2>2, <2>3 DEF TeamInv, PeerSessions
  <2>5. \A x \in Internals : created'[x] # None => intent'[created'[x]] # None
    BY <1>4, <1>6, <2>1, <2>3 DEF TeamInv, PeerSessions
  <2> QED
    BY <2>3, <2>4, <2>5 DEF TeamInv, PeerSessions
<1> QED
  BY <1>10, <1>15, <1>16, <1>17, <1>18 DEF TeamInv

\* bind_session: the public name stands for the session created for it.
LEMMA BindKeepsInv ==
  ASSUME TeamInv, NEW r \in Connections, NEW x \in Internals, Bind(r, x)
  PROVE  TeamInv'
<1>0. conn \in [Connections -> Connection] /\ conn[r] \in Connection
  BY DEF TeamInv, TeamTypeOK
<1>1. /\ conn[r].pc = "posting" /\ created[x] = conn[r].name
      /\ binding' = [binding EXCEPT ![conn[r].name] = x]
      /\ conn' = [conn EXCEPT ![r] = Idle]
      /\ UNCHANGED <<auth, peer, row, live, intent, posts, created, calls, late>>
  BY DEF Bind, Set
<1>2. conn[r].name \in Names
  BY <1>1 DEF TeamInv, Right, Resolved
<1>3. conn'[r] = Idle /\ Idle \in Connection /\ conn' \in [Connections -> Connection]
  BY <1>0, <1>1, IdleIsRight DEF Right
<1>4. TeamTypeOK'
  BY <1>1, <1>2, <1>3 DEF TeamInv, TeamTypeOK
<1>5. Grows
  BY <1>1, SameGrows DEF TeamInv
<1>6. conn'[r] \in Right'
  BY <1>3, <1>4, <1>5, IdleIsRight, RightStays DEF TeamInv
<1>7. LiveFollows(r)
  BY <1>1, <1>3, IdleIsRight DEF LiveFollows, Guarding
<1>8. /\ \A q \in Connections : conn'[q] \in Right'
      /\ OwnIds' /\ OneAtLedger' /\ ActiveIsOwned' /\ RefreshedIsNewer'
  BY <1>1, <1>3, <1>4, <1>5, <1>6, <1>7, IdleIsRight, ConnectionMoves
<1>9. LateIsOld' /\ OneLateAdmission' /\ CallsAreAdmitted'
  BY <1>1, <1>4, <1>5, LedgerStays
<1>10. OneIntent'
  BY <1>1 DEF TeamInv, OneIntent
<1>11. PeerSessions'
  <2>1. \A m \in Names : binding'[m] # None => created'[binding'[m]] = m
    BY <1>1, <1>2 DEF TeamInv, TeamTypeOK, PeerSessions
  <2> QED
    BY <1>1, <2>1 DEF TeamInv, PeerSessions
<1> QED
  BY <1>4, <1>8, <1>9, <1>10, <1>11 DEF TeamInv

\* The connections and the ledger are left alone: the host, the peer.
LEMMA OthersKeepInv ==
  ASSUME TeamInv, TeamTypeOK', Grows, UNCHANGED <<conn, row, live, intent, calls, late>>,
         PeerSessions'
  PROVE  TeamInv'
<1>1. \A q \in Connections : conn'[q] \in Right'
  BY RightStays DEF TeamInv
<1>2. LateIsOld' /\ OneLateAdmission' /\ CallsAreAdmitted'
  BY LedgerStays
<1>3. OwnIds' /\ OneAtLedger' /\ RefreshedIsNewer' /\ OneIntent' /\ ActiveIsOwned'
  BY DEF TeamInv, OwnIds, OneAtLedger, RefreshedIsNewer, OneIntent, ActiveIsOwned
<1> QED
  BY <1>1, <1>2, <1>3 DEF TeamInv

\* The host changes an authorization or the peer; the peer handles a creation.
LEMMA EnvironmentKeepsInv ==
  ASSUME TeamInv,
         \/ \E s \in Subjects, e \in BOOLEAN : ChangeAuthority(s, e)
         \/ \E o \in Origins : ReplacePeer(o)
         \/ \E n \in Names, x \in Internals : PeerCreates(n, x)
  PROVE  TeamInv'
<1>1. ASSUME NEW s \in Subjects, NEW e \in BOOLEAN, ChangeAuthority(s, e)
      PROVE  TeamInv'
  <2> DEFINE new == [version |-> auth[s].version + 1, enabled |-> e]
  <2>1. /\ auth' = [auth EXCEPT ![s] = new]
        /\ UNCHANGED <<peer, conn, row, live, intent, binding, posts, created, calls, late>>
    BY <1>1 DEF ChangeAuthority
  <2>2. \A t \in Subjects : auth[t].version \in Nat
    BY DEF TeamInv, TeamTypeOK
  <2>3. auth[s].version + 1 \in Nat
    BY <2>2
  <2>4. new \in [version : Nat, enabled : BOOLEAN] /\ new.version = auth[s].version + 1
    BY <2>3
  <2> HIDE DEF new
  <2>5. auth' \in [Subjects -> [version : Nat, enabled : BOOLEAN]]
        /\ auth'[s] = new /\ \A t \in Subjects \ {s} : auth'[t] = auth[t]
    BY <2>1, <2>4 DEF TeamInv, TeamTypeOK
  <2>6. TeamTypeOK'
    BY <2>1, <2>5 DEF TeamInv, TeamTypeOK
  <2>7. Grows
    BY <2>1, <2>2, <2>4, <2>5 DEF Grows
  <2>8. PeerSessions'
    BY <2>1, SessionsStay
  <2> QED
    BY <2>1, <2>6, <2>7, <2>8, OthersKeepInv
<1>2. ASSUME NEW o \in Origins, ReplacePeer(o)
      PROVE  TeamInv'
  <2>1. TeamTypeOK'
    BY <1>2 DEF ReplacePeer, TeamInv, TeamTypeOK
  <2>2. Grows
    BY <1>2, SameGrows DEF ReplacePeer, TeamInv
  <2>3. PeerSessions'
    BY <1>2, SessionsStay DEF ReplacePeer
  <2> QED
    BY <1>2, <2>1, <2>2, <2>3, OthersKeepInv DEF ReplacePeer
<1>3. ASSUME NEW n \in Names, NEW x \in Internals, PeerCreates(n, x)
      PROVE  TeamInv'
  <2>1. /\ n \in posts /\ created[x] = None /\ n # None
        /\ created' = [created EXCEPT ![x] = n] /\ posts' = posts \ {n}
        /\ UNCHANGED <<auth, peer, conn, row, live, intent, binding, calls, late>>
    BY <1>3, TeamAssumption DEF PeerCreates
  <2>2. TeamTypeOK'
    BY <2>1 DEF TeamInv, TeamTypeOK
  <2>3. created'[x] = n /\ \A z \in Internals \ {x} : created'[z] = created[z]
    BY <2>1 DEF TeamInv, TeamTypeOK
  <2>4. Grows
    <3>1. \A t \in Subjects : auth[t].version \in Nat
      BY DEF TeamInv, TeamTypeOK
    <3> QED
      BY <2>1, <2>3, <3>1 DEF Grows
  <2>5. PeerSessions'
    <3>1. intent[n] # None /\ \A z \in Internals : created[z] # n
      BY <2>1 DEF TeamInv, PeerSessions
    <3>2. \A m \in Names : binding[m] # None => binding[m] \in Internals /\ created[binding[m]] = m /\ m # None
      BY TeamAssumption DEF TeamInv, TeamTypeOK, PeerSessions
    <3> QED
      BY <2>1, <2>3, <3>1, <3>2 DEF TeamInv, PeerSessions
  <2> QED
    BY <2>1, <2>2, <2>4, <2>5, OthersKeepInv
<1> QED
  BY <1>1, <1>2, <1>3

\* The process ends: no future, no guard, nothing live.
LEMMA CrashKeepsInv ==
  ASSUME TeamInv, Crash
  PROVE  TeamInv'
<1>1. /\ conn' = [r \in Connections |-> Idle] /\ live' = {}
      /\ UNCHANGED <<auth, peer, row, intent, binding, posts, created, calls, late>>
  BY DEF Crash
<1>2. /\ \A r \in Connections : conn'[r] = Idle
      /\ Idle \in Connection /\ Idle.pc = "idle" /\ Idle.id = None
  BY <1>1, IdleIsRight DEF Right
<1>3. TeamTypeOK'
  BY <1>1, <1>2 DEF TeamInv, TeamTypeOK
<1>4. Grows
  BY <1>1, SameGrows DEF TeamInv
<1>5. \A q \in Connections : conn'[q] \in Right'
  BY <1>2, <1>3, <1>4, IdleIsRight, RightStays DEF TeamInv
<1>6. LateIsOld' /\ OneLateAdmission' /\ CallsAreAdmitted'
  BY <1>1, <1>3, <1>4, LedgerStays
<1>7. OwnIds' /\ OneAtLedger' /\ RefreshedIsNewer' /\ ActiveIsOwned'
  BY <1>1, <1>2 DEF OwnIds, OneAtLedger, RefreshedIsNewer, ActiveIsOwned
<1>8. OneIntent' /\ PeerSessions'
  BY <1>1, SessionsStay
<1> QED
  BY <1>3, <1>5, <1>6, <1>7, <1>8 DEF TeamInv

\* Every step keeps the invariant.
LEMMA TeamInvStep == TeamInv /\ [TeamNext]_vars => TeamInv'
<1> SUFFICES ASSUME TeamInv, [TeamNext]_vars PROVE TeamInv'
  OBVIOUS
<1>1. CASE UNCHANGED vars
  <2>1. TeamTypeOK'
    BY <1>1 DEF vars, TeamInv, TeamTypeOK
  <2>2. Grows
    BY <1>1, SameGrows DEF vars, TeamInv
  <2>3. PeerSessions'
    BY <1>1, SessionsStay DEF vars
  <2> QED
    BY <1>1, <2>1, <2>2, <2>3, OthersKeepInv DEF vars
<1>2. ASSUME NEW r \in Connections,
             \/ \E s \in Subjects :
                  \/ Arrive(r, s, "plain", None, None)
                  \/ \E n \in Names : Arrive(r, s, "managed", None, n)
                  \/ \E k \in Keys : Arrive(r, s, "create", k, None)
             \/ Submit(r) \/ Reject(r) \/ Unconfirmed(r)
      PROVE  TeamInv'
  BY <1>2, OutsideKeepsInv
<1>3. ASSUME NEW r \in Connections, Return(r) \/ TransportEnds(r) \/ Disconnect(r)
      PROVE  TeamInv'
  BY <1>3, GuardKeepsInv
<1>4. ASSUME NEW r \in Connections, NEW i \in Internals \cup {None}, LockRefresh(r, i)
      PROVE  TeamInv'
  BY <1>4, LockKeepsInv
<1>5. ASSUME NEW r \in Connections, NEW i \in Ids, Admit(r, i)
      PROVE  TeamInv'
  BY <1>5, AdmitKeepsInv
<1>6. ASSUME NEW r \in Connections, Call(r)
      PROVE  TeamInv'
  BY <1>6, CallKeepsInv
<1>7. ASSUME NEW r \in Connections, (\E g \in GatewayIds \cup {None} : Headers(r, g)) \/ Finish(r)
      PROVE  TeamInv'
  BY <1>7, EvidenceKeepsInv
<1>8. ASSUME NEW r \in Connections, NEW n \in Names, Intend(r, n)
      PROVE  TeamInv'
  BY <1>8, IntendKeepsInv
<1>9. ASSUME NEW r \in Connections, NEW x \in Internals, Bind(r, x)
      PROVE  TeamInv'
  BY <1>9, BindKeepsInv
<1>10. CASE \/ \E s \in Subjects, e \in BOOLEAN : ChangeAuthority(s, e)
            \/ \E o \in Origins : ReplacePeer(o)
            \/ \E n \in Names, x \in Internals : PeerCreates(n, x)
  BY <1>10, EnvironmentKeepsInv
<1>11. CASE Crash
  BY <1>11, CrashKeepsInv
<1> QED
  BY <1>1, <1>2, <1>3, <1>4, <1>5, <1>6, <1>7, <1>8, <1>9, <1>10, <1>11 DEF TeamNext

\* TeamInv holds in every state.
LEMMA TeamInvariant == TeamSpec => []TeamInv
  BY TeamInvInit, TeamInvStep, PTL DEF TeamSpec

-----------------------------------------------------------------------------
(* What the entry point promises.                                          *)

\* Every variable keeps the type of the crate's structures and tables.
THEOREM TeamTypeCorrect == TeamSpec => []TeamTypeOK
<1>1. TeamInv => TeamTypeOK
  BY DEF TeamInv
<1> QED
  BY <1>1, TeamInvariant, PTL

\* The live set and the guards agree whatever future is dropped at whatever await: no
\* cancelled caller leaves a request that the usage view shows as active.
THEOREM ActiveRequestsAreOwned == TeamSpec => []ActiveIsOwned
<1>1. TeamInv => ActiveIsOwned
  BY DEF TeamInv
<1> QED
  BY <1>1, TeamInvariant, PTL

\* However many calls of a subject wait at the ledger when its authorization changes, at
\* most one is admitted under the old version.
THEOREM LateAdmissionIsAlone == TeamSpec => []OneLateAdmission
<1>1. TeamInv => OneLateAdmission
  BY DEF TeamInv
<1> QED
  BY <1>1, TeamInvariant, PTL

\* Every call at the peer has its admitted row, and the session it carries belongs to the
\* subject and was created for the origin the call goes to.
THEOREM CallsAlwaysAdmitted == TeamSpec => []CallsAreAdmitted
<1>1. TeamInv => CallsAreAdmitted
  BY DEF TeamInv
<1> QED
  BY <1>1, TeamInvariant, PTL

\* An idempotency key of a subject creates at most one session at the peer, over lost
\* answers, retries and restarts.
THEOREM SessionsCreatedOnce == TeamSpec => []CreatedOnce
<1>1. TeamInv => CreatedOnce
  <2> SUFFICES ASSUME TeamInv, NEW x \in Internals, NEW y \in Internals,
                      created[x] # None, created[y] # None,
                      intent[created[x]].subject = intent[created[y]].subject,
                      intent[created[x]].key = intent[created[y]].key
               PROVE  x = y
    BY DEF CreatedOnce
  <2>1. created[x] \in Names /\ created[y] \in Names
    BY DEF TeamInv, TeamTypeOK
  <2>2. intent[created[x]] # None /\ intent[created[y]] # None
    BY DEF TeamInv, PeerSessions
  <2>3. created[x] = created[y]
    BY <2>1, <2>2 DEF TeamInv, OneIntent
  <2> QED
    BY <2>3 DEF TeamInv, PeerSessions
<1> QED
  BY <1>1, TeamInvariant, PTL
=============================================================================
