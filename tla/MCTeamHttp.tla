----------------------------- MODULE MCTeamHttp -----------------------------
(***************************************************************************)
(* Two subjects, two calls at a time and a peer that answers late, repeats *)
(* an identifier and is replaced by one with another route.                *)
(***************************************************************************)
EXTENDS TeamHttp, TLC

\* Identifiers, connections and subjects are interchangeable.
MCSymmetry == Permutations(Connections) \cup Permutations(Subjects) \cup Permutations(Ids)
              \cup Permutations(Names) \cup Permutations(Internals)

\* The subjects of the calls at work, the rows and the changed authorizations.
Concerned == ({conn[r].subject : r \in Connections} \ {None})
             \cup {row[i].subject : i \in {j \in Ids : row[j] # None}}
             \cup {s \in Subjects : auth[s].version # 0}

\* Bound: while an authorization has changed or a second row exists, only model
\* calls of one subject without a session are at work, and the peer was not replaced.
Focus ==
    \/ /\ \A s \in Subjects : auth[s].version = 0
       /\ Cardinality({i \in Ids : row[i] # None}) <= 1
    \/ /\ \A n \in Names : intent[n] = None
       /\ \A r \in Connections : conn[r].kind \in {"plain", None}
       /\ Cardinality(Concerned) <= 1
       /\ \A r \in Connections : conn[r].peer \in {peer, None}
       /\ \A c \in calls : c.peer = peer
=============================================================================
