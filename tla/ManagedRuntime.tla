--------------------------- MODULE ManagedRuntime ---------------------------
(***************************************************************************)
(* The owned runtime and configuration adapter                             *)
(* (src/crates/management-runtime/src/lib.rs) under the management         *)
(* journal, with the child process it supervises (src/main.rs of the same  *)
(* crate).  State file, candidate files, receipts, child and journal are   *)
(* not one transaction: the manager can die between any two of the steps   *)
(* below, the child at any time, and the host can edit files beside them.  *)
(***************************************************************************)
EXTENDS ManagementJournal

CONSTANTS
    Candidates,   \* candidate identifiers
    Contents,     \* configuration bytes, identified by their digest
    Valid,        \* the contents that Config::parse_startup accepts
    Torn,         \* an incompletely written file
    Children      \* child processes (bound: each is spawned once)

ASSUME RuntimeAssumption ==
    /\ Valid \subseteq Contents
    /\ Torn \notin Contents
    /\ None \notin Candidates \cup Contents \cup Children \cup {"torn", "whole"}

VARIABLES
    disk,       \* state.json
    mem,        \* Runtime.state, the manager's copy of state.json
    cfile,      \* candidates/<digest of id>.toml
    source,     \* the registered source configuration
    receipt,    \* evidence/<digest of operation id>.json
    child,      \* processes of gateway-managed-child
    lease,      \* holder of runtime.lease
    owned,      \* Runtime.owned: the child handle
    ready,      \* Owned.ready is Some
    epoch,      \* Runtime.epoch
    work        \* where apply() is

runtimeVars == <<disk, mem, cfile, source, receipt, child, lease, owned, ready, epoch, work>>
vars == <<journalVars, runtimeVars>>

Command == [kind : {"stage"}, cand : Candidates, content : Contents]
           \cup [kind : {"select"}, cand : Candidates, content : {None}]
           \cup [kind : {"start", "stop", "restart"}, cand : {None}, content : {None}]

StateFile == [revision : Nat, selected : Candidates \cup {None},
              cands : [Candidates -> Contents \cup {None}]]

NoChild == [pc |-> "none", cand |-> None, content |-> None, stdin |-> FALSE, ok |-> FALSE]
Resting == [step |-> "rest", before |-> None, handle |-> None, performed |-> FALSE]

Empty == [revision |-> 0, selected |-> None, cands |-> [c \in Candidates |-> None]]

\* A new directory, or one whose first candidate was staged and selected under an
\* earlier journal.
Initial == {Empty} \cup
    {[revision |-> 2, selected |-> c, cands |-> [Empty.cands EXCEPT ![c] = v]] :
        c \in Candidates, v \in Valid}

RuntimeInit ==
    /\ JournalInit
    /\ disk \in Initial
    /\ mem = disk
    /\ cfile = disk.cands
    /\ source \in Contents
    /\ receipt = [o \in Operations |-> None]
    /\ child = [p \in Children |-> NoChild]
    /\ lease = None /\ owned = None /\ ready = FALSE
    /\ epoch = None
    /\ work = Resting

-----------------------------------------------------------------------------
(* What the manager observes.                                              *)

\* candidate(): the frozen bytes are still the recorded ones and still parse.
Intact(c) == mem.cands[c] # None /\ cfile[c] = mem.cands[c] /\ cfile[c] \in Valid

Desired == IF mem.selected # None /\ Intact(mem.selected) THEN mem.selected ELSE None

\* refresh_child: a handle whose process has ended is dropped and the epoch
\* becomes a fresh identifier, here that of the ended process.
Ended == owned # None /\ child[owned].pc = "gone"
Owner == IF Ended THEN None ELSE owned

Epoch == IF Ended THEN owned ELSE epoch

RefreshChild == owned' = Owner /\ epoch' = Epoch /\ ready' = (ready /\ ~Ended)

ExternalChange == disk # mem

\* observation(), whose digest is the snapshot.
Observation ==
    [epoch |-> Epoch, saved |-> mem, external |-> ExternalChange,
     ownership |-> IF Owner # None THEN "owned" ELSE IF lease = None THEN "stopped" ELSE "unowned",
     running |-> IF Owner # None /\ ready THEN Owner ELSE None,
     desired |-> Desired]

Status ==
    /\ mode = "open" /\ exec.pc = "idle" /\ Ended
    /\ RefreshChild
    /\ UNCHANGED <<journalVars, disk, mem, cfile, source, receipt, child, lease, work>>

-----------------------------------------------------------------------------
(* prepare_mapped, then accept; the expected snapshot is the current one.  *)

Preparable(m) ==
    /\ ExternalChange => m.kind = "stop"
    /\ CASE m.kind = "stage"   -> /\ mem.cands[m.cand] = None
                                  /\ source = m.content /\ source \in Valid
         [] m.kind = "select"  -> Intact(m.cand)
         [] m.kind = "start"   -> Owner = None /\ lease = None /\ Desired # None
         [] m.kind = "restart" -> (Owner = None => lease = None) /\ Desired # None
         [] m.kind = "stop"    -> Owner = None => lease = None

RAccept(o, s, k, m) ==
    /\ Preparable(m)
    /\ Accept(o, s, k, m)
    /\ RefreshChild
    /\ work' = [Resting EXCEPT !.step = "accepted", !.before = Observation]
    /\ UNCHANGED <<disk, mem, cfile, source, receipt, child, lease>>

RBegin == Begin /\ UNCHANGED runtimeVars

RFinish == Finish /\ UNCHANGED runtimeVars

RAppendFails ==
    /\ AppendFails
    /\ work' = Resting
    /\ UNCHANGED <<disk, mem, cfile, source, receipt, child, lease, owned, ready, epoch>>

-----------------------------------------------------------------------------
(* apply                                                                   *)

Cmd == operation[exec.op].request

Stale == Observation # work.before

RStale ==
    /\ work.step = "accepted"
    /\ Stale
    /\ Returned("not_applied", FALSE)
    /\ RefreshChild
    /\ work' = Resting
    /\ UNCHANGED <<disk, mem, cfile, source, receipt, child, lease>>

FirstStep == [stage |-> "create", select |-> "select", start |-> "spawn",
              stop |-> "stop", restart |-> "restart"]

RPerform ==
    /\ exec.pc = "started" /\ work.step = "accepted"
    /\ ~Stale
    /\ owned' = Owner /\ ready' = (ready /\ ~Ended)
    /\ epoch' = exec.op
    /\ work' = [work EXCEPT !.step = FirstStep[Cmd.kind]]
    /\ UNCHANGED <<journalVars, disk, mem, cfile, source, receipt, child, lease>>

Go(step) == work' = [work EXCEPT !.step = step]
Performed == work' = [work EXCEPT !.step = "receipt", !.performed = TRUE]

\* stage: the candidate file is created, never replaced, before the state names it.
StageCreate ==
    /\ work.step = "create"
    /\ source = Cmd.content /\ source \in Valid
    /\ cfile[Cmd.cand] = None
    /\ cfile' = [cfile EXCEPT ![Cmd.cand] = Cmd.content]
    /\ Go("save")
    /\ UNCHANGED <<journalVars, disk, mem, source, receipt, child, lease, owned, ready, epoch>>

SelectCheck ==
    /\ work.step = "select"
    /\ Intact(Cmd.cand)
    /\ Go("save")
    /\ UNCHANGED <<journalVars, disk, mem, cfile, source, receipt, child, lease, owned, ready, epoch>>

\* save: compare, then rename a complete temporary file over state.json.
SaveCheck ==
    /\ work.step = "save"
    /\ ~ExternalChange
    /\ Go("rename")
    /\ UNCHANGED <<journalVars, disk, mem, cfile, source, receipt, child, lease, owned, ready, epoch>>

NextState ==
    IF Cmd.kind = "stage"
    THEN [mem EXCEPT !.revision = @ + 1, !.cands[Cmd.cand] = Cmd.content]
    ELSE [mem EXCEPT !.revision = @ + 1, !.selected = Cmd.cand]

Rename ==
    /\ work.step = "rename"
    /\ disk' = NextState
    /\ \/ mem' = NextState /\ Performed
       \* sync_parent fails after the rename: the file is new, the copy is not.
       \/ mem' = mem /\ work' = [work EXCEPT !.step = "failed", !.performed = TRUE]
    /\ UNCHANGED <<journalVars, cfile, source, receipt, child, lease, owned, ready, epoch>>

\* start: spawn and write the launch frame.
Spawn(p) ==
    /\ work.step = "spawn"
    /\ Owner = None /\ lease = None /\ Desired # None
    /\ child[p].pc = "none"
    /\ child' = [child EXCEPT ![p] = [pc |-> "spawned", cand |-> Desired,
                                      content |-> mem.cands[Desired], stdin |-> TRUE, ok |-> FALSE]]
    /\ owned' = p /\ ready' = FALSE
    /\ epoch' = Epoch
    /\ Go("readiness")
    /\ UNCHANGED <<journalVars, disk, mem, cfile, source, receipt, lease>>

Readiness ==
    /\ work.step = "readiness"
    /\ child[owned].pc = "serving"
    /\ ready' = TRUE
    /\ Performed
    /\ UNCHANGED <<journalVars, disk, mem, cfile, source, receipt, child, lease, owned, epoch>>

\* stop_owned: the handle is taken and the control channel closed, then waited for.
TakeHandle(step) ==
    /\ work' = [work EXCEPT !.step = step, !.handle = owned]
    /\ child' = [child EXCEPT ![owned].stdin = FALSE]
    /\ owned' = None
    /\ UNCHANGED <<journalVars, disk, mem, cfile, source, receipt, lease, ready, epoch>>

\* Startup timeout, invalid readiness or a child that ended: clean up, then fail.
ReadinessFails == work.step = "readiness" /\ TakeHandle("cleanup")

StopBegin ==
    /\ work.step = "stop" \/ (work.step = "restart" /\ Desired # None)
    /\ IF owned # None
       THEN TakeHandle("waiting")
       ELSE /\ lease = None
            /\ IF work.step = "stop" THEN Performed ELSE Go("spawn")
            /\ UNCHANGED <<journalVars, disk, mem, cfile, source, receipt, child, lease,
                           owned, ready, epoch>>

\* The child ended with success within the deadline.
StopEnds ==
    /\ work.step = "waiting"
    /\ child[work.handle].pc = "gone" /\ child[work.handle].ok
    /\ work' = IF Cmd.kind = "restart" THEN [work EXCEPT !.step = "spawn", !.handle = None]
               ELSE [work EXCEPT !.step = "receipt", !.performed = TRUE, !.handle = None]
    /\ UNCHANGED <<journalVars, disk, mem, cfile, source, receipt, child, lease, owned, ready, epoch>>

\* Mutant of StopTimesOut: the wait has no deadline.
StopTimesOutNever ==
    /\ work.step \in {"waiting", "cleanup"}
    /\ child[work.handle].pc = "gone"
    /\ work' = [work EXCEPT !.step = "failed", !.handle = None]
    /\ UNCHANGED <<journalVars, disk, mem, cfile, source, receipt, child, lease, owned, ready, epoch>>

\* It ended otherwise, or is killed at the deadline; an unreaped child stays owned.
StopTimesOut ==
    /\ work.step \in {"waiting", "cleanup"}
    /\ work' = [work EXCEPT !.step = "failed", !.handle = None]
    /\ \/ /\ child' = [child EXCEPT ![work.handle].pc = "gone"]
          /\ lease' = IF lease = work.handle THEN None ELSE lease
          /\ UNCHANGED owned
       \/ /\ child[work.handle].pc # "gone"
          /\ owned' = work.handle
          /\ UNCHANGED <<child, lease>>
    /\ UNCHANGED <<journalVars, disk, mem, cfile, source, receipt, ready, epoch>>

Receipt ==
    /\ work.step = "receipt"
    /\ receipt[exec.op] = None
    /\ receipt' = [receipt EXCEPT ![exec.op] = "whole"]
    /\ Go("report")
    /\ UNCHANGED <<journalVars, disk, mem, cfile, source, child, lease, owned, ready, epoch>>

RApplied ==
    /\ work.step = "report"
    /\ Returned("applied", work.performed)
    /\ work' = Resting
    /\ UNCHANGED <<disk, mem, cfile, source, receipt, child, lease, owned, ready, epoch>>

\* A write that does not complete leaves a torn candidate or receipt behind.
PartialWrite ==
    /\ \/ UNCHANGED cfile
       \/ /\ work.step = "create" /\ cfile[Cmd.cand] = None
          /\ cfile' = [cfile EXCEPT ![Cmd.cand] = Torn]
    /\ \/ UNCHANGED receipt
       \/ work.step = "receipt" /\ receipt' = [receipt EXCEPT ![exec.op] = "torn"]

\* Any step of perform returns an error, and apply reports Uncertain.
RFails ==
    /\ work.step \notin {"rest", "accepted", "readiness", "waiting", "cleanup"}
    /\ Returned("uncertain", work.performed)
    /\ PartialWrite
    /\ work' = Resting
    /\ UNCHANGED <<disk, mem, source, child, lease, owned, ready, epoch>>

-----------------------------------------------------------------------------
(* reconcile, recovery and the end of the manager                          *)

\* Mutant of Evidence: without a receipt the effect is taken not to have happened.
EvidenceAbsent(o) == IF receipt[o] = "whole" THEN "applied" ELSE "not_applied"

Evidence(o) == IF receipt[o] = "whole" THEN "applied" ELSE "uncertain"

\* A torn receipt is InvalidStore: reconcile returns an error.
RReconcile(o) ==
    /\ receipt[o] # "torn"
    /\ Reconciled(o, Evidence(o))
    /\ UNCHANGED runtimeVars

RSettle(o) == (Settle(o) \/ Recover(o)) /\ UNCHANGED runtimeVars

ROpen == Open /\ UNCHANGED runtimeVars

ROpened ==
    /\ Opened
    /\ disk.selected # None => disk.cands[disk.selected] # None
    /\ mem' = disk
    /\ UNCHANGED <<disk, cfile, source, receipt, child, lease, owned, ready, epoch, work>>

\* Every pipe of the manager closes with it.
RCrash ==
    /\ mode # "closed"
    /\ mode' = "closed"
    /\ exec' = IdleExec
    /\ done' = IF exec.pc = "started" /\ work.performed THEN done \cup {exec.op} ELSE done
    /\ PartialWrite
    /\ child' = [p \in Children |-> [child[p] EXCEPT !.stdin = FALSE]]
    /\ owned' = None /\ ready' = FALSE /\ epoch' = None /\ work' = Resting
    /\ UNCHANGED <<operation, events, disk, mem, source, lease>>

-----------------------------------------------------------------------------
(* The child, and the host beside the manager.                             *)

\* Mutant of ChildLease: the child does not wait for the lease to be free.
ChildLeaseStolen(p) ==
    /\ child[p].pc = "spawned"
    /\ lease' = p
    /\ child' = [child EXCEPT ![p].pc = "leased"]
    /\ UNCHANGED <<journalVars, disk, mem, cfile, source, receipt, owned, ready, epoch, work>>

ChildLease(p) ==
    /\ child[p].pc = "spawned"
    /\ lease = None
    /\ lease' = p
    /\ child' = [child EXCEPT ![p].pc = "leased"]
    /\ UNCHANGED <<journalVars, disk, mem, cfile, source, receipt, owned, ready, epoch, work>>

\* Mutant of LaunchMatches: the child runs whatever the candidate file holds.
LaunchMatchesAny(p) == cfile[child[p].cand] \in Valid

\* prepare_launch: what the child reads has the digests of the launch frame.
LaunchMatches(p) == cfile[child[p].cand] = child[p].content

ChildServe(p) ==
    /\ child[p].pc = "leased"
    /\ LaunchMatches(p)
    /\ child' = [child EXCEPT ![p].pc = "serving", ![p].content = cfile[child[p].cand]]
    /\ UNCHANGED <<journalVars, disk, mem, cfile, source, receipt, lease, owned, ready, epoch, work>>

\* Graceful after EOF on its control channel, otherwise with a failure status.
ChildExit(p, ok) ==
    /\ child[p].pc \in {"spawned", "leased", "serving"}
    /\ ok => ~child[p].stdin /\ child[p].pc # "spawned"
    /\ child' = [child EXCEPT ![p].pc = "gone", ![p].ok = ok]
    /\ lease' = IF lease = p THEN None ELSE lease
    /\ UNCHANGED <<journalVars, disk, mem, cfile, source, receipt, owned, ready, epoch, work>>

EditSource(v) ==
    /\ source' = v
    /\ UNCHANGED <<journalVars, disk, mem, cfile, receipt, child, lease, owned, ready, epoch, work>>

\* Another administrator selects a staged candidate by editing state.json.
EditState(c) ==
    /\ disk.cands[c] # None
    /\ disk' = [disk EXCEPT !.selected = c]
    /\ UNCHANGED <<journalVars, mem, cfile, source, receipt, child, lease, owned, ready, epoch, work>>

Tamper(c, v) ==
    /\ cfile[c] # None
    /\ cfile' = [cfile EXCEPT ![c] = v]
    /\ UNCHANGED <<journalVars, disk, mem, source, receipt, child, lease, owned, ready, epoch, work>>

Outside ==
    \/ \E p \in Children : ChildLease(p) \/ ChildServe(p) \/ \E ok \in BOOLEAN : ChildExit(p, ok)
    \/ \E v \in Contents : EditSource(v)
    \/ \E c \in Candidates : EditState(c) \/ \E v \in Contents : Tamper(c, v)

\* The synchronous executor: from the accepted intent to its last event.
Executing ==
    \/ RBegin \/ RAppendFails \/ RFinish
    \/ RStale \/ RPerform
    \/ StageCreate \/ SelectCheck \/ SaveCheck \/ Rename
    \/ \E p \in Children : Spawn(p)
    \/ Readiness \/ ReadinessFails
    \/ StopBegin \/ StopEnds \/ StopTimesOut
    \/ Receipt \/ RApplied \/ RFails

RuntimeNext ==
    \/ \E o \in Operations, s \in Subjects, k \in Keys, m \in Requests \cap Command : RAccept(o, s, k, m)
    \/ Executing
    \/ \E o \in Operations : RSettle(o) \/ RReconcile(o)
    \/ Status \/ ROpen \/ ROpened \/ RCrash
    \/ Outside

-----------------------------------------------------------------------------
(* Properties.                                                             *)

\* Files, processes and the adapter's place have the types of the crate.
RuntimeTypeOK ==
    /\ JournalTypeOK
    /\ disk \in StateFile /\ mem \in StateFile
    /\ cfile \in [Candidates -> Contents \cup {None, Torn}]
    /\ source \in Contents
    /\ receipt \in [Operations -> {None, "torn", "whole"}]
    /\ child \in [Children -> [pc : {"none", "spawned", "leased", "serving", "gone"},
                               cand : Candidates \cup {None}, content : Contents \cup {None},
                               stdin : BOOLEAN, ok : BOOLEAN]]
    /\ lease \in Children \cup {None} /\ owned \in Children \cup {None} /\ ready \in BOOLEAN
    /\ epoch \in Operations \cup Children \cup {None}

\* What serves is what was selected: the configuration a ready child runs is the
\* one recorded for its candidate when it was staged, also when the file was
\* tampered with between the manager's inspection and the child's own.
ServesRegistered ==
    (owned # None /\ ready) => child[owned].content = mem.cands[child[owned].cand]

\* The manager never reports a child it does not own, and what serves in this
\* directory is at most the one process that holds the lease, also when a manager
\* died before its child took it and the next manager started another.
OneServing ==
    /\ \A p \in Children : child[p].pc \in {"leased", "serving"} => lease = p
    /\ \A p \in Children : (child[p].pc \notin {"none", "gone"} /\ child[p].stdin) => owned = p
=============================================================================
