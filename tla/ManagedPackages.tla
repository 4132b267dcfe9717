--------------------------- MODULE ManagedPackages ---------------------------
(***************************************************************************)
(* Installed packages and the activation that names them, changed by the   *)
(* package adapter (src/crates/management-extensions) under the journal    *)
(* and, beside it, by the command line.  Every writer runs the same        *)
(* procedure on the store under an exclusive lock; only the adapter adds   *)
(* the inventory it expects.                                               *)
(*                                                                         *)
(* driver "pack" is src/src/profile_packs/manager.rs inside the calling    *)
(* process, whose lock is a marker file that survives it.  driver "native" *)
(* is a helper process (scripts/extension_manager.py) with a file lock,    *)
(* killed at a deadline: it can outlive the call, and the manager.         *)
(*                                                                         *)
(* Grants, recorder bindings and the manager's epoch, which only makes     *)
(* snapshots of different lives differ, are left out.                      *)
(***************************************************************************)
EXTENDS ManagementJournal

CONSTANTS
    Ids,             \* package identifiers
    Builds,          \* version and digest
    MaxGeneration,   \* bound: the command line starts nothing beyond this generation
    MaxRequests      \* bound: package operations

ASSUME PackagesAssumption ==
    /\ None \notin Ids \cup Builds \cup {"manager", "orphan", "cli", "dead", "torn", "whole"}
    /\ MaxGeneration \in Nat

VARIABLES
    driver,    \* Registration.driver
    stored,    \* package files
    litter,    \* whose temporary file or directory is in the way
    active,    \* active.json
    lock,      \* holder of the writer marker or of .manager.lock
    writer,    \* where each process is in its procedure
    proof      \* receipts of the adapter

packageVars == <<driver, stored, litter, active, lock, writer, proof>>
storeVars == <<stored, litter, active, lock>>

PackageCommand == [kind : {"install", "enable", "select"}, id : Ids, build : Builds]
                  \cup [kind : {"disable"}, id : Ids, build : {None}]

Writers == {"manager", "orphan", "cli"}

\* performed: the store has the wanted change; fate: a lone helper will get that far.
Working(step, q, expected) ==
    [step |-> step, cmd |-> q, expected |-> expected, draft |-> None, performed |-> FALSE, fate |-> FALSE]
NoWriter == Working("none", None, None)

\* A store without packages, or with all of them installed and none enabled.
PackagesInit ==
    /\ driver \in {"pack", "native"}
    /\ \E s \in {"absent", "whole"} : stored = [i \in Ids |-> [b \in Builds |-> s]]
    /\ litter = {}
    /\ active = [generation |-> 0, packs |-> [i \in Ids |-> None]]
    /\ lock = None
    /\ writer = [w \in Writers |-> NoWriter]
    /\ proof = [o \in Operations |-> None]

Inventory == [active |-> active, stored |-> stored]

\* An unfinished installation among the native packages fails every inventory.
Readable == driver = "native" => litter = {}

-----------------------------------------------------------------------------
(* The procedure of a writer.                                              *)

Running == {"locking", "checking", "checked", "writing", "renaming", "after"}

Step(w, step) == writer' = [writer EXCEPT ![w].step = step]
Performs(w) == writer' = [writer EXCEPT ![w].step = "after", ![w].performed = TRUE]
May(w) == w = "orphan" => writer[w].fate

Freed(w) == IF lock = w THEN None ELSE lock

\* Mutant of Acquire: a marker that is already there does not stop the writer.
AcquireShared(w) ==
    /\ writer[w].step = "locking"
    /\ lock' = w
    /\ Step(w, "checking")
    /\ UNCHANGED <<journalVars, driver, stored, litter, active, proof>>

\* Writer::acquire, mutation_lock
Acquire(w) ==
    /\ writer[w].step = "locking"
    /\ lock = None
    /\ lock' = w
    /\ Step(w, "checking")
    /\ UNCHANGED <<journalVars, driver, stored, litter, active, proof>>

\* check_expected
CheckExpected(w) ==
    /\ writer[w].step = "checking"
    /\ writer[w].expected # None => Readable /\ Inventory = writer[w].expected
    /\ Step(w, "checked")
    /\ UNCHANGED <<journalVars, driver, storeVars, proof>>

Wanted(w) == writer[w].cmd
Checked(w, kinds) == writer[w].step = "checked" /\ Wanted(w).kind \in kinds
FileOf(w) == stored[Wanted(w).id][Wanted(w).build]

\* Every enabled pack but one is verified again.
OthersLoad(i) == \A j \in Ids \ {i} : active.packs[j] # None => stored[j][active.packs[j]] = "whole"

\* Already installed, or (packs) already enabled: nothing is written.
Present(w) ==
    /\ \/ Checked(w, {"install"}) /\ FileOf(w) = "whole"
       \/ /\ driver = "pack" /\ Checked(w, {"enable"}) /\ FileOf(w) = "whole"
          /\ active.packs[Wanted(w).id] = Wanted(w).build
          /\ OthersLoad(Wanted(w).id)
    /\ May(w)
    /\ Performs(w)
    /\ UNCHANGED <<journalVars, driver, storeVars, proof>>

\* A pack is written in place; a native package beside it, and renamed.
InstallBegin(w) ==
    /\ Checked(w, {"install"}) /\ FileOf(w) = "absent"
    /\ Step(w, "writing")
    /\ IF driver = "pack"
       THEN stored' = [stored EXCEPT ![Wanted(w).id][Wanted(w).build] = "torn"] /\ UNCHANGED litter
       ELSE litter' = litter \cup {w} /\ UNCHANGED stored
    /\ UNCHANGED <<journalVars, driver, active, lock, proof>>

InstallEnd(w) ==
    /\ writer[w].step = "writing"
    /\ May(w)
    /\ stored' = [stored EXCEPT ![Wanted(w).id][Wanted(w).build] = "whole"]
    /\ litter' = litter \ {w}
    /\ Performs(w)
    /\ UNCHANGED <<journalVars, driver, active, lock, proof>>

\* Mutant of Loads: a file of that name is enough.
LoadsListed(w) == FileOf(w) # "absent"

\* load_package, inspect_package
Loads(w) == FileOf(w) = "whole"

\* enable and disable: packs are replaced only by way of disable.
Activatable(w) ==
    LET i == Wanted(w).id IN
    /\ \/ /\ Checked(w, {"enable", "select"}) /\ Loads(w)
          /\ driver = "pack" => active.packs[i] = None
       \/ Checked(w, {"disable"}) /\ active.packs[i] # None
    /\ driver = "pack" => OthersLoad(i) /\ litter = {}

\* commit, commit_lock: the temporary file; the pack manager's has a fixed name.
Draft(w) ==
    /\ Activatable(w)
    /\ writer' = [writer EXCEPT ![w].step = "renaming",
                                ![w].draft = [generation |-> active.generation + 1,
                                              packs |-> [active.packs EXCEPT ![Wanted(w).id] = Wanted(w).build]]]
    /\ litter' = IF driver = "pack" THEN litter \cup {w} ELSE litter
    /\ UNCHANGED <<journalVars, driver, stored, active, lock, proof>>

RenameActivation(w) ==
    /\ writer[w].step = "renaming"
    /\ May(w)
    /\ active' = writer[w].draft
    /\ litter' = litter \ {w}
    /\ Performs(w)
    /\ UNCHANGED <<journalVars, driver, stored, lock, proof>>

\* guarded_result: the inventory afterwards is read under the same lock.
Return(w) ==
    /\ writer[w].step = "after"
    /\ writer[w].expected # None => Readable
    /\ lock' = Freed(w)
    /\ writer' = [writer EXCEPT ![w] = IF w = "manager" THEN [@ EXCEPT !.step = "receipt"] ELSE NoWriter]
    /\ UNCHANGED <<journalVars, driver, stored, litter, active, proof>>

\* An error: what was being written is removed and the lock given back.
Unwritten(w) ==
    /\ stored' = IF driver = "pack" /\ writer[w].step = "writing"
                 THEN [stored EXCEPT ![Wanted(w).id][Wanted(w).build] = "absent"] ELSE stored
    /\ litter' = litter \ {w}
    /\ lock' = Freed(w)
    /\ writer' = [writer EXCEPT ![w] = NoWriter]
    /\ UNCHANGED <<driver, active, proof>>

\* The process ends where it is; only a native lock ends with it.
Abandoned(w) ==
    /\ litter' = IF w \in litter THEN (litter \ {w}) \cup {"dead"} ELSE litter
    /\ lock' = IF lock = w /\ driver = "pack" THEN "dead" ELSE Freed(w)
    /\ writer' = [writer EXCEPT ![w] = NoWriter]
    /\ UNCHANGED <<driver, stored, active, proof>>

\* The command line, and a helper nobody waits for any more.
CliStart(q) ==
    /\ writer["cli"].step = "none"
    /\ q.kind # "select" /\ active.generation < MaxGeneration
    /\ writer' = [writer EXCEPT !["cli"] = Working("locking", q, None)]
    /\ UNCHANGED <<journalVars, driver, storeVars, proof>>

OtherEnds(w) ==
    /\ w # "manager" /\ writer[w].step \in Running
    /\ w = "orphan" /\ writer[w].fate => writer[w].performed
    /\ Unwritten(w) \/ Abandoned(w)
    /\ UNCHANGED journalVars

-----------------------------------------------------------------------------
(* The adapter.                                                            *)

\* validate
ValidatePackage(q) ==
    CASE q.kind = "install" -> TRUE
      [] q.kind = "disable" -> active.packs[q.id] # None
      [] q.kind = "enable"  -> stored[q.id][q.build] = "whole" /\ active.packs[q.id] \in {None, q.build}
      [] q.kind = "select"  -> /\ stored[q.id][q.build] = "whole" /\ driver = "native"
                               /\ active.packs[q.id] # None

\* prepare_mapped; the expected snapshot is the current one.
PAccept(o, s, k, q) ==
    /\ Cardinality({p \in Operations : Recorded(p)}) < MaxRequests
    /\ lock = None /\ Readable
    /\ ValidatePackage(q)
    /\ Accept(o, s, k, q)
    /\ writer' = [writer EXCEPT !["manager"] = Working("accepted", q, Inventory)]
    /\ UNCHANGED <<driver, storeVars, proof>>

PBegin == Begin /\ UNCHANGED packageVars

PMutate ==
    /\ exec.pc = "started" /\ writer["manager"].step = "accepted"
    /\ lock = None /\ Readable /\ Inventory = writer["manager"].expected
    /\ Step("manager", "locking")
    /\ UNCHANGED <<journalVars, driver, storeVars, proof>>

\* Another inventory, none, or one that cannot be retained: Stale or Unavailable.
PNotApplied ==
    /\ writer["manager"].step = "accepted"
    /\ Returned("not_applied", FALSE)
    /\ writer' = [writer EXCEPT !["manager"] = NoWriter]
    /\ UNCHANGED <<driver, storeVars, proof>>

\* GuardedError::Conflict, exit code 3: nothing has been written.
PConflict ==
    /\ \/ /\ writer["manager"].step = "checking"
          /\ Readable /\ Inventory # writer["manager"].expected
       \/ writer["manager"].step = "locking" /\ driver = "pack" /\ Wanted("manager").kind = "install"
    /\ Returned("not_applied", FALSE)
    /\ Unwritten("manager")

PFails ==
    /\ writer["manager"].step \in Running
    /\ Returned("uncertain", writer["manager"].performed)
    /\ Unwritten("manager")

\* The helper is left alone: it goes on, or dies, as its fate says.
Orphaned(fate) ==
    /\ driver = "native" /\ writer["manager"].step \in Running
    /\ writer["orphan"].step = "none"
    /\ writer' = [writer EXCEPT !["manager"] = NoWriter,
                                !["orphan"] = [writer["manager"] EXCEPT !.fate = fate]]
    /\ lock' = IF lock = "manager" THEN "orphan" ELSE lock
    /\ litter' = IF "manager" \in litter THEN (litter \ {"manager"}) \cup {"orphan"} ELSE litter
    /\ fate \/ ~writer["manager"].performed
    /\ UNCHANGED <<driver, stored, active, proof>>

\* timeout_ms: the kill is sent, and not always confirmed.
PTimesOut(fate) ==
    /\ Orphaned(fate)
    /\ Returned("uncertain", fate)

PReceipt ==
    /\ writer["manager"].step = "receipt"
    /\ proof' = [proof EXCEPT ![exec.op] = "whole"]
    /\ Step("manager", "report")
    /\ UNCHANGED <<journalVars, driver, storeVars>>

PReceiptFails(left) ==
    /\ writer["manager"].step = "receipt"
    /\ Returned("uncertain", TRUE)
    /\ proof' = [proof EXCEPT ![exec.op] = left]
    /\ writer' = [writer EXCEPT !["manager"] = NoWriter]
    /\ UNCHANGED <<driver, storeVars>>

PApplied ==
    /\ writer["manager"].step = "report"
    /\ Returned("applied", TRUE)
    /\ writer' = [writer EXCEPT !["manager"] = NoWriter]
    /\ UNCHANGED <<driver, storeVars, proof>>

PFinish == Finish /\ UNCHANGED packageVars

PAppendFails ==
    /\ AppendFails
    /\ writer' = [writer EXCEPT !["manager"] = NoWriter]
    /\ UNCHANGED <<driver, storeVars, proof>>

\* reconcile: a torn receipt is an error, a missing one leaves the outcome uncertain.
PReconcile(o) ==
    /\ proof[o] # "torn"
    /\ Reconciled(o, IF proof[o] = "whole" THEN "applied" ELSE "uncertain")
    /\ UNCHANGED packageVars

PSettle(o) == (Settle(o) \/ Recover(o)) /\ UNCHANGED packageVars

\* Manager::open reads an inventory.
POpen ==
    /\ Open \/ (Opened /\ lock = None /\ Readable)
    /\ UNCHANGED packageVars

\* The manager dies: a pack writer with it, a native helper does not.
PCrash ==
    /\ mode # "closed"
    /\ mode' = "closed" /\ exec' = IdleExec
    /\ \/ /\ driver = "pack" \/ writer["manager"].step \notin Running
          /\ Abandoned("manager")
          /\ done' = IF writer["manager"].performed THEN done \cup {exec.op} ELSE done
       \/ \E fate \in BOOLEAN :
             Orphaned(fate) /\ done' = IF fate THEN done \cup {exec.op} ELSE done
    /\ UNCHANGED <<operation, events>>

\* The host inspects a store nobody works on and removes what stops its writers.  The marker asks
\* for no more: a package that a dead writer left torn may stay.
HostCleans ==
    /\ \A w \in Writers : writer[w].step \notin Running
    /\ lock = "dead" \/ litter # {} \/ \E i \in Ids, b \in Builds : stored[i][b] = "torn"
    /\ lock' = None /\ litter' = {}
    /\ \/ UNCHANGED stored
       \/ stored' = [i \in Ids |-> [b \in Builds |->
                      IF stored[i][b] = "torn" THEN "absent" ELSE stored[i][b]]]
    /\ UNCHANGED <<journalVars, driver, active, writer, proof>>

WriterNext ==
    \E w \in Writers :
        \/ Acquire(w) \/ CheckExpected(w) \/ Present(w) \/ InstallBegin(w) \/ InstallEnd(w)
        \/ Draft(w) \/ RenameActivation(w) \/ Return(w) \/ OtherEnds(w)

PackagesNext ==
    \/ \E o \in Operations, s \in Subjects, k \in Keys, q \in Requests \cap PackageCommand : PAccept(o, s, k, q)
    \/ PBegin \/ PMutate \/ PNotApplied \/ PConflict \/ PFails
    \/ \E fate \in BOOLEAN : PTimesOut(fate)
    \/ PReceipt \/ \E left \in {None, "torn"} : PReceiptFails(left)
    \/ PApplied \/ PFinish \/ PAppendFails
    \/ \E o \in Operations : PReconcile(o) \/ PSettle(o)
    \/ POpen \/ PCrash \/ HostCleans
    \/ \E q \in PackageCommand : CliStart(q)
    \/ WriterNext

-----------------------------------------------------------------------------
(* Properties.                                                             *)

\* A gateway that starts reads active.json and the packages it names without the lock: at every
\* moment, whoever died where, each of them is completely written.
ActiveIsWhole == \A i \in Ids : active.packs[i] # None => stored[i][active.packs[i]] = "whole"

\* Every activation replaces the one it was made from, and the adapter's also changes exactly the
\* inventory its caller saw: no change of the command line or of a lone helper is lost.
NoLostUpdate ==
    [][active' # active =>
         /\ active'.generation = active.generation + 1
         /\ \A w \in Writers : writer[w].step = "renaming" /\ writer'[w].step # "renaming" =>
               writer[w].expected \in {None, Inventory}]_packageVars
=============================================================================
