----------------------- MODULE ManagementDispatchProofs -----------------------
(***************************************************************************)
(* Proofs about the two adapters under the journal, the owned runtime and  *)
(* the managed packages, for any number of operations, candidates,         *)
(* contents, children, packages and builds.                                *)
(*                                                                         *)
(* The argument has the same shape for both.  One part speaks of files,    *)
(* locks and processes only: a handle of the manager is a child that was   *)
(* launched with what is recorded for its candidate (Registered), and a    *)
(* process inside the store's critical section holds the lock, so what it  *)
(* read there is still true (Exclusive, Drafted).  The other part ties the *)
(* adapter's place to the journal's executor (RuntimeTurns, PackageTurns): *)
(* apply runs exactly while the operation is started, and a receipt on     *)
(* disk means that the effect has happened or is happening now.  From it   *)
(* every step of an adapter is a step of the journal.                      *)
(***************************************************************************)
EXTENDS ManagementDispatch, ManagementJournalProofs

-----------------------------------------------------------------------------
(* The inductive invariant of the runtime adapter.                         *)

Sought == [epoch : Operations \cup Children \cup {None}, saved : StateFile, external : BOOLEAN,
           ownership : {"owned", "stopped", "unowned"}, running : Children \cup {None},
           desired : Candidates \cup {None}]

WorkSteps == {"rest", "accepted", "create", "select", "save", "rename", "spawn", "readiness",
              "stop", "restart", "waiting", "cleanup", "failed", "receipt", "report"}

WorkTypeOK ==
    work \in [step : WorkSteps, before : Sought \cup {None}, handle : Children \cup {None},
              performed : BOOLEAN]

\* A child of the manager was launched with the bytes recorded for its candidate.
Launched(p) ==
    /\ child[p].cand \in Candidates
    /\ child[p].content # None
    /\ child[p].content = mem.cands[child[p].cand]

Waiting == work.step \in {"waiting", "cleanup"}

\* The manager has one child at most, in its handle or in the hands of stop_owned.
Registered ==
    /\ owned # None => Launched(owned)
    /\ Waiting => owned = None /\ work.handle \in Children /\ Launched(work.handle)
    /\ work.step = "readiness" => owned # None

\* Where apply is agrees with the command it applies.
KindAt(step) ==
    CASE step = "create" -> {"stage"}
      [] step = "select" -> {"select"}
      [] step \in {"save", "rename"} -> {"stage", "select"}
      [] step \in {"spawn", "readiness", "cleanup"} -> {"start", "restart"}
      [] step = "stop" -> {"stop"}
      [] step = "restart" -> {"restart"}
      [] step = "waiting" -> {"stop", "restart"}
      [] OTHER -> {"stage", "select", "start", "stop", "restart"}

\* apply runs while its operation is started, and only in an open manager.
RuntimePlace ==
    /\ exec.pc = "accepted" => work.step = "accepted"
    /\ work.step = "accepted" => exec.pc \in {"accepted", "started"} /\ work.performed = FALSE
    /\ work.step \notin {"rest", "accepted"} => exec.pc = "started"
    /\ work.step \in {"receipt", "report"} => work.performed = TRUE
    /\ work.performed = TRUE => exec.pc = "started"
    /\ mode # "open" => owned = None

\* A stage writes a candidate that the state does not name yet.
CommandAtHand ==
    work.step # "rest" =>
       /\ Cmd \in Command
       /\ Cmd.kind \in KindAt(work.step)
       /\ Cmd.kind = "stage" /\ work.step \in {"accepted", "create", "save", "rename"} =>
             mem.cands[Cmd.cand] = None

\* A whole receipt is evidence of an effect.
ReceiptsAreTrue ==
    \A o \in Operations : receipt[o] = "whole" =>
       \/ o \in done
       \/ exec.pc = "started" /\ exec.op = o /\ work.performed = TRUE

RuntimeTurns == RuntimePlace /\ CommandAtHand /\ ReceiptsAreTrue

-----------------------------------------------------------------------------
(* The inductive invariant of the package adapter.                         *)

Activation == [generation : Nat, packs : [Ids -> Builds \cup {None}]]
Files == [Ids -> [Builds -> {"absent", "torn", "whole"}]]

WriterSteps == Running \cup {"none", "accepted", "receipt", "report"}

Writer == [step : WriterSteps, cmd : PackageCommand \cup {None},
           expected : [active : Activation, stored : Files] \cup {None},
           draft : Activation \cup {None}, performed : BOOLEAN, fate : BOOLEAN]

PackagesTypeOK ==
    /\ driver \in {"pack", "native"}
    /\ stored \in Files
    /\ litter \subseteq Writers \cup {"dead"}
    /\ active \in Activation
    /\ lock \in Writers \cup {"dead", None}
    /\ writer \in [Writers -> Writer]
    /\ proof \in [Operations -> {None, "torn", "whole"}]

\* Inside the critical section: from the lock to its release.
Inside == Running \ {"locking"}

\* A process inside the critical section holds the lock, so there is one.
Exclusive == \A w \in Writers : writer[w].step \in Inside => lock = w

\* What a writer found inside the critical section is still so.
DraftedBy(w) ==
    /\ writer[w].step \in Running \cup {"accepted"} => writer[w].cmd \in PackageCommand
    /\ writer[w].step \in {"checked", "renaming"} => writer[w].expected \in {None, Inventory}
    /\ writer[w].step = "writing" /\ driver = "pack" => FileOf(w) = "torn"
    /\ writer[w].step = "renaming" =>
          /\ writer[w].draft \in Activation
          /\ writer[w].draft.generation = active.generation + 1
          /\ \A i \in Ids : writer[w].draft.packs[i] # None =>
                stored[i][writer[w].draft.packs[i]] = "whole"

Drafted == \A w \in Writers : DraftedBy(w)

\* The adapter works while its operation is started; a whole receipt is evidence.
PackageTurns ==
    LET m == writer["manager"] IN
    /\ m.step # "none" => exec.pc \in {"accepted", "started"}
    /\ m.step \notin {"none", "accepted"} => exec.pc = "started"
    /\ exec.pc = "accepted" => m.step = "accepted"
    /\ m.performed = TRUE => m.step \in {"after", "receipt", "report"}
    /\ m.step \in {"after", "receipt", "report"} => m.performed = TRUE
    /\ \A o \in Operations : proof[o] = "whole" =>
         \/ o \in done
         \/ exec.pc = "started" /\ exec.op = o /\ m.step = "report"

-----------------------------------------------------------------------------

RuntimeInv == RuntimeTypeOK /\ WorkTypeOK /\ OneServing /\ Registered
PackagesInv == PackagesTypeOK /\ Exclusive /\ Drafted /\ ActiveIsWhole

DispatchInv ==
    /\ JournalInv
    /\ target \in {"runtime", "packages"}
    /\ RuntimeInv /\ PackagesInv
    /\ target = "runtime" => RuntimeTurns
    /\ target = "packages" => PackageTurns

-----------------------------------------------------------------------------
(* Both adapters are adapters of the journal.                              *)

\* What an adapter reports of the operation it executes is a step of the journal
\* when it reports no more than happened.
LEMMA ReturnIsApply ==
  ASSUME NEW e \in Effects, NEW happened \in BOOLEAN,
         e = "applied" => happened = TRUE, e = "not_applied" => happened = FALSE,
         Returned(e, happened)
  PROVE  JournalNext
<1>1. Truthful(e, happened)
  BY DEF Truthful
<1> QED
  BY <1>1 DEF Apply, JournalNext

\* A manager that dies has applied its operation or not.
LEMMA DyingIsCrash ==
  ASSUME mode # "closed", mode' = "closed", exec' = IdleExec, UNCHANGED <<operation, events>>,
         done' = done \/ (exec.pc = "started" /\ done' = done \cup {exec.op})
  PROVE  JournalNext
<1>1. Crash
  BY DEF Crash
<1> QED
  BY <1>1 DEF JournalNext

\* Nothing executes, so a whole receipt has its effect behind it.
LEMMA EvidenceIsReconcile ==
  ASSUME NEW o \in Operations, NEW e \in {"applied", "uncertain"}, e = "applied" => o \in done,
         Reconciled(o, e)
  PROVE  JournalNext
<1>1. Truthful(e, o \in done) /\ e \in Effects
  BY DEF Truthful, Effects
<1> QED
  BY <1>1 DEF Reconcile, JournalNext

\* Every step of the runtime adapter, its child and the host is a step of the
\* journal or leaves it alone.
LEMMA RuntimeStepIsJournalStep ==
  ASSUME RuntimeInv, RuntimeTurns, RuntimeNext
  PROVE  JournalNext \/ UNCHANGED journalVars
<1>0. work.performed \in BOOLEAN /\ receipt \in [Operations -> {None, "torn", "whole"}]
  BY DEF RuntimeInv, WorkTypeOK, RuntimeTypeOK
<1>1. ASSUME NEW o \in Operations, NEW s \in Subjects, NEW k \in Keys,
             NEW m \in Requests \cap Command, RAccept(o, s, k, m)
      PROVE  JournalNext
  BY <1>1 DEF RAccept, JournalNext
<1>2. CASE RBegin \/ RAppendFails \/ RFinish
  BY <1>2 DEF RBegin, RAppendFails, RFinish, JournalNext
<1>3. CASE RStale
  <2>1. Returned("not_applied", FALSE)
    BY <1>3 DEF RStale
  <2> QED
    BY <2>1, ReturnIsApply DEF Effects
<1>4. CASE RApplied
  <2>1. Returned("applied", work.performed) /\ work.performed = TRUE
    BY <1>4 DEF RApplied, RuntimeTurns, RuntimePlace
  <2>2. Returned("applied", TRUE)
    BY <2>1
  <2> QED
    BY <2>2, ReturnIsApply DEF Effects
<1>5. CASE RFails
  <2>1. Returned("uncertain", work.performed)
    BY <1>5 DEF RFails
  <2> QED
    BY <1>0, <2>1, ReturnIsApply DEF Effects
<1>6. CASE RPerform \/ StageCreate \/ SelectCheck \/ SaveCheck \/ Rename \/ Readiness \/ Receipt
  BY <1>6 DEF RPerform, StageCreate, SelectCheck, SaveCheck, Rename, Readiness, Receipt
<1>7. CASE \/ \E p \in Children : Spawn(p)
           \/ ReadinessFails \/ StopBegin \/ StopEnds \/ StopTimesOut
  BY <1>7 DEF Spawn, ReadinessFails, StopBegin, StopEnds, StopTimesOut, TakeHandle
<1>8. ASSUME NEW o \in Operations, RSettle(o) PROVE JournalNext
  BY <1>8 DEF RSettle, JournalNext
<1>9. ASSUME NEW o \in Operations, RReconcile(o) PROVE JournalNext
  <2>1. Reconciled(o, Evidence(o)) /\ exec.pc = "idle"
    BY <1>9 DEF RReconcile, Reconciled
  <2>2. Evidence(o) \in {"applied", "uncertain"} /\ (Evidence(o) = "applied" => receipt[o] = "whole")
    BY DEF Evidence
  <2>3. Evidence(o) = "applied" => o \in done
    BY <2>1, <2>2 DEF RuntimeTurns, ReceiptsAreTrue
  <2> QED
    BY <2>1, <2>2, <2>3, EvidenceIsReconcile
<1>10. CASE Status \/ ROpen \/ ROpened
  BY <1>10 DEF Status, ROpen, ROpened, JournalNext
<1>11. CASE RCrash
  <2>1. /\ mode # "closed" /\ mode' = "closed" /\ exec' = IdleExec /\ UNCHANGED <<operation, events>>
        /\ done' = done \/ (exec.pc = "started" /\ done' = done \cup {exec.op})
    BY <1>11 DEF RCrash
  <2> QED
    BY <2>1, DyingIsCrash
<1>12. CASE Outside
  BY <1>12 DEF Outside, ChildLease, ChildServe, ChildExit, EditSource, EditState, Tamper
<1> QED
  BY <1>1, <1>2, <1>3, <1>4, <1>5, <1>6, <1>7, <1>8, <1>9, <1>10, <1>11, <1>12
  DEF RuntimeNext, Executing

\* Every step of the package adapter, its helper and the command line is a step of
\* the journal or leaves it alone.
LEMMA PackagesStepIsJournalStep ==
  ASSUME PackagesInv, PackageTurns, PackagesNext
  PROVE  JournalNext \/ UNCHANGED journalVars
<1>0. /\ "manager" \in Writers
      /\ writer["manager"].performed \in BOOLEAN /\ writer["manager"].fate \in BOOLEAN
      /\ proof \in [Operations -> {None, "torn", "whole"}]
  BY DEF PackagesInv, PackagesTypeOK, Writers, Writer
<1>1. ASSUME NEW o \in Operations, NEW s \in Subjects, NEW k \in Keys,
             NEW q \in Requests \cap PackageCommand, PAccept(o, s, k, q)
      PROVE  JournalNext
  BY <1>1 DEF PAccept, JournalNext
<1>2. CASE PBegin \/ PFinish \/ PAppendFails
  BY <1>2 DEF PBegin, PFinish, PAppendFails, JournalNext
<1>3. CASE PMutate \/ PReceipt \/ HostCleans \/ WriterNext \/ \E q \in PackageCommand : CliStart(q)
  BY <1>3 DEF PMutate, PReceipt, HostCleans, WriterNext, CliStart, Acquire, CheckExpected, Present,
              InstallBegin, InstallEnd, Draft, RenameActivation, Return, OtherEnds
<1>4. CASE PNotApplied \/ PConflict
  <2>1. Returned("not_applied", FALSE)
    BY <1>4 DEF PNotApplied, PConflict
  <2> QED
    BY <2>1, ReturnIsApply DEF Effects
<1>5. CASE PFails
  <2>1. Returned("uncertain", writer["manager"].performed)
    BY <1>5 DEF PFails
  <2> QED
    BY <1>0, <2>1, ReturnIsApply DEF Effects
<1>6. ASSUME NEW fate \in BOOLEAN, PTimesOut(fate) PROVE JournalNext
  <2>1. Returned("uncertain", fate)
    BY <1>6 DEF PTimesOut
  <2> QED
    BY <2>1, ReturnIsApply DEF Effects
<1>7. ASSUME NEW left, PReceiptFails(left) PROVE JournalNext
  <2>1. Returned("uncertain", TRUE)
    BY <1>7 DEF PReceiptFails
  <2> QED
    BY <2>1, ReturnIsApply DEF Effects
<1>8. CASE PApplied
  <2>1. Returned("applied", TRUE)
    BY <1>8 DEF PApplied
  <2> QED
    BY <2>1, ReturnIsApply DEF Effects
<1>9. ASSUME NEW o \in Operations, PReconcile(o) PROVE JournalNext
  <2> DEFINE e == IF proof[o] = "whole" THEN "applied" ELSE "uncertain"
  <2>1. Reconciled(o, e) /\ exec.pc = "idle"
    BY <1>9 DEF PReconcile, Reconciled
  <2>2. e \in {"applied", "uncertain"} /\ (e = "applied" => proof[o] = "whole")
    OBVIOUS
  <2>3. e = "applied" => o \in done
    BY <2>1, <2>2 DEF PackageTurns
  <2> HIDE DEF e
  <2> QED
    BY <2>1, <2>2, <2>3, EvidenceIsReconcile
<1>10. ASSUME NEW o \in Operations, PSettle(o) PROVE JournalNext
  BY <1>10 DEF PSettle, JournalNext
<1>11. CASE POpen
  BY <1>11 DEF POpen, JournalNext
<1>12. CASE PCrash
  <2>0. mode # "closed" /\ mode' = "closed" /\ exec' = IdleExec /\ UNCHANGED <<operation, events>>
    BY <1>12 DEF PCrash
  <2>1. CASE done' = IF writer["manager"].performed THEN done \cup {exec.op} ELSE done
    <3>1. writer["manager"].performed = TRUE => exec.pc = "started"
      BY DEF PackageTurns
    <3> QED
      BY <1>0, <2>0, <2>1, <3>1, DyingIsCrash
  <2>2. ASSUME NEW fate \in BOOLEAN, Orphaned(fate), done' = IF fate THEN done \cup {exec.op} ELSE done
        PROVE  JournalNext
    <3>1. exec.pc = "started"
      BY <2>2 DEF PackageTurns, Orphaned, Running
    <3> QED
      BY <2>0, <2>2, <3>1, DyingIsCrash
  <2> QED
    BY <1>12, <2>1, <2>2 DEF PCrash
<1> QED
  BY <1>1, <1>2, <1>3, <1>4, <1>5, <1>6, <1>7, <1>8, <1>9, <1>10, <1>11, <1>12 DEF PackagesNext

\* Every step of the dispatcher is a step of the journal or leaves it alone.
LEMMA DispatchStepIsJournalStep ==
  ASSUME DispatchInv, [DispatchNext]_dispatchVars
  PROVE  [JournalNext]_journalVars
<1>1. CASE target = "runtime" /\ RuntimeNext
  BY <1>1, RuntimeStepIsJournalStep DEF DispatchInv
<1>2. CASE target = "packages" /\ PackagesNext
  BY <1>2, PackagesStepIsJournalStep DEF DispatchInv
<1>3. CASE UNCHANGED dispatchVars
  BY <1>3 DEF dispatchVars, vars
<1> QED
  BY <1>1, <1>2, <1>3 DEF DispatchNext

-----------------------------------------------------------------------------
(* The runtime adapter keeps its types.                                    *)

ChildProcess == [pc : {"none", "spawned", "leased", "serving", "gone"},
                 cand : Candidates \cup {None}, content : Contents \cup {None},
                 stdin : BOOLEAN, ok : BOOLEAN]

\* What refresh_child and observation return has the types of the crate.
LEMMA ObservationTyped ==
  ASSUME RuntimeTypeOK
  PROVE  /\ Observation \in Sought
         /\ Owner \in {owned, None}
         /\ Owner # owned => owned \in Children /\ child[owned].pc = "gone"
         /\ Epoch \in Operations \cup Children \cup {None}
         /\ Desired \in Candidates \cup {None}
         /\ Desired # None => mem.cands[Desired] \in Contents
<1>1. Owner \in {owned, None} /\ Epoch \in Operations \cup Children \cup {None}
  BY DEF Owner, Epoch, Ended, RuntimeTypeOK
<1>2. Owner # owned => owned \in Children /\ child[owned].pc = "gone"
  BY DEF Owner, Ended, RuntimeTypeOK
<1>3. mem \in StateFile /\ mem.selected \in Candidates \cup {None}
      /\ mem.cands \in [Candidates -> Contents \cup {None}]
  BY DEF RuntimeTypeOK, StateFile
<1>4. Desired \in Candidates \cup {None}
  BY <1>3 DEF Desired
<1>5. Desired # None => mem.cands[Desired] \in Contents
  BY <1>3, <1>4 DEF Desired, Intact
<1>6. Observation \in Sought
  <2> DEFINE own == IF Owner # None THEN "owned" ELSE IF lease = None THEN "stopped" ELSE "unowned"
             run == IF Owner # None /\ ready THEN Owner ELSE None
  <2>1. own \in {"owned", "stopped", "unowned"}
    OBVIOUS
  <2>2. run \in Children \cup {None}
    BY <1>1 DEF RuntimeTypeOK
  <2>3. ExternalChange \in BOOLEAN
    BY DEF ExternalChange
  <2>4. Observation = [epoch |-> Epoch, saved |-> mem, external |-> ExternalChange,
                       ownership |-> own, running |-> run, desired |-> Desired]
    BY DEF Observation
  <2> HIDE DEF own, run
  <2> QED
    BY <1>1, <1>3, <1>4, <2>1, <2>2, <2>3, <2>4 DEF Sought
<1> QED
  BY <1>1, <1>2, <1>4, <1>5, <1>6

\* The journal's operation at hand.
LEMMA CommandTyped ==
  ASSUME JournalInv, RuntimeTurns, work.step \in WorkSteps, work.step # "rest"
  PROVE  /\ exec.op \in Operations /\ exec.pc \in {"accepted", "started"} /\ mode = "open"
         /\ Cmd \in Command
         /\ Cmd.kind \in {"stage", "select"} => Cmd.cand \in Candidates
         /\ Cmd.kind = "stage" => Cmd.content \in Contents
<1>1. exec.pc \in {"accepted", "started"}
  BY DEF RuntimeTurns, RuntimePlace
<1>2. exec.op \in Operations /\ mode = "open"
  BY <1>1 DEF JournalInv, Whereabouts
<1>3. Cmd \in Command
  BY DEF RuntimeTurns, CommandAtHand
<1> QED
  BY <1>1, <1>2, <1>3 DEF Command

\* What the manager keeps of its work has its type after every step.
LEMMA WorkTypeStep ==
  ASSUME JournalInv, RuntimeInv, RuntimeTurns, RuntimeNext
  PROVE  WorkTypeOK'
<1>0. RuntimeTypeOK /\ WorkTypeOK /\ work.step \in WorkSteps /\ owned \in Children \cup {None}
  BY DEF RuntimeInv, WorkTypeOK, RuntimeTypeOK
<1>1. Resting \in [step : WorkSteps, before : Sought \cup {None}, handle : Children \cup {None},
                   performed : BOOLEAN]
  BY DEF Resting, WorkSteps
<1>2. CASE work' = Resting
  BY <1>1, <1>2 DEF WorkTypeOK
<1>3. CASE work' = work
  BY <1>0, <1>3 DEF WorkTypeOK
<1>4. ASSUME NEW step \in WorkSteps, Go(step) PROVE WorkTypeOK'
  BY <1>0, <1>4 DEF WorkTypeOK, Go
<1>5. CASE Performed
  BY <1>0, <1>5 DEF WorkTypeOK, Performed, WorkSteps
<1>6. ASSUME NEW step \in WorkSteps, work' = [work EXCEPT !.step = step, !.handle = owned]
      PROVE  WorkTypeOK'
  BY <1>0, <1>6 DEF WorkTypeOK
<1>7. ASSUME NEW step \in WorkSteps, NEW performed \in BOOLEAN,
             \/ work' = [work EXCEPT !.step = step, !.performed = performed, !.handle = None]
             \/ work' = [work EXCEPT !.step = step, !.handle = None]
             \/ work' = [work EXCEPT !.step = step, !.performed = performed]
      PROVE  WorkTypeOK'
  BY <1>0, <1>7 DEF WorkTypeOK
<1>8. ASSUME NEW o \in Operations, NEW s \in Subjects, NEW k \in Keys, NEW m \in Command,
             RAccept(o, s, k, m)
      PROVE  WorkTypeOK'
  <2>1. work' = [step |-> "accepted", before |-> Observation, handle |-> None, performed |-> FALSE]
    BY <1>8 DEF RAccept, Resting
  <2>2. Observation \in Sought
    BY <1>0, ObservationTyped
  <2> HIDE DEF Observation
  <2> QED
    BY <2>1, <2>2 DEF WorkTypeOK, WorkSteps
<1>9. CASE RBegin \/ RFinish \/ Status \/ ROpen \/ ROpened \/ Outside
  <2>1. work' = work
    BY <1>9 DEF RBegin, RFinish, Status, ROpen, ROpened, Outside, ChildLease, ChildServe, ChildExit,
                EditSource, EditState, Tamper, runtimeVars
  <2> QED
    BY <1>3, <2>1
<1>10. ASSUME NEW o \in Operations, RSettle(o) \/ RReconcile(o) PROVE WorkTypeOK'
  BY <1>3, <1>10 DEF RSettle, RReconcile, runtimeVars
<1>11. CASE RAppendFails \/ RStale \/ RApplied \/ RFails \/ RCrash
  BY <1>2, <1>11 DEF RAppendFails, RStale, RApplied, RFails, RCrash
<1>12. CASE RPerform
  <2>1. work' = [work EXCEPT !.step = FirstStep[Cmd.kind]] /\ work.step = "accepted"
    BY <1>12 DEF RPerform
  <2>2. Cmd.kind \in {"stage", "select", "start", "stop", "restart"}
    BY <1>0, <2>1, CommandTyped DEF Command
  <2>3. FirstStep[Cmd.kind] \in WorkSteps
    BY <2>2 DEF FirstStep, WorkSteps
  <2> QED
    BY <1>4, <2>1, <2>3 DEF Go
<1>13. CASE StageCreate \/ SelectCheck \/ SaveCheck \/ Receipt \/ \E p \in Children : Spawn(p)
  BY <1>4, <1>13 DEF StageCreate, SelectCheck, SaveCheck, Receipt, Spawn, WorkSteps
<1>14. CASE Rename \/ Readiness
  BY <1>5, <1>7, <1>14 DEF Rename, Readiness, WorkSteps
<1>15. CASE ReadinessFails \/ StopBegin
  <2>1. \/ \E step \in {"cleanup", "waiting"} : work' = [work EXCEPT !.step = step, !.handle = owned]
        \/ Performed \/ Go("spawn")
    BY <1>15 DEF ReadinessFails, StopBegin, TakeHandle
  <2> QED
    BY <1>4, <1>5, <1>6, <2>1 DEF WorkSteps
<1>16. CASE StopEnds \/ StopTimesOut
  <2>1. \/ work' = [work EXCEPT !.step = "spawn", !.handle = None]
        \/ work' = [work EXCEPT !.step = "receipt", !.performed = TRUE, !.handle = None]
        \/ work' = [work EXCEPT !.step = "failed", !.handle = None]
    BY <1>16 DEF StopEnds, StopTimesOut
  <2>2. "spawn" \in WorkSteps /\ "receipt" \in WorkSteps /\ "failed" \in WorkSteps
    BY DEF WorkSteps
  <2> QED
    BY <1>7, <2>1, <2>2
<1> QED
  BY <1>8, <1>9, <1>10, <1>11, <1>12, <1>13, <1>14, <1>15, <1>16 DEF RuntimeNext, Executing

\* state.json and the manager's copy of it have their type after every step.
LEMMA StateFileStep ==
  ASSUME JournalInv, RuntimeInv, RuntimeTurns, RuntimeNext
  PROVE  disk' \in StateFile /\ mem' \in StateFile
<1>0. RuntimeTypeOK /\ work.step \in WorkSteps /\ disk \in StateFile /\ mem \in StateFile
  BY DEF RuntimeInv, WorkTypeOK, RuntimeTypeOK
<1>1. CASE Rename
  <2>1. work.step = "rename"
    BY <1>1 DEF Rename
  <2>2. /\ Cmd \in Command /\ Cmd.kind \in {"stage", "select"}
        /\ Cmd.cand \in Candidates /\ (Cmd.kind = "stage" => Cmd.content \in Contents)
    <3>1. Cmd.kind \in {"stage", "select"}
      BY <2>1 DEF RuntimeTurns, CommandAtHand, KindAt
    <3> QED
      BY <1>0, <2>1, <3>1, CommandTyped
  <2>3. NextState \in StateFile
    <3>0. /\ mem.revision + 1 \in Nat /\ mem.selected \in Candidates \cup {None}
          /\ mem.cands \in [Candidates -> Contents \cup {None}]
          /\ mem = [revision |-> mem.revision, selected |-> mem.selected, cands |-> mem.cands]
      BY <1>0 DEF StateFile
    <3>1. CASE Cmd.kind = "stage"
      <4>1. NextState = [revision |-> mem.revision + 1, selected |-> mem.selected,
                         cands |-> [mem.cands EXCEPT ![Cmd.cand] = Cmd.content]]
        BY <3>0, <3>1 DEF NextState
      <4>2. [mem.cands EXCEPT ![Cmd.cand] = Cmd.content] \in [Candidates -> Contents \cup {None}]
        BY <2>2, <3>0, <3>1
      <4> QED
        BY <3>0, <4>1, <4>2 DEF StateFile
    <3>2. CASE Cmd.kind # "stage"
      <4>1. NextState = [revision |-> mem.revision + 1, selected |-> Cmd.cand, cands |-> mem.cands]
        BY <3>0, <3>2 DEF NextState
      <4> QED
        BY <2>2, <3>0, <4>1 DEF StateFile
    <3> QED
      BY <3>1, <3>2
  <2> QED
    BY <1>0, <1>1, <2>3 DEF Rename
<1>2. CASE ROpened
  BY <1>0, <1>2 DEF ROpened
<1>3. ASSUME NEW c \in Candidates, EditState(c) PROVE disk' \in StateFile /\ mem' \in StateFile
  BY <1>0, <1>3 DEF EditState, StateFile
<1>4. CASE UNCHANGED <<disk, mem>>
  BY <1>0, <1>4
<1>5. ASSUME NEW o \in Operations, NEW s \in Subjects, NEW k \in Keys, NEW m \in Command,
             RAccept(o, s, k, m)
      PROVE  UNCHANGED <<disk, mem>>
  BY <1>5 DEF RAccept
<1>6. ASSUME NEW o \in Operations, RSettle(o) \/ RReconcile(o) PROVE UNCHANGED <<disk, mem>>
  BY <1>6 DEF RSettle, RReconcile, runtimeVars
<1>7. CASE Executing /\ ~Rename
  BY <1>4, <1>7 DEF Executing, RBegin, RAppendFails, RFinish, RStale, RPerform, StageCreate,
     SelectCheck, SaveCheck, Spawn, Readiness, ReadinessFails, StopBegin, StopEnds, StopTimesOut,
     Receipt, RApplied, RFails, TakeHandle, runtimeVars
<1>8. CASE Status \/ ROpen \/ RCrash
  BY <1>4, <1>8 DEF Status, ROpen, RCrash, runtimeVars
<1>9. CASE Outside /\ ~(\E c \in Candidates : EditState(c))
  BY <1>4, <1>9 DEF Outside, ChildLease, ChildServe, ChildExit, EditSource, Tamper
<1> QED
  BY <1>1, <1>2, <1>3, <1>4, <1>5, <1>6, <1>7, <1>8, <1>9 DEF RuntimeNext, Executing, Outside

\* Candidate files, the source and receipts have their types after every step.
LEMMA FilesStep ==
  ASSUME JournalInv, RuntimeInv, RuntimeTurns, RuntimeNext
  PROVE  /\ cfile' \in [Candidates -> Contents \cup {None, Torn}]
         /\ source' \in Contents
         /\ receipt' \in [Operations -> {None, "torn", "whole"}]
<1> DEFINE Typed == /\ cfile' \in [Candidates -> Contents \cup {None, Torn}]
                    /\ source' \in Contents
                    /\ receipt' \in [Operations -> {None, "torn", "whole"}]
<1>0. /\ RuntimeTypeOK /\ work.step \in WorkSteps
      /\ cfile \in [Candidates -> Contents \cup {None, Torn}] /\ source \in Contents
      /\ receipt \in [Operations -> {None, "torn", "whole"}]
  BY DEF RuntimeInv, WorkTypeOK, RuntimeTypeOK
<1>1. CASE UNCHANGED <<cfile, source, receipt>>
  BY <1>0, <1>1
<1>2. CASE StageCreate
  <2>1. work.step = "create" /\ cfile' = [cfile EXCEPT ![Cmd.cand] = Cmd.content]
        /\ UNCHANGED <<source, receipt>>
    BY <1>2 DEF StageCreate
  <2>2. Cmd.kind = "stage"
    BY <2>1 DEF RuntimeTurns, CommandAtHand, KindAt
  <2>3. Cmd.content \in Contents
    BY <1>0, <2>1, <2>2, CommandTyped
  <2> QED
    BY <1>0, <2>1, <2>3
<1>3. CASE Receipt
  BY <1>0, <1>3 DEF Receipt
<1>4. CASE PartialWrite /\ source' = source
  BY <1>0, <1>4 DEF PartialWrite
<1>5. CASE RFails \/ RCrash
  BY <1>4, <1>5 DEF RFails, RCrash
<1>6. ASSUME NEW v \in Contents, EditSource(v) PROVE Typed
  BY <1>0, <1>6 DEF EditSource
<1>7. ASSUME NEW c \in Candidates, NEW v \in Contents, Tamper(c, v) PROVE Typed
  BY <1>0, <1>7 DEF Tamper
<1>8. ASSUME NEW o \in Operations, NEW s \in Subjects, NEW k \in Keys, NEW m \in Command,
             RAccept(o, s, k, m)
      PROVE  UNCHANGED <<cfile, source, receipt>>
  BY <1>8 DEF RAccept
<1>9. ASSUME NEW o \in Operations, RSettle(o) \/ RReconcile(o) PROVE UNCHANGED <<cfile, source, receipt>>
  BY <1>9 DEF RSettle, RReconcile, runtimeVars
<1>10. CASE Executing /\ ~(StageCreate \/ Receipt \/ RFails)
  BY <1>1, <1>10 DEF Executing, RBegin, RAppendFails, RFinish, RStale, RPerform,
     SelectCheck, SaveCheck, Rename, Spawn, Readiness, ReadinessFails, StopBegin, StopEnds,
     StopTimesOut, RApplied, TakeHandle, runtimeVars
<1>11. CASE Status \/ ROpen \/ ROpened
  BY <1>1, <1>11 DEF Status, ROpen, ROpened, runtimeVars
<1>12. CASE Outside
  BY <1>1, <1>6, <1>7, <1>12 DEF Outside, ChildLease, ChildServe, ChildExit, EditState
<1> QED
  BY <1>1, <1>2, <1>3, <1>5, <1>8, <1>9, <1>10, <1>11, <1>12 DEF RuntimeNext, Executing

\* Processes, lease, handle and epoch have their types after every step.
LEMMA ProcessesStep ==
  ASSUME JournalInv, RuntimeInv, RuntimeTurns, RuntimeNext
  PROVE  /\ child' \in [Children -> ChildProcess]
         /\ lease' \in Children \cup {None} /\ owned' \in Children \cup {None} /\ ready' \in BOOLEAN
         /\ epoch' \in Operations \cup Children \cup {None}
<1> DEFINE Typed == /\ child' \in [Children -> ChildProcess]
                    /\ lease' \in Children \cup {None} /\ owned' \in Children \cup {None}
                    /\ ready' \in BOOLEAN
                    /\ epoch' \in Operations \cup Children \cup {None}
<1>0. /\ RuntimeTypeOK /\ work.step \in WorkSteps /\ Registered
      /\ child \in [Children -> ChildProcess]
      /\ lease \in Children \cup {None} /\ owned \in Children \cup {None} /\ ready \in BOOLEAN
      /\ epoch \in Operations \cup Children \cup {None}
  BY DEF RuntimeInv, WorkTypeOK, RuntimeTypeOK, ChildProcess
<1>1. CASE UNCHANGED <<child, lease, owned, ready, epoch>>
  BY <1>0, <1>1
<1>2. CASE RefreshChild /\ UNCHANGED <<child, lease>>
  <2>1. owned' \in {owned, None} /\ epoch' \in Operations \cup Children \cup {None}
    BY <1>0, <1>2, ObservationTyped DEF RefreshChild
  <2>2. ready' \in BOOLEAN
    BY <1>2 DEF RefreshChild
  <2> QED
    BY <1>0, <1>2, <2>1, <2>2
<1>3. ASSUME NEW o \in Operations, NEW s \in Subjects, NEW k \in Keys, NEW m \in Command,
             RAccept(o, s, k, m)
      PROVE  Typed
  BY <1>2, <1>3 DEF RAccept
<1>4. CASE RStale \/ Status
  BY <1>2, <1>4 DEF RStale, Status
<1>5. CASE RPerform
  <2>1. /\ owned' = Owner /\ ready' = (ready /\ ~Ended) /\ epoch' = exec.op /\ UNCHANGED <<child, lease>>
        /\ work.step = "accepted"
    BY <1>5 DEF RPerform
  <2>2. exec.op \in Operations
    BY <1>0, <2>1, CommandTyped
  <2>3. Owner \in {owned, None}
    BY <1>0, ObservationTyped
  <2>4. ready' \in BOOLEAN
    BY <2>1
  <2> QED
    BY <1>0, <2>1, <2>2, <2>3, <2>4
<1>6. ASSUME NEW p \in Children, Spawn(p) PROVE Typed
  <2>1. /\ child' = [child EXCEPT ![p] = [pc |-> "spawned", cand |-> Desired,
                            content |-> mem.cands[Desired], stdin |-> TRUE, ok |-> FALSE]]
        /\ owned' = p /\ ready' = FALSE /\ epoch' = Epoch /\ lease' = lease /\ Desired # None
    BY <1>6 DEF Spawn
  <2>2. Desired \in Candidates /\ mem.cands[Desired] \in Contents
        /\ Epoch \in Operations \cup Children \cup {None}
    BY <1>0, <2>1, ObservationTyped
  <2>3. [pc |-> "spawned", cand |-> Desired, content |-> mem.cands[Desired], stdin |-> TRUE,
         ok |-> FALSE] \in ChildProcess
    BY <2>2 DEF ChildProcess
  <2>4. child' \in [Children -> ChildProcess]
    BY <1>0, <2>1, <2>3
  <2>5. ready' \in BOOLEAN
    BY <2>1
  <2> QED
    BY <1>0, <2>1, <2>2, <2>4, <2>5
<1>7. CASE Readiness
  <2>1. ready' \in BOOLEAN
    BY <1>7 DEF Readiness
  <2> QED
    BY <1>0, <1>7, <2>1 DEF Readiness
<1>8. CASE child' = [child EXCEPT ![owned].stdin = FALSE] /\ owned' = None
           /\ UNCHANGED <<lease, ready, epoch>>
  <2>1. child' \in [Children -> ChildProcess]
    BY <1>0, <1>8 DEF ChildProcess
  <2> QED
    BY <1>0, <1>8, <2>1
<1>9. CASE ReadinessFails \/ StopBegin
  BY <1>1, <1>8, <1>9 DEF ReadinessFails, StopBegin, TakeHandle
<1>10. CASE StopTimesOut
  <2>1. work.handle \in Children
    BY <1>0, <1>10 DEF StopTimesOut, Registered, Waiting
  <2>2. CASE /\ child' = [child EXCEPT ![work.handle].pc = "gone"]
             /\ lease' = IF lease = work.handle THEN None ELSE lease
             /\ UNCHANGED owned
    <3>1. child' \in [Children -> ChildProcess]
      BY <1>0, <2>2 DEF ChildProcess
    <3> QED
      BY <1>0, <1>10, <2>2, <3>1 DEF StopTimesOut
  <2>3. CASE owned' = work.handle /\ UNCHANGED <<child, lease>>
    BY <1>0, <1>10, <2>1, <2>3 DEF StopTimesOut
  <2>4. \/ /\ child' = [child EXCEPT ![work.handle].pc = "gone"]
           /\ lease' = (IF lease = work.handle THEN None ELSE lease)
           /\ UNCHANGED owned
        \/ owned' = work.handle /\ UNCHANGED <<child, lease>>
    BY <1>10 DEF StopTimesOut
  <2> QED
    BY <2>2, <2>3, <2>4
<1>11. CASE RCrash
  <2>1. child' = [p \in Children |-> [child[p] EXCEPT !.stdin = FALSE]]
    BY <1>11 DEF RCrash
  <2>2. child' \in [Children -> ChildProcess]
    BY <1>0, <2>1 DEF ChildProcess
  <2>3. ready' \in BOOLEAN
    BY <1>11 DEF RCrash
  <2> QED
    BY <1>0, <1>11, <2>2, <2>3 DEF RCrash
<1>12. ASSUME NEW p \in Children, ChildLease(p) \/ ChildServe(p) PROVE Typed
  <2>0. child[p] \in ChildProcess
    BY <1>0
  <2>1. CASE ChildLease(p)
    <3>1. child' \in [Children -> ChildProcess]
      BY <1>0, <2>1 DEF ChildLease, ChildProcess
    <3> QED
      BY <1>0, <2>1, <3>1 DEF ChildLease
  <2>2. CASE ChildServe(p)
    <3>1. child' = [child EXCEPT ![p].pc = "serving", ![p].content = child[p].content]
      BY <2>2 DEF ChildServe, LaunchMatches
    <3>2. child' \in [Children -> ChildProcess]
      BY <1>0, <2>0, <3>1 DEF ChildProcess
    <3> QED
      BY <1>0, <2>2, <3>2 DEF ChildServe
  <2> QED
    BY <1>12, <2>1, <2>2
<1>13. ASSUME NEW p \in Children, NEW ok \in BOOLEAN, ChildExit(p, ok) PROVE Typed
  <2>1. child' \in [Children -> ChildProcess]
    BY <1>0, <1>13 DEF ChildExit, ChildProcess
  <2>2. lease' \in Children \cup {None}
    BY <1>0, <1>13 DEF ChildExit
  <2> QED
    BY <1>0, <1>13, <2>1, <2>2 DEF ChildExit
<1>14. CASE Outside
  BY <1>1, <1>12, <1>13, <1>14 DEF Outside, EditSource, EditState, Tamper
<1>15. CASE RBegin \/ RAppendFails \/ RFinish \/ RApplied \/ RFails \/ StageCreate \/ SelectCheck
            \/ SaveCheck \/ Rename \/ Receipt \/ StopEnds
  BY <1>1, <1>15 DEF RBegin, RAppendFails, RFinish, RApplied, RFails, StageCreate, SelectCheck,
     SaveCheck, Rename, Receipt, StopEnds, runtimeVars
<1>16. ASSUME NEW o \in Operations, RSettle(o) \/ RReconcile(o) PROVE Typed
  BY <1>1, <1>16 DEF RSettle, RReconcile, runtimeVars
<1>17. CASE ROpen \/ ROpened
  BY <1>1, <1>17 DEF ROpen, ROpened, runtimeVars
<1> HIDE DEF Typed
<1> QED
  BY <1>3, <1>4, <1>5, <1>6, <1>7, <1>9, <1>10, <1>11, <1>14, <1>15, <1>16, <1>17
  DEF RuntimeNext, Executing, Typed

\* The types of the runtime adapter after a step.
LEMMA RuntimeTypeStep ==
  ASSUME JournalInv, JournalInv', RuntimeInv, RuntimeTurns, RuntimeNext
  PROVE  RuntimeTypeOK' /\ WorkTypeOK'
<1>1. WorkTypeOK'
  BY WorkTypeStep
<1>2. JournalTypeOK'
  BY DEF JournalInv
<1>3. child' \in [Children -> ChildProcess]
  BY ProcessesStep
<1> QED
  BY <1>1, <1>2, <1>3, StateFileStep, FilesStep, ProcessesStep DEF RuntimeTypeOK, ChildProcess

-----------------------------------------------------------------------------
(* One child serves, and it is the manager's.                              *)

\* What a step does to processes, lease and handle: nothing, or one of these.
LEMMA ProcessMoves ==
  ASSUME JournalInv, RuntimeInv, RuntimeTurns, RuntimeNext
  PROVE  \/ UNCHANGED <<child, lease, owned>>
         \/ owned' = Owner /\ UNCHANGED <<child, lease>>
         \/ \E p \in Children : Spawn(p) \/ ChildLease(p) \/ ChildServe(p)
         \/ \E p \in Children, ok \in BOOLEAN : ChildExit(p, ok)
         \/ owned # None /\ child' = [child EXCEPT ![owned].stdin = FALSE] /\ owned' = None /\ lease' = lease
         \/ StopTimesOut \/ RCrash
<1>1. ASSUME NEW o \in Operations, NEW s \in Subjects, NEW k \in Keys, NEW m \in Command,
             RAccept(o, s, k, m)
      PROVE  owned' = Owner /\ UNCHANGED <<child, lease>>
  BY <1>1 DEF RAccept, RefreshChild
<1>2. CASE RStale \/ Status \/ RPerform
  BY <1>2 DEF RStale, Status, RPerform, RefreshChild
<1>3. CASE RBegin \/ RAppendFails \/ RFinish \/ RApplied \/ RFails \/ StageCreate \/ SelectCheck
           \/ SaveCheck \/ Rename \/ Receipt \/ StopEnds \/ Readiness \/ ROpen \/ ROpened
  BY <1>3 DEF RBegin, RAppendFails, RFinish, RApplied, RFails, StageCreate, SelectCheck,
     SaveCheck, Rename, Receipt, StopEnds, Readiness, ROpen, ROpened, runtimeVars
<1>4. ASSUME NEW o \in Operations, RSettle(o) \/ RReconcile(o) PROVE UNCHANGED <<child, lease, owned>>
  BY <1>4 DEF RSettle, RReconcile, runtimeVars
<1>5. CASE ReadinessFails
  <2>1. owned # None
    BY <1>5 DEF ReadinessFails, RuntimeInv, Registered
  <2> QED
    BY <1>5, <2>1 DEF ReadinessFails, TakeHandle
<1>6. CASE StopBegin
  BY <1>6 DEF StopBegin, TakeHandle
<1>7. CASE Outside
  BY <1>7 DEF Outside, EditSource, EditState, Tamper
<1> QED
  BY <1>1, <1>2, <1>3, <1>4, <1>5, <1>6, <1>7 DEF RuntimeNext, Executing

\* What serves holds the lease, and what the manager can talk to is its own.
LEMMA OneServingStep ==
  ASSUME JournalInv, RuntimeInv, RuntimeTurns, RuntimeNext
  PROVE  OneServing'
<1> DEFINE Live(p) == child[p].pc \notin {"none", "gone"} /\ child[p].stdin = TRUE
<1>0. /\ RuntimeTypeOK /\ Registered /\ child \in [Children -> ChildProcess]
      /\ owned \in Children \cup {None}
      /\ \A p \in Children : child[p] \in ChildProcess /\ child[p].stdin \in BOOLEAN
      /\ \A p \in Children : child[p].pc \in {"leased", "serving"} => lease = p
      /\ \A p \in Children : Live(p) => owned = p
  BY DEF RuntimeInv, RuntimeTypeOK, ChildProcess, OneServing
<1>n. None \notin Children
  BY RuntimeAssumption
<1> DEFINE Holds == \A p \in Children : child'[p].pc \in {"leased", "serving"} => lease' = p
           Talks == \A p \in Children : child'[p].pc \notin {"none", "gone"} /\ child'[p].stdin = TRUE
                                           => owned' = p
<1>x. SUFFICES Holds /\ Talks
  <2>1. child' \in [Children -> ChildProcess]
    BY ProcessesStep
  <2>2. \A p \in Children : child'[p].stdin \in BOOLEAN
    BY <2>1 DEF ChildProcess
  <2> QED
    BY <2>2 DEF OneServing
<1>1. CASE UNCHANGED <<child, lease, owned>>
  BY <1>0, <1>1
<1>2. CASE owned' = Owner /\ UNCHANGED <<child, lease>>
  BY <1>0, <1>2, ObservationTyped
<1>3. ASSUME NEW p \in Children, Spawn(p) PROVE Holds /\ Talks
  <2> DEFINE new == [pc |-> "spawned", cand |-> Desired, content |-> mem.cands[Desired],
                     stdin |-> TRUE, ok |-> FALSE]
  <2>1. /\ Owner = None /\ lease' = lease /\ owned' = p
        /\ child' = [child EXCEPT ![p] = new]
    BY <1>3 DEF Spawn
  <2>2. new.pc = "spawned"
    OBVIOUS
  <2> HIDE DEF new
  <2>3. \A r \in Children : IF r = p THEN child'[r] = new ELSE child'[r] = child[r]
    BY <1>0, <2>1
  <2>4. \A r \in Children : ~Live(r)
    BY <1>0, <1>n, <2>1, ObservationTyped
  <2>5. Holds
    BY <1>0, <2>1, <2>2, <2>3
  <2>6. Talks
    BY <2>1, <2>3, <2>4
  <2> QED
    BY <2>5, <2>6
<1>4. ASSUME NEW p \in Children, ChildLease(p) \/ ChildServe(p) \/ ChildExit(p, TRUE) \/ ChildExit(p, FALSE)
      PROVE  Holds /\ Talks
  <2>1. \A r \in Children \ {p} : child'[r] = child[r]
    BY <1>0, <1>4 DEF ChildLease, ChildServe, ChildExit
  <2>2. child'[p].stdin = child[p].stdin /\ child[p].pc \notin {"none", "gone"} /\ owned' = owned
    BY <1>0, <1>4 DEF ChildLease, ChildServe, ChildExit, ChildProcess
  <2>3. Talks
    BY <1>0, <2>1, <2>2
  <2>4. CASE ChildLease(p)
    BY <1>0, <1>n, <2>1, <2>4 DEF ChildLease
  <2>5. CASE ChildServe(p)
    BY <1>0, <2>1, <2>5 DEF ChildServe
  <2>6. CASE ChildExit(p, TRUE) \/ ChildExit(p, FALSE)
    <3>1. child'[p].pc = "gone" /\ lease' = IF lease = p THEN None ELSE lease
      BY <1>0, <2>6 DEF ChildExit, ChildProcess
    <3> QED
      BY <1>0, <2>1, <2>3, <3>1
  <2> QED
    BY <1>4, <2>3, <2>4, <2>5, <2>6
<1>5. CASE owned # None /\ child' = [child EXCEPT ![owned].stdin = FALSE] /\ owned' = None /\ lease' = lease
  <2>1. \A r \in Children : child'[r].pc = child[r].pc /\ (r # owned => child'[r].stdin = child[r].stdin)
    BY <1>0, <1>5 DEF ChildProcess
  <2>2. owned \in Children /\ child'[owned].stdin = FALSE
    BY <1>0, <1>5 DEF ChildProcess
  <2> QED
    BY <1>0, <1>5, <2>1, <2>2
<1>6. CASE StopTimesOut
  <2>0. work.handle \in Children /\ owned = None
    BY <1>0, <1>6 DEF StopTimesOut, Registered, Waiting
  <2>1. CASE /\ child' = [child EXCEPT ![work.handle].pc = "gone"]
             /\ lease' = (IF lease = work.handle THEN None ELSE lease)
             /\ owned' = owned
    <3>1. \A r \in Children \ {work.handle} : child'[r] = child[r]
      BY <1>0, <2>0, <2>1
    <3>2. child'[work.handle].pc = "gone"
      BY <1>0, <2>0, <2>1 DEF ChildProcess
    <3> QED
      BY <1>0, <2>0, <2>1, <3>1, <3>2
  <2>2. CASE owned' = work.handle /\ UNCHANGED <<child, lease>>
    BY <1>0, <1>n, <2>0, <2>2
  <2> QED
    BY <1>6, <2>1, <2>2 DEF StopTimesOut
<1>7. CASE RCrash
  <2>1. child' = [p \in Children |-> [child[p] EXCEPT !.stdin = FALSE]] /\ lease' = lease
    BY <1>7 DEF RCrash
  <2>2. \A r \in Children : child'[r].pc = child[r].pc /\ child'[r].stdin = FALSE
    BY <1>0, <2>1 DEF ChildProcess
  <2> QED
    BY <1>0, <2>1, <2>2
<1>8. ASSUME NEW p \in Children, NEW ok \in BOOLEAN, ChildExit(p, ok) PROVE Holds /\ Talks
  BY <1>4, <1>8
<1> HIDE DEF Holds, Talks
<1> QED
  BY <1>1, <1>2, <1>3, <1>4, <1>5, <1>6, <1>7, <1>8, ProcessMoves

-----------------------------------------------------------------------------
(* What the manager owns was launched with what is registered.             *)

\* What a step that is not about handles, processes or the state does to apply.
LEMMA RegisteredElsewhere ==
  ASSUME RuntimeInv, UNCHANGED <<child, mem>>, owned' \in {owned, None},
         work'.step \notin {"waiting", "cleanup", "readiness"}
  PROVE  Registered'
<1>1. Registered
  BY DEF RuntimeInv
<1>2. owned' # None => Launched(owned)'
  BY <1>1 DEF Registered, Launched
<1> QED
  BY <1>2 DEF Registered, Waiting

\* The manager owns at most one child, launched with the registered bytes.
LEMMA RegisteredStep ==
  ASSUME JournalInv, RuntimeInv, RuntimeTurns, RuntimeNext
  PROVE  Registered'
<1>0. /\ RuntimeTypeOK /\ WorkTypeOK /\ Registered /\ child \in [Children -> ChildProcess]
      /\ owned \in Children \cup {None} /\ work.step \in WorkSteps
      /\ \A p \in Children : child[p] \in ChildProcess
  BY DEF RuntimeInv, RuntimeTypeOK, WorkTypeOK, ChildProcess
<1>n. None \notin Children /\ None \notin Candidates /\ None \notin Contents
  BY RuntimeAssumption
<1>o. Owner \in {owned, None}
  BY <1>0, ObservationTyped
<1>1. CASE UNCHANGED <<child, mem, owned, work>>
  BY <1>0, <1>1 DEF Registered, Launched, Waiting
<1>2. ASSUME NEW o \in Operations, NEW s \in Subjects, NEW k \in Keys, NEW m \in Command,
             RAccept(o, s, k, m)
      PROVE  Registered'
  <2>1. work' = [Resting EXCEPT !.step = "accepted", !.before = Observation]
        /\ owned' = Owner /\ UNCHANGED <<child, mem>>
    BY <1>2 DEF RAccept, RefreshChild
  <2> HIDE DEF Observation
  <2>2. work'.step = "accepted"
    BY <2>1 DEF Resting
  <2> QED
    BY <1>o, <2>1, <2>2, RegisteredElsewhere
<1>3. CASE RStale \/ RAppendFails \/ RApplied \/ RFails
  <2>1. work' = Resting /\ owned' \in {owned, Owner} /\ UNCHANGED <<child, mem>>
    BY <1>3 DEF RStale, RAppendFails, RApplied, RFails, RefreshChild
  <2>2. work'.step = "rest"
    BY <2>1 DEF Resting
  <2> QED
    BY <1>o, <2>1, <2>2, RegisteredElsewhere
<1>4. CASE Status
  <2>1. work.step = "rest"
    BY <1>4 DEF Status, RuntimeTurns, RuntimePlace
  <2>2. work' = work /\ owned' = Owner /\ UNCHANGED <<child, mem>>
    BY <1>4 DEF Status, RefreshChild
  <2> QED
    BY <1>o, <2>1, <2>2, RegisteredElsewhere
<1>5. CASE RPerform
  <2>1. work.step = "accepted" /\ work' = [work EXCEPT !.step = FirstStep[Cmd.kind]]
        /\ owned' = Owner /\ UNCHANGED <<child, mem>>
    BY <1>5 DEF RPerform
  <2>2. Cmd.kind \in {"stage", "select", "start", "stop", "restart"}
    BY <1>0, <2>1, CommandTyped DEF Command
  <2>3. FirstStep[Cmd.kind] \in {"create", "select", "spawn", "stop", "restart"}
    BY <2>2 DEF FirstStep
  <2>4. work'.step \in {"create", "select", "spawn", "stop", "restart"}
    BY <1>0, <2>1, <2>3 DEF WorkTypeOK
  <2> QED
    BY <1>o, <2>1, <2>4, RegisteredElsewhere
<1>6. CASE StageCreate \/ SelectCheck \/ SaveCheck \/ Receipt \/ Readiness \/ StopEnds
  <2>1. work'.step \in {"save", "rename", "report", "receipt", "spawn"}
    BY <1>0, <1>6 DEF StageCreate, SelectCheck, SaveCheck, Receipt, Readiness, StopEnds, Go, Performed,
                      WorkTypeOK
  <2>2. owned' = owned /\ UNCHANGED <<child, mem>>
    BY <1>6 DEF StageCreate, SelectCheck, SaveCheck, Receipt, Readiness, StopEnds
  <2> QED
    BY <2>1, <2>2, RegisteredElsewhere
<1>7. CASE Rename
  <2>1. work.step = "rename" /\ UNCHANGED <<child, owned>> /\ mem' \in {mem, NextState}
    BY <1>7 DEF Rename
  <2>2. work'.step \in {"receipt", "failed"}
    BY <1>0, <1>7 DEF Rename, Performed, WorkTypeOK
  <2>3. /\ Cmd.kind \in {"stage", "select"}
        /\ Cmd.kind = "stage" => mem.cands[Cmd.cand] = None
    BY <2>1 DEF RuntimeTurns, CommandAtHand, KindAt
  <2>4. \A c \in Candidates : mem.cands[c] # None => mem'.cands[c] = mem.cands[c]
    <3>1. mem \in StateFile /\ mem.cands \in [Candidates -> Contents \cup {None}]
      BY <1>0 DEF RuntimeTypeOK, StateFile
    <3>2. CASE mem' = mem
      BY <3>2
    <3>3. CASE mem' = NextState
      <4>1. CASE Cmd.kind = "stage"
        <5>1. mem'.cands = [mem.cands EXCEPT ![Cmd.cand] = Cmd.content]
          BY <3>1, <3>3, <4>1 DEF NextState, StateFile
        <5> QED
          BY <2>3, <3>1, <4>1, <5>1
      <4>2. CASE Cmd.kind # "stage"
        BY <3>1, <3>3, <4>2 DEF NextState, StateFile
      <4> QED
        BY <4>1, <4>2
    <3> QED
      BY <2>1, <3>2, <3>3
  <2>5. owned' # None => Launched(owned)'
    BY <1>0, <2>1, <2>4 DEF Registered, Launched
  <2> QED
    BY <2>2, <2>5 DEF Registered, Waiting
<1>8. ASSUME NEW p \in Children, Spawn(p) PROVE Registered'
  <2>1. /\ child' = [child EXCEPT ![p] = [pc |-> "spawned", cand |-> Desired,
                            content |-> mem.cands[Desired], stdin |-> TRUE, ok |-> FALSE]]
        /\ owned' = p /\ mem' = mem /\ Desired # None /\ Go("readiness")
    BY <1>8 DEF Spawn
  <2>2. Desired \in Candidates /\ mem.cands[Desired] \in Contents
    BY <1>0, <2>1, ObservationTyped
  <2>3. child'[p].cand = Desired /\ child'[p].content = mem.cands[Desired]
    BY <1>0, <2>1
  <2>4. Launched(owned)'
    BY <1>n, <2>1, <2>2, <2>3 DEF Launched
  <2>5. work'.step = "readiness"
    BY <1>0, <2>1 DEF Go, WorkTypeOK
  <2> QED
    BY <1>n, <2>1, <2>4, <2>5 DEF Registered, Waiting
<1>9. ASSUME NEW step \in {"cleanup", "waiting"}, owned # None, TakeHandle(step) PROVE Registered'
  <2>1. /\ work' = [work EXCEPT !.step = step, !.handle = owned]
        /\ child' = [child EXCEPT ![owned].stdin = FALSE] /\ owned' = None /\ mem' = mem
    BY <1>9 DEF TakeHandle
  <2>2. work'.step = step /\ work'.handle = owned
    BY <1>0, <2>1 DEF WorkTypeOK
  <2>3. child'[owned].cand = child[owned].cand /\ child'[owned].content = child[owned].content
    BY <1>0, <1>9, <2>1 DEF ChildProcess
  <2>4. Launched(work.handle)'
    BY <1>0, <1>9, <2>1, <2>2, <2>3 DEF Registered, Launched
  <2> QED
    BY <1>0, <1>9, <2>1, <2>2, <2>4 DEF Registered, Waiting
<1>10. CASE ReadinessFails
  <2>1. owned # None
    BY <1>0, <1>10 DEF ReadinessFails, Registered
  <2> QED
    BY <1>9, <1>10, <2>1 DEF ReadinessFails
<1>11. CASE StopBegin
  <2>1. CASE owned # None
    BY <1>9, <1>11, <2>1 DEF StopBegin
  <2>2. CASE owned = None
    <3>1. work'.step \in {"receipt", "spawn"}
      BY <1>0, <1>11, <2>2 DEF StopBegin, Performed, Go, WorkTypeOK
    <3>2. UNCHANGED <<child, mem, owned>>
      BY <1>11, <2>2 DEF StopBegin
    <3> QED
      BY <3>1, <3>2, RegisteredElsewhere
  <2> QED
    BY <2>1, <2>2
<1>12. CASE StopTimesOut
  <2>1. work.handle \in Children /\ Launched(work.handle) /\ owned = None
    BY <1>0, <1>12 DEF StopTimesOut, Registered, Waiting
  <2>2. work'.step = "failed" /\ mem' = mem
    BY <1>0, <1>12 DEF StopTimesOut, WorkTypeOK
  <2>3. owned' \in {None, work.handle} /\ (owned' = work.handle => child' = child)
    BY <1>n, <1>12, <2>1 DEF StopTimesOut
  <2>4. owned' # None => Launched(owned)'
    BY <2>1, <2>2, <2>3 DEF Launched
  <2> QED
    BY <2>2, <2>4 DEF Registered, Waiting
<1>13. CASE RCrash
  <2>1. owned' = None /\ work'.step = "rest"
    BY <1>13 DEF RCrash, Resting
  <2> QED
    BY <2>1 DEF Registered, Waiting
<1>14. CASE ROpened
  <2>1. mode = "recovering" /\ UNCHANGED <<owned, work>>
    BY <1>14 DEF ROpened, Opened
  <2>2. owned = None /\ work.step = "rest"
    BY <1>0, <2>1, CommandTyped DEF RuntimeTurns, RuntimePlace
  <2> QED
    BY <2>1, <2>2 DEF Registered, Waiting
<1>15. ASSUME NEW p \in Children,
              ChildLease(p) \/ ChildServe(p) \/ \E ok \in BOOLEAN : ChildExit(p, ok)
       PROVE  Registered'
  <2>1. \A r \in Children : child'[r].cand = child[r].cand /\ child'[r].content = child[r].content
    <3>1. CASE ChildServe(p)
      <4>1. child' = [child EXCEPT ![p].pc = "serving", ![p].content = child[p].content]
        BY <3>1 DEF ChildServe, LaunchMatches
      <4> QED
        BY <1>0, <4>1 DEF ChildProcess
    <3>2. CASE ChildLease(p) \/ \E ok \in BOOLEAN : ChildExit(p, ok)
      BY <1>0, <3>2 DEF ChildLease, ChildExit, ChildProcess
    <3> QED
      BY <1>15, <3>1, <3>2
  <2>2. UNCHANGED <<owned, work, mem>>
    BY <1>15 DEF ChildLease, ChildServe, ChildExit
  <2>3. ASSUME NEW r \in Children, Launched(r)
        PROVE  child'[r].cand \in Candidates /\ child'[r].content # None
               /\ child'[r].content = mem'.cands[child'[r].cand]
    BY <2>1, <2>2, <2>3 DEF Launched
  <2> QED
    BY <1>0, <2>2, <2>3 DEF Registered, Waiting, Launched
<1>16. CASE Outside
  BY <1>1, <1>15, <1>16 DEF Outside, EditSource, EditState, Tamper
<1>17. CASE RBegin \/ RFinish \/ ROpen
  BY <1>1, <1>17 DEF RBegin, RFinish, ROpen, runtimeVars
<1>18. ASSUME NEW o \in Operations, RSettle(o) \/ RReconcile(o) PROVE Registered'
  BY <1>1, <1>18 DEF RSettle, RReconcile, runtimeVars
<1> QED
  BY <1>2, <1>3, <1>4, <1>5, <1>6, <1>7, <1>8, <1>10, <1>11, <1>12, <1>13, <1>14, <1>16, <1>17, <1>18
  DEF RuntimeNext, Executing

-----------------------------------------------------------------------------
(* apply and the journal's executor stay in step.                          *)

\* The steps inside perform.
Performing ==
    \/ RPerform \/ StageCreate \/ SelectCheck \/ SaveCheck \/ Rename
    \/ \E p \in Children : Spawn(p)
    \/ Readiness \/ ReadinessFails
    \/ StopBegin \/ StopEnds \/ StopTimesOut
    \/ Receipt

\* A step inside perform: where it leads, for which commands, and what it leaves.
LEMMA PerformingMoves ==
  ASSUME JournalInv, RuntimeInv, RuntimeTurns, Performing
  PROVE  /\ UNCHANGED journalVars
         /\ exec.pc = "started" /\ work.step # "rest"
         /\ work'.step \notin {"rest", "accepted"}
         /\ work.performed = TRUE => work'.performed = TRUE
         /\ work'.step \in {"receipt", "report"} => work'.performed = TRUE
         /\ Cmd.kind \in KindAt(work'.step)
         /\ Cmd.kind = "stage" /\ work'.step \in {"create", "save", "rename"} =>
               mem'.cands[Cmd.cand] = None
         /\ \A o \in Operations : receipt'[o] = "whole" =>
               receipt[o] = "whole" \/ (o = exec.op /\ work'.performed = TRUE)
<1>0. /\ WorkTypeOK /\ work.step \in WorkSteps /\ work.performed \in BOOLEAN
      /\ receipt \in [Operations -> {None, "torn", "whole"}]
  BY DEF RuntimeInv, WorkTypeOK, RuntimeTypeOK
<1>1. UNCHANGED journalVars
  BY DEF Performing, RPerform, StageCreate, SelectCheck, SaveCheck, Rename, Spawn, Readiness,
         ReadinessFails, StopBegin, StopEnds, StopTimesOut, Receipt, TakeHandle
<1>2. exec.pc = "started" /\ work.step # "rest"
  <2>1. CASE RPerform
    BY <2>1 DEF RPerform
  <2>2. CASE ~RPerform
    <3>1. work.step \notin {"rest", "accepted"}
      BY <2>2 DEF Performing, StageCreate, SelectCheck, SaveCheck, Rename, Spawn, Readiness,
             ReadinessFails, StopBegin, StopEnds, StopTimesOut, Receipt
    <3> QED
      BY <3>1 DEF RuntimeTurns, RuntimePlace
  <2> QED
    BY <2>1, <2>2
<1>3. /\ Cmd \in Command /\ Cmd.kind \in KindAt(work.step)
      /\ Cmd.kind \in {"stage", "select", "start", "stop", "restart"}
      /\ Cmd.kind = "stage" /\ work.step \in {"accepted", "create", "save", "rename"} =>
            mem.cands[Cmd.cand] = None
      /\ work.step \in {"receipt", "report"} => work.performed = TRUE
  BY <1>0, <1>2, CommandTyped DEF RuntimeTurns, RuntimePlace, CommandAtHand, Command
<1> DEFINE Moves ==
             /\ work.performed = TRUE => work'.performed = TRUE
             /\ work'.step \in {"receipt", "report"} => work'.performed = TRUE
           Kinds == Cmd.kind \in KindAt(work'.step)
           Unnamed == Cmd.kind = "stage" /\ work'.step \in {"create", "save", "rename"} =>
                         mem'.cands[Cmd.cand] = None
           Proven == \A o \in Operations : receipt'[o] = "whole" =>
                        receipt[o] = "whole" \/ (o = exec.op /\ work'.performed = TRUE)
           Goal == work'.step \notin {"rest", "accepted"} /\ Moves /\ Kinds /\ Unnamed /\ Proven
<1>s. SUFFICES Goal
  BY <1>1, <1>2
<1>4. CASE RPerform
  <2>1. work.step = "accepted" /\ work' = [work EXCEPT !.step = FirstStep[Cmd.kind]]
        /\ UNCHANGED <<mem, receipt>>
    BY <1>4 DEF RPerform
  <2>2. FirstStep[Cmd.kind] \in {"create", "select", "spawn", "stop", "restart"}
        /\ Cmd.kind \in KindAt(FirstStep[Cmd.kind])
    BY <1>3 DEF FirstStep, KindAt
  <2>3. work'.step = FirstStep[Cmd.kind] /\ work'.performed = work.performed
    BY <1>0, <2>1 DEF WorkTypeOK
  <2> QED
    BY <1>3, <2>1, <2>2, <2>3
<1>5. CASE StageCreate \/ SelectCheck \/ SaveCheck
  <2>1. work.step \in {"create", "select", "save"} /\ UNCHANGED <<mem, receipt>>
    BY <1>5 DEF StageCreate, SelectCheck, SaveCheck
  <2>2. work'.step \in {"save", "rename"} /\ work'.performed = work.performed
    BY <1>0, <1>5 DEF StageCreate, SelectCheck, SaveCheck, Go, WorkTypeOK
  <2>3. Cmd.kind \in {"stage", "select"} /\ Kinds
    BY <1>3, <2>1, <2>2 DEF KindAt
  <2>4. Unnamed
    <3>1. Cmd.kind = "stage" => work.step \in {"create", "save"}
      BY <1>3, <2>1 DEF KindAt
    <3> QED
      BY <1>3, <2>1, <3>1
  <2> QED
    BY <1>3, <2>1, <2>2, <2>3, <2>4
<1>6. CASE Rename \/ Readiness \/ Receipt
  <2>1. work'.step \in {"receipt", "failed", "report"}
    BY <1>0, <1>6 DEF Rename, Readiness, Receipt, Performed, Go, WorkTypeOK
  <2>2. work'.performed = TRUE
    <3>1. CASE Rename \/ Readiness
      BY <1>0, <3>1 DEF Rename, Readiness, Performed, WorkTypeOK
    <3>2. CASE Receipt
      BY <1>0, <1>3, <3>2 DEF Receipt, Go, WorkTypeOK
    <3> QED
      BY <1>6, <3>1, <3>2
  <2>3. Kinds
    BY <1>3, <2>1 DEF KindAt
  <2>4. Proven
    BY <1>0, <1>6, <2>2 DEF Rename, Readiness, Receipt
  <2> QED
    BY <2>1, <2>2, <2>3, <2>4
<1>7. CASE \/ \E p \in Children : Spawn(p)
           \/ ReadinessFails
  <2>1. work.step \in {"spawn", "readiness"} /\ UNCHANGED <<mem, receipt>>
    BY <1>7 DEF Spawn, ReadinessFails, TakeHandle
  <2>2. work'.step \in {"readiness", "cleanup"} /\ work'.performed = work.performed
    BY <1>0, <1>7 DEF Spawn, ReadinessFails, TakeHandle, Go, WorkTypeOK
  <2>3. Kinds
    BY <1>3, <2>1, <2>2 DEF KindAt
  <2> QED
    BY <2>1, <2>2, <2>3
<1>8. CASE StopBegin
  <2>1. work.step \in {"stop", "restart"} /\ UNCHANGED <<mem, receipt>>
    BY <1>8 DEF StopBegin, TakeHandle
  <2>2. \/ work'.step = "waiting" /\ work'.performed = work.performed
        \/ work.step = "stop" /\ work'.step = "receipt" /\ work'.performed = TRUE
        \/ work.step = "restart" /\ work'.step = "spawn" /\ work'.performed = work.performed
    BY <1>0, <1>8 DEF StopBegin, TakeHandle, Performed, Go, WorkTypeOK
  <2>3. Kinds
    BY <1>3, <2>1, <2>2 DEF KindAt
  <2> QED
    BY <2>1, <2>2, <2>3
<1>9. CASE StopEnds \/ StopTimesOut
  <2>1. UNCHANGED <<mem, receipt>>
    BY <1>9 DEF StopEnds, StopTimesOut
  <2>2. \/ work'.step = "failed" /\ work'.performed = work.performed
        \/ work'.step = "receipt" /\ work'.performed = TRUE
        \/ Cmd.kind = "restart" /\ work'.step = "spawn" /\ work'.performed = work.performed
    BY <1>0, <1>9 DEF StopEnds, StopTimesOut, WorkTypeOK
  <2>3. Kinds
    BY <1>3, <2>2 DEF KindAt
  <2> QED
    BY <2>1, <2>2, <2>3
<1> HIDE DEF Goal
<1> QED
  BY <1>4, <1>5, <1>6, <1>7, <1>8, <1>9 DEF Performing

\* apply, its command and its receipts agree with the executor after every step.
LEMMA RuntimeTurnsStep ==
  ASSUME JournalInv, RuntimeInv, RuntimeTurns, RuntimeNext
  PROVE  RuntimeTurns'
<1>0. /\ RuntimeTypeOK /\ WorkTypeOK /\ work.step \in WorkSteps /\ work.performed \in BOOLEAN
      /\ receipt \in [Operations -> {None, "torn", "whole"}]
      /\ RuntimePlace /\ CommandAtHand /\ ReceiptsAreTrue
  BY DEF RuntimeInv, RuntimeTypeOK, WorkTypeOK, RuntimeTurns
<1>e. /\ exec \in [pc : {"idle", "accepted", "started", "applied"},
                   op : Operations \cup {None}, effect : Effects \cup {None}]
      /\ operation \in [Operations -> Row \cup {None}]
      /\ exec.pc # "idle" => mode = "open" /\ exec.op \in Operations
  BY DEF JournalInv, JournalTypeOK, Whereabouts
<1>r. Resting.step = "rest" /\ Resting.performed = FALSE
  BY DEF Resting
\* Steps of the journal that leave apply where it is, or at rest.
<1>1. ASSUME UNCHANGED <<work, receipt, mem, owned>>, UNCHANGED <<operation, exec, done>>,
             mode' # "open" => owned = None
      PROVE  RuntimeTurns'
  BY <1>0, <1>1 DEF RuntimeTurns, RuntimePlace, CommandAtHand, ReceiptsAreTrue, Cmd
<1>2. ASSUME work' = Resting, exec'.pc \in {"idle", "applied"},
             \A o \in Operations : receipt'[o] = "whole" => o \in done',
             mode' # "open" => owned' = None
      PROVE  RuntimeTurns'
  BY <1>2, <1>r DEF RuntimeTurns, RuntimePlace, CommandAtHand, ReceiptsAreTrue
<1>3. ASSUME NEW o \in Operations, NEW s \in Subjects, NEW k \in Keys, NEW m \in Command,
             RAccept(o, s, k, m)
      PROVE  RuntimeTurns'
  <2>1. /\ Preparable(m) /\ mode = "open" /\ mode' = mode /\ exec.pc = "idle" /\ done' = done
        /\ operation' = [operation EXCEPT ![o] = [subject |-> s, key |-> k, request |-> m]]
        /\ exec' = [pc |-> "accepted", op |-> o, effect |-> None]
        /\ work' = [Resting EXCEPT !.step = "accepted", !.before = Observation]
        /\ UNCHANGED <<mem, receipt>>
    BY <1>3 DEF RAccept, Accept
  <2> HIDE DEF Observation
  <2>2. work'.step = "accepted" /\ work'.performed = FALSE
    BY <2>1 DEF Resting
  <2>3. exec'.pc = "accepted" /\ exec'.op = o
    BY <2>1
  <2>4. Cmd' = m
    BY <1>e, <2>1, <2>3 DEF Cmd
  <2>5. m.kind \in {"stage", "select", "start", "stop", "restart"}
    BY <1>3 DEF Command
  <2>6. m.kind = "stage" => mem.cands[m.cand] = None
    BY <2>1 DEF Preparable
  <2>7. RuntimePlace'
    BY <2>1, <2>2, <2>3 DEF RuntimePlace
  <2>8. CommandAtHand'
    BY <1>3, <2>1, <2>2, <2>4, <2>5, <2>6 DEF CommandAtHand, KindAt
  <2>9. ReceiptsAreTrue'
    BY <1>0, <2>1 DEF ReceiptsAreTrue
  <2> QED
    BY <2>7, <2>8, <2>9 DEF RuntimeTurns
<1>4. CASE RBegin
  <2>1. exec.pc = "accepted" /\ exec' = [exec EXCEPT !.pc = "started"]
        /\ UNCHANGED <<operation, mode, done>> /\ UNCHANGED <<work, receipt, mem, owned>>
    BY <1>4 DEF RBegin, Begin, runtimeVars
  <2>2. exec'.pc = "started" /\ exec'.op = exec.op
    BY <1>e, <2>1
  <2>3. work.step = "accepted" /\ work.performed = FALSE
    BY <1>0, <2>1 DEF RuntimePlace
  <2>4. Cmd' = Cmd
    BY <2>1, <2>2 DEF Cmd
  <2> QED
    BY <1>0, <1>e, <2>1, <2>2, <2>3, <2>4 DEF RuntimeTurns, RuntimePlace, CommandAtHand, ReceiptsAreTrue
<1>5. CASE RFinish
  <2>1. exec.pc = "applied" /\ exec' = IdleExec /\ UNCHANGED <<mode, done>>
        /\ UNCHANGED <<work, receipt, owned>>
    BY <1>5 DEF RFinish, Finish, runtimeVars
  <2>2. work.step = "rest" /\ work.performed # TRUE /\ exec'.pc = "idle"
    BY <1>0, <2>1 DEF RuntimePlace, IdleExec
  <2> QED
    BY <1>0, <1>e, <2>1, <2>2 DEF RuntimeTurns, RuntimePlace, CommandAtHand, ReceiptsAreTrue
<1>6. CASE RAppendFails
  <2>1. exec.pc \in {"accepted", "applied"} /\ exec' = IdleExec /\ UNCHANGED <<mode, done, receipt, owned>>
        /\ work' = Resting
    BY <1>6 DEF RAppendFails, AppendFails
  <2>2. exec'.pc = "idle" /\ mode' = "open"
    BY <1>e, <2>1 DEF IdleExec
  <2>3. \A o \in Operations : receipt'[o] = "whole" => o \in done'
    BY <1>0, <2>1 DEF ReceiptsAreTrue
  <2> QED
    BY <1>2, <2>1, <2>2, <2>3
<1>7. ASSUME NEW e \in Effects, NEW happened \in BOOLEAN, Returned(e, happened), work' = Resting,
             work.performed = TRUE => happened = TRUE,
             \A o \in Operations : receipt'[o] = "whole" => receipt[o] = "whole"
      PROVE  RuntimeTurns'
  <2>1. exec.pc = "started" /\ exec' = [exec EXCEPT !.pc = "applied", !.effect = e] /\ mode' = mode
        /\ done' = IF happened THEN done \cup {exec.op} ELSE done
    BY <1>7 DEF Returned
  <2>2. exec'.pc = "applied" /\ mode' = "open"
    BY <1>e, <2>1
  <2>3. \A o \in Operations : receipt'[o] = "whole" => o \in done'
    BY <1>0, <1>7, <2>1 DEF ReceiptsAreTrue
  <2> QED
    BY <1>2, <1>7, <2>2, <2>3
<1>8. CASE RStale
  <2>1. Returned("not_applied", FALSE) /\ work' = Resting /\ receipt' = receipt /\ work.step = "accepted"
    BY <1>8 DEF RStale
  <2>2. work.performed = FALSE
    BY <1>0, <2>1 DEF RuntimePlace
  <2> QED
    BY <1>7, <2>1, <2>2 DEF Effects
<1>9. CASE RApplied
  <2>1. Returned("applied", work.performed) /\ work' = Resting /\ receipt' = receipt
    BY <1>9 DEF RApplied
  <2> QED
    BY <1>0, <1>7, <2>1 DEF Effects
<1>10. CASE RFails
  <2>1. Returned("uncertain", work.performed) /\ work' = Resting /\ PartialWrite
    BY <1>10 DEF RFails
  <2>2. \A o \in Operations : receipt'[o] = "whole" => receipt[o] = "whole"
    BY <1>0, <2>1 DEF PartialWrite
  <2> QED
    BY <1>0, <1>7, <2>1, <2>2 DEF Effects
<1>11. CASE RCrash
  <2>1. /\ exec' = IdleExec /\ work' = Resting /\ owned' = None /\ PartialWrite
        /\ done' = IF exec.pc = "started" /\ work.performed THEN done \cup {exec.op} ELSE done
    BY <1>11 DEF RCrash
  <2>2. \A o \in Operations : receipt'[o] = "whole" => receipt[o] = "whole"
    BY <1>0, <2>1 DEF PartialWrite
  <2>3. \A o \in Operations : receipt'[o] = "whole" => o \in done'
    BY <1>0, <2>1, <2>2 DEF ReceiptsAreTrue
  <2>4. exec'.pc = "idle"
    BY <2>1 DEF IdleExec
  <2> QED
    BY <1>2, <2>1, <2>3, <2>4
<1>12. CASE Performing
  <2>1. /\ UNCHANGED <<operation, exec, mode, done>>
        /\ exec.pc = "started" /\ work.step # "rest"
        /\ work'.step \notin {"rest", "accepted"}
        /\ work.performed = TRUE => work'.performed = TRUE
        /\ work'.step \in {"receipt", "report"} => work'.performed = TRUE
    BY <1>12, PerformingMoves DEF journalVars
  <2>2. RuntimePlace'
    BY <1>e, <2>1 DEF RuntimePlace
  <2>3. Cmd' = Cmd /\ Cmd \in Command
    BY <1>0, <2>1 DEF Cmd, CommandAtHand
  <2>4. CommandAtHand'
    <3>1. /\ Cmd.kind \in KindAt(work'.step)
          /\ Cmd.kind = "stage" /\ work'.step \in {"create", "save", "rename"} =>
               mem'.cands[Cmd.cand] = None
      BY <1>12, PerformingMoves
    <3> QED
      BY <2>1, <2>3, <3>1 DEF CommandAtHand, KindAt
  <2>5. ReceiptsAreTrue'
    <3>1. \A o \in Operations : receipt'[o] = "whole" =>
             receipt[o] = "whole" \/ (o = exec.op /\ work'.performed = TRUE)
      BY <1>12, PerformingMoves
    <3> QED
      BY <1>0, <2>1, <3>1 DEF ReceiptsAreTrue
  <2> QED
    BY <2>2, <2>4, <2>5 DEF RuntimeTurns
<1>13. CASE Status
  <2>1. /\ mode = "open" /\ exec.pc = "idle" /\ UNCHANGED <<operation, exec, mode, done>>
        /\ UNCHANGED <<work, receipt, mem>>
    BY <1>13 DEF Status, journalVars
  <2> QED
    BY <1>0, <2>1 DEF RuntimeTurns, RuntimePlace, CommandAtHand, ReceiptsAreTrue, Cmd
<1>14. CASE ROpen
  <2>1. /\ mode = "closed" /\ UNCHANGED <<operation, exec, done>> /\ UNCHANGED <<work, receipt, mem, owned>>
    BY <1>14 DEF ROpen, Open, runtimeVars
  <2> QED
    BY <1>0, <1>1, <2>1 DEF RuntimePlace
<1>15. CASE ROpened
  <2>1. /\ mode = "recovering" /\ mode' = "open" /\ UNCHANGED <<operation, exec, done>>
        /\ UNCHANGED <<work, receipt, owned>>
    BY <1>15 DEF ROpened, Opened
  <2>2. exec.pc = "idle" /\ work.step = "rest"
    BY <1>0, <1>e, <2>1 DEF RuntimePlace
  <2> QED
    BY <1>0, <2>1, <2>2 DEF RuntimeTurns, RuntimePlace, CommandAtHand, ReceiptsAreTrue
<1>16. ASSUME NEW o \in Operations, RSettle(o) \/ RReconcile(o) PROVE RuntimeTurns'
  <2>1. UNCHANGED <<operation, exec, mode, done>> /\ UNCHANGED <<work, receipt, mem, owned>>
    BY <1>16 DEF RSettle, RReconcile, Settle, Recover, Reconciled, runtimeVars
  <2> QED
    BY <1>0, <1>1, <2>1 DEF RuntimePlace
<1>17. CASE Outside
  <2>1. UNCHANGED <<operation, exec, mode, done>> /\ UNCHANGED <<work, receipt, mem, owned>>
    BY <1>17 DEF Outside, ChildLease, ChildServe, ChildExit, EditSource, EditState, Tamper, journalVars
  <2> QED
    BY <1>0, <1>1, <2>1 DEF RuntimePlace
<1> QED
  BY <1>3, <1>4, <1>5, <1>6, <1>8, <1>9, <1>10, <1>11, <1>12, <1>13, <1>14, <1>15, <1>16, <1>17
  DEF RuntimeNext, Executing, Performing

\* The runtime adapter keeps its invariant.
LEMMA RuntimeInvStep ==
  ASSUME JournalInv, JournalInv', RuntimeInv, RuntimeTurns, RuntimeNext
  PROVE  RuntimeInv' /\ RuntimeTurns'
  BY RuntimeTypeStep, OneServingStep, RegisteredStep, RuntimeTurnsStep DEF RuntimeInv

-----------------------------------------------------------------------------
(* The package store keeps its types.                                      *)

\* The parts of the type invariant that the steps below use.
LEMMA StoreTyped ==
  ASSUME PackagesTypeOK
  PROVE  /\ Inventory \in [active : Activation, stored : Files]
         /\ active.generation \in Nat /\ active.packs \in [Ids -> Builds \cup {None}]
         /\ stored \in Files
         /\ \A w \in Writers : writer[w] \in Writer
         /\ \A w \in Writers : writer[w].step \in WriterSteps /\ writer[w].performed \in BOOLEAN
  BY DEF PackagesTypeOK, Inventory, Activation, Writer

\* The command a writer works on.
LEMMA WantedTyped ==
  ASSUME PackagesInv, NEW w \in Writers, writer[w].step \in Running
  PROVE  /\ Wanted(w) \in PackageCommand
         /\ Wanted(w).id \in Ids
         /\ Wanted(w).build \in Builds \cup {None}
         /\ Wanted(w).kind # "disable" => Wanted(w).build \in Builds
<1>1. writer[w].cmd \in PackageCommand
  BY DEF PackagesInv, Drafted, DraftedBy, PackagesTypeOK, Writer
<1> QED
  BY <1>1 DEF Wanted, PackageCommand

\* Changes of one writer's record keep its type.
LEMMA WriterTyped ==
  ASSUME PackagesTypeOK, NEW w \in Writers
  PROVE  /\ NoWriter \in Writer
         /\ \A step \in WriterSteps, q \in PackageCommand,
               inventory \in [active : Activation, stored : Files] \cup {None} :
               Working(step, q, inventory) \in Writer
         /\ \A step \in WriterSteps : [writer[w] EXCEPT !.step = step] \in Writer
         /\ \A step \in WriterSteps : [writer[w] EXCEPT !.step = step, !.performed = TRUE] \in Writer
         /\ \A step \in WriterSteps, d \in Activation :
               [writer[w] EXCEPT !.step = step, !.draft = d] \in Writer
         /\ \A fate \in BOOLEAN : [writer[w] EXCEPT !.fate = fate] \in Writer
<1>1. writer[w] \in Writer
  BY DEF PackagesTypeOK
<1>2. NoWriter \in Writer
  BY DEF NoWriter, Working, Writer, WriterSteps
<1>3. \A step \in WriterSteps, q \in PackageCommand,
         inventory \in [active : Activation, stored : Files] \cup {None} :
         Working(step, q, inventory) \in Writer
  BY DEF Working, Writer
<1>4. \A step \in WriterSteps : [writer[w] EXCEPT !.step = step] \in Writer
  BY <1>1 DEF Writer
<1>5. \A step \in WriterSteps : [writer[w] EXCEPT !.step = step, !.performed = TRUE] \in Writer
  BY <1>1 DEF Writer
<1>6. \A step \in WriterSteps, d \in Activation :
         [writer[w] EXCEPT !.step = step, !.draft = d] \in Writer
  BY <1>1 DEF Writer
<1>7. \A fate \in BOOLEAN : [writer[w] EXCEPT !.fate = fate] \in Writer
  BY <1>1 DEF Writer
<1> QED
  BY <1>2, <1>3, <1>4, <1>5, <1>6, <1>7

\* A writer's record as the step that changes it leaves it.
LEMMA WriterChanges ==
  ASSUME PackagesTypeOK, NEW w \in Writers
  PROVE  /\ \A step \in WriterSteps : Step(w, step) =>
               writer' = [writer EXCEPT ![w] = [writer[w] EXCEPT !.step = step]]
         /\ Performs(w) =>
               writer' = [writer EXCEPT ![w] = [writer[w] EXCEPT !.step = "after", !.performed = TRUE]]
<1>1. writer \in [Writers -> Writer] /\ writer[w] \in Writer
  BY DEF PackagesTypeOK
<1>2. \A step \in WriterSteps : Step(w, step) =>
         writer' = [writer EXCEPT ![w] = [writer[w] EXCEPT !.step = step]]
  BY <1>1 DEF Step
<1>3. Performs(w) =>
         writer' = [writer EXCEPT ![w] = [writer[w] EXCEPT !.step = "after", !.performed = TRUE]]
  BY <1>1 DEF Performs, Writer
<1> QED
  BY <1>2, <1>3

\* commit drafts the activation that follows the one it read.
LEMMA DraftChanges ==
  ASSUME PackagesInv, NEW w \in Writers, Draft(w)
  PROVE  \E d \in Activation :
            /\ writer' = [writer EXCEPT ![w] = [writer[w] EXCEPT !.step = "renaming", !.draft = d]]
            /\ d.generation = active.generation + 1
            /\ d.packs = [active.packs EXCEPT ![Wanted(w).id] = Wanted(w).build]
<1> DEFINE d == [generation |-> active.generation + 1,
                 packs |-> [active.packs EXCEPT ![Wanted(w).id] = Wanted(w).build]]
<1>0. PackagesTypeOK /\ writer \in [Writers -> Writer] /\ writer[w] \in Writer
  BY DEF PackagesInv, PackagesTypeOK
<1>1. writer[w].step \in Running
  BY DEF Draft, Activatable, Checked, Running
<1>2. d \in Activation
  <2>1. active.generation + 1 \in Nat
    BY <1>0, StoreTyped
  <2>2. [active.packs EXCEPT ![Wanted(w).id] = Wanted(w).build] \in [Ids -> Builds \cup {None}]
    BY <1>0, <1>1, StoreTyped, WantedTyped
  <2> QED
    BY <2>1, <2>2 DEF Activation
<1>3. writer' = [writer EXCEPT ![w].step = "renaming", ![w].draft = d]
  BY DEF Draft
<1> HIDE DEF d
<1>4. writer' = [writer EXCEPT ![w] = [writer[w] EXCEPT !.step = "renaming", !.draft = d]]
  BY <1>0, <1>3 DEF Writer
<1> QED
  BY <1>2, <1>4 DEF d

\* The store and its writers have their types after every step.
LEMMA PackagesTypeStep ==
  ASSUME JournalInv, PackagesInv, PackageTurns, PackagesNext
  PROVE  PackagesTypeOK'
<1>0. /\ PackagesTypeOK /\ driver \in {"pack", "native"} /\ stored \in Files
      /\ litter \subseteq Writers \cup {"dead"} /\ active \in Activation
      /\ lock \in Writers \cup {"dead", None} /\ writer \in [Writers -> Writer]
      /\ proof \in [Operations -> {None, "torn", "whole"}]
      /\ Inventory \in [active : Activation, stored : Files]
  BY StoreTyped DEF PackagesInv, PackagesTypeOK
<1>w. "manager" \in Writers /\ "orphan" \in Writers /\ "cli" \in Writers
  BY DEF Writers
<1>s. Running \subseteq WriterSteps /\ {"none", "accepted", "receipt", "report"} \subseteq WriterSteps
      /\ {"locking", "checking", "checked", "writing", "renaming", "after"} \subseteq WriterSteps
  BY DEF WriterSteps, Running
<1>1. ASSUME NEW w \in Writers, NEW r \in Writer, writer' = [writer EXCEPT ![w] = r]
      PROVE  writer' \in [Writers -> Writer]
  BY <1>0, <1>1
<1>2. ASSUME NEW w \in Writers, NEW step \in WriterSteps, Step(w, step)
      PROVE  writer' \in [Writers -> Writer]
  <2>1. writer' = [writer EXCEPT ![w] = [writer[w] EXCEPT !.step = step]]
    BY <1>0, <1>2, WriterChanges
  <2> QED
    BY <1>0, <1>1, <2>1, WriterTyped
<1>3. ASSUME NEW w \in Writers, Performs(w) PROVE writer' \in [Writers -> Writer]
  <2>1. writer' = [writer EXCEPT ![w] = [writer[w] EXCEPT !.step = "after", !.performed = TRUE]]
    BY <1>0, <1>3, WriterChanges
  <2> QED
    BY <1>0, <1>1, <1>s, <2>1, WriterTyped
<1>4. ASSUME NEW w \in Writers, writer' = [writer EXCEPT ![w] = NoWriter] PROVE writer' \in [Writers -> Writer]
  BY <1>0, <1>1, <1>4, WriterTyped
<1>5. CASE UNCHANGED packageVars
  BY <1>0, <1>5 DEF packageVars, PackagesTypeOK
<1>6. ASSUME NEW w \in Writers, Unwritten(w), writer[w].step \in Running PROVE PackagesTypeOK'
  <2>1. stored' \in Files
    BY <1>0, <1>6 DEF Unwritten, Files
  <2>2. writer' \in [Writers -> Writer]
    BY <1>4, <1>6 DEF Unwritten
  <2> QED
    BY <1>0, <1>6, <2>1, <2>2 DEF Unwritten, Freed, PackagesTypeOK
<1>7. ASSUME NEW w \in Writers, Abandoned(w) PROVE PackagesTypeOK'
  <2>1. writer' \in [Writers -> Writer]
    BY <1>4, <1>7 DEF Abandoned
  <2> QED
    BY <1>0, <1>7, <2>1 DEF Abandoned, Freed, PackagesTypeOK
<1>8. ASSUME NEW fate \in BOOLEAN, Orphaned(fate) PROVE PackagesTypeOK'
  <2>1. writer' = [writer EXCEPT !["manager"] = NoWriter,
                                 !["orphan"] = [writer["manager"] EXCEPT !.fate = fate]]
    BY <1>8 DEF Orphaned
  <2>2. NoWriter \in Writer /\ [writer["manager"] EXCEPT !.fate = fate] \in Writer
    BY <1>0, <1>w, WriterTyped
  <2>3. writer' \in [Writers -> Writer]
    BY <1>0, <2>1, <2>2
  <2> QED
    BY <1>0, <1>8, <1>w, <2>3 DEF Orphaned, PackagesTypeOK
<1>9. ASSUME NEW o \in Operations, NEW s \in Subjects, NEW k \in Keys, NEW q \in PackageCommand,
             PAccept(o, s, k, q)
      PROVE  PackagesTypeOK'
  <2>1. writer' = [writer EXCEPT !["manager"] = Working("accepted", q, Inventory)]
    BY <1>9 DEF PAccept
  <2>2. Working("accepted", q, Inventory) \in Writer
    BY <1>0, <1>s, <1>w, WriterTyped
  <2> HIDE DEF Inventory, Working
  <2>3. writer' \in [Writers -> Writer]
    BY <1>1, <1>w, <2>1, <2>2
  <2> QED
    BY <1>0, <1>9, <2>3 DEF PAccept, PackagesTypeOK, storeVars
<1>10. CASE PBegin \/ PFinish \/ POpen \/ \E o \in Operations : PReconcile(o) \/ PSettle(o)
  BY <1>5, <1>10 DEF PBegin, PFinish, POpen, PReconcile, PSettle
<1>11. CASE PMutate
  <2>1. writer' \in [Writers -> Writer]
    BY <1>2, <1>11, <1>s, <1>w DEF PMutate
  <2> QED
    BY <1>0, <1>11, <2>1 DEF PMutate, PackagesTypeOK, storeVars
<1>12. CASE PNotApplied \/ PApplied \/ PAppendFails
  <2>1. writer' = [writer EXCEPT !["manager"] = NoWriter] /\ UNCHANGED <<driver, storeVars, proof>>
    BY <1>12 DEF PNotApplied, PApplied, PAppendFails
  <2> QED
    BY <1>0, <1>4, <1>w, <2>1 DEF PackagesTypeOK, storeVars
<1>13. CASE PConflict \/ PFails
  <2>1. Unwritten("manager") /\ writer["manager"].step \in Running
    BY <1>13 DEF PConflict, PFails, Running
  <2> QED
    BY <1>6, <1>w, <2>1
<1>14. ASSUME NEW fate \in BOOLEAN, PTimesOut(fate) PROVE PackagesTypeOK'
  BY <1>8, <1>14 DEF PTimesOut
<1>15. CASE PReceipt
  <2>1. writer' \in [Writers -> Writer]
    BY <1>2, <1>15, <1>s, <1>w DEF PReceipt
  <2> QED
    BY <1>0, <1>15, <2>1 DEF PReceipt, PackagesTypeOK, storeVars
<1>16. ASSUME NEW left \in {None, "torn"}, PReceiptFails(left) PROVE PackagesTypeOK'
  <2>1. writer' \in [Writers -> Writer]
    BY <1>4, <1>16, <1>w DEF PReceiptFails
  <2> QED
    BY <1>0, <1>16, <2>1 DEF PReceiptFails, PackagesTypeOK, storeVars
<1>17. CASE PCrash
  BY <1>7, <1>8, <1>17, <1>w DEF PCrash
<1>18. CASE HostCleans
  <2>1. stored' \in Files
    BY <1>0, <1>18 DEF HostCleans, Files
  <2> QED
    BY <1>0, <1>18, <2>1 DEF HostCleans, PackagesTypeOK
<1>19. ASSUME NEW q \in PackageCommand, CliStart(q) PROVE PackagesTypeOK'
  <2>1. writer' = [writer EXCEPT !["cli"] = Working("locking", q, None)]
    BY <1>19 DEF CliStart
  <2>2. Working("locking", q, None) \in Writer
    BY <1>0, <1>s, <1>w, WriterTyped
  <2> HIDE DEF Working
  <2>3. writer' \in [Writers -> Writer]
    BY <1>1, <1>w, <2>1, <2>2
  <2> QED
    BY <1>0, <1>19, <2>3 DEF CliStart, PackagesTypeOK, storeVars
<1>20. ASSUME NEW w \in Writers, Acquire(w) \/ CheckExpected(w) PROVE PackagesTypeOK'
  <2>1. writer' \in [Writers -> Writer]
    BY <1>2, <1>20, <1>s DEF Acquire, CheckExpected
  <2> QED
    BY <1>0, <1>20, <2>1 DEF Acquire, CheckExpected, PackagesTypeOK, storeVars
<1>21. ASSUME NEW w \in Writers, Present(w) PROVE PackagesTypeOK'
  <2>1. writer' \in [Writers -> Writer]
    BY <1>3, <1>21 DEF Present
  <2> QED
    BY <1>0, <1>21, <2>1 DEF Present, PackagesTypeOK, storeVars
<1>22. ASSUME NEW w \in Writers, InstallBegin(w) PROVE PackagesTypeOK'
  <2>1. writer' \in [Writers -> Writer]
    BY <1>2, <1>22, <1>s DEF InstallBegin
  <2>2. stored' \in Files
    <3>1. stored' = stored \/ stored' = [stored EXCEPT ![Wanted(w).id][Wanted(w).build] = "torn"]
      BY <1>22 DEF InstallBegin
    <3> QED
      BY <1>0, <3>1 DEF Files
  <2> QED
    BY <1>0, <1>22, <2>1, <2>2 DEF InstallBegin, PackagesTypeOK
<1>23. ASSUME NEW w \in Writers, InstallEnd(w) PROVE PackagesTypeOK'
  <2>1. writer' \in [Writers -> Writer]
    BY <1>3, <1>23 DEF InstallEnd
  <2>2. stored' \in Files
    BY <1>0, <1>23 DEF InstallEnd, Files
  <2> QED
    BY <1>0, <1>23, <2>1, <2>2 DEF InstallEnd, PackagesTypeOK
<1>24. ASSUME NEW w \in Writers, Draft(w) PROVE PackagesTypeOK'
  <2>1. PICK d \in Activation :
           writer' = [writer EXCEPT ![w] = [writer[w] EXCEPT !.step = "renaming", !.draft = d]]
    BY <1>24, DraftChanges
  <2>2. [writer[w] EXCEPT !.step = "renaming", !.draft = d] \in Writer
    BY <1>0, <1>s, WriterTyped
  <2>3. writer' \in [Writers -> Writer]
    BY <1>1, <2>1, <2>2
  <2>4. litter' \subseteq Writers \cup {"dead"} /\ UNCHANGED <<driver, stored, active, lock, proof>>
    BY <1>0, <1>24 DEF Draft
  <2> QED
    BY <1>0, <2>3, <2>4 DEF PackagesTypeOK
<1>25. ASSUME NEW w \in Writers, RenameActivation(w) PROVE PackagesTypeOK'
  <2>1. writer' \in [Writers -> Writer]
    BY <1>3, <1>25 DEF RenameActivation
  <2>2. active' \in Activation
    BY <1>0, <1>25 DEF RenameActivation, PackagesInv, Drafted, DraftedBy, Writer
  <2> QED
    BY <1>0, <1>25, <2>1, <2>2 DEF RenameActivation, PackagesTypeOK
<1>26. ASSUME NEW w \in Writers, Return(w) PROVE PackagesTypeOK'
  <2>1. writer' = [writer EXCEPT ![w] = IF w = "manager" THEN [writer[w] EXCEPT !.step = "receipt"] ELSE NoWriter]
    BY <1>0, <1>26 DEF Return
  <2>2. (IF w = "manager" THEN [writer[w] EXCEPT !.step = "receipt"] ELSE NoWriter) \in Writer
    BY <1>0, <1>s, WriterTyped
  <2>3. writer' \in [Writers -> Writer]
    BY <1>1, <2>1, <2>2
  <2> QED
    BY <1>0, <1>26, <2>3 DEF Return, Freed, PackagesTypeOK
<1>27. ASSUME NEW w \in Writers, OtherEnds(w) PROVE PackagesTypeOK'
  BY <1>6, <1>7, <1>27 DEF OtherEnds
<1> QED
  BY <1>9, <1>10, <1>11, <1>12, <1>13, <1>14, <1>15, <1>16, <1>17, <1>18, <1>19, <1>20, <1>21, <1>22,
     <1>23, <1>24, <1>25, <1>26, <1>27
  DEF PackagesNext, WriterNext

-----------------------------------------------------------------------------
(* The lock protects the activation.                                       *)

\* Files that are complete stay complete.
WholeStays == \A i \in Ids, b \in Builds : stored[i][b] = "whole" => stored'[i][b] = "whole"

\* A complete activation stays complete where complete files do.
LEMMA ActiveStaysWhole ==
  ASSUME PackagesTypeOK, ActiveIsWhole, active' = active, WholeStays
  PROVE  ActiveIsWhole'
<1>1. \A i \in Ids : active.packs[i] \in Builds \cup {None}
  BY StoreTyped
<1> QED
  BY <1>1 DEF ActiveIsWhole, WholeStays

\* Writers outside the critical section have nothing to lose.
LEMMA OutsidersKeep ==
  ASSUME Drafted, NEW v \in Writers, writer[v].step \notin Inside, writer'[v] = writer[v]
  PROVE  DraftedBy(v)' /\ writer'[v].step \notin Inside
  BY DEF Drafted, DraftedBy, Inside, Running

\* A writer that is, or gets, outside disturbs nobody: only the holder of the lock
\* takes back what it wrote, and a file that was whole stays whole.
LEMMA WithdrawKeeps ==
  ASSUME PackagesInv, NEW w \in Writers,
         \A v \in Writers \ {w} : writer'[v] = writer[v],
         writer'[w].step \notin Inside,
         writer'[w].step \in {"locking", "accepted"} => writer'[w].cmd \in PackageCommand,
         UNCHANGED <<driver, active>>,
         stored' = stored \/ lock = w, WholeStays,
         \A v \in Writers \ {w} : lock = v => lock' = v
  PROVE  Exclusive' /\ Drafted' /\ ActiveIsWhole'
<1>0. PackagesTypeOK /\ Exclusive /\ Drafted /\ ActiveIsWhole
  BY DEF PackagesInv
<1>1. ActiveIsWhole'
  BY <1>0, ActiveStaysWhole
<1>2. ASSUME NEW v \in Writers \ {w} PROVE (writer'[v].step \in Inside => lock' = v) /\ DraftedBy(v)'
  <2>1. CASE writer[v].step \in Inside
    <3>1. lock = v /\ stored' = stored /\ lock' = v /\ writer'[v] = writer[v]
      BY <1>0, <1>2, <2>1 DEF Exclusive
    <3>2. Inventory' = Inventory /\ FileOf(v)' = FileOf(v)
      BY <1>2, <3>1 DEF Inventory, FileOf, Wanted
    <3>3. DraftedBy(v)
      BY <1>0 DEF Drafted
    <3> QED
      BY <3>1, <3>2, <3>3 DEF DraftedBy
  <2>2. CASE writer[v].step \notin Inside
    BY <1>0, <1>2, <2>2, OutsidersKeep
  <2> QED
    BY <2>1, <2>2
<1>3. DraftedBy(w)'
  BY DEF DraftedBy, Inside, Running
<1>4. Exclusive'
  BY <1>2 DEF Exclusive
<1>5. Drafted'
  BY <1>2, <1>3 DEF Drafted
<1> QED
  BY <1>1, <1>4, <1>5

\* The writer that holds the lock, or takes a free one, is alone inside: it has to
\* answer for itself and for the activation only.
LEMMA HolderKeeps ==
  ASSUME PackagesInv, NEW w \in Writers, lock \in {w, None},
         \A v \in Writers \ {w} : writer'[v] = writer[v],
         lock' = w, DraftedBy(w)', ActiveIsWhole'
  PROVE  Exclusive' /\ Drafted' /\ ActiveIsWhole'
<1>0. Exclusive /\ Drafted /\ None \notin Writers
  BY PackagesAssumption DEF PackagesInv, Writers
<1>1. ASSUME NEW v \in Writers \ {w} PROVE writer'[v].step \notin Inside /\ DraftedBy(v)'
  <2>1. writer[v].step \notin Inside
    BY <1>0, <1>1 DEF Exclusive
  <2> QED
    BY <1>0, <1>1, <2>1, OutsidersKeep
<1> QED
  BY <1>1 DEF Exclusive, Drafted

\* A step that leaves files, activation and lock alone and one writer outside.
LEMMA StayingOutKeeps ==
  ASSUME PackagesInv, NEW w \in Writers, NEW r \in Writer,
         writer' = [writer EXCEPT ![w] = r], r.step \notin Inside,
         r.step \in {"locking", "accepted"} => r.cmd \in PackageCommand, UNCHANGED <<driver, stored, active>>,
         lock' \in {lock, Freed(w)} \/ (lock = w /\ lock' = "dead")
  PROVE  Exclusive' /\ Drafted' /\ ActiveIsWhole'
<1>1. writer'[w] = r /\ \A v \in Writers \ {w} : writer'[v] = writer[v]
  BY DEF PackagesInv, PackagesTypeOK
<1>2. WholeStays
  BY DEF WholeStays
<1>3. \A v \in Writers \ {w} : lock = v => lock' = v
  BY DEF Freed
<1> QED
  BY <1>1, <1>2, <1>3, WithdrawKeeps

\* An error inside the procedure, or the end of the process.
LEMMA LeavingKeeps ==
  ASSUME PackagesInv, NEW w \in Writers, Unwritten(w) \/ Abandoned(w)
  PROVE  Exclusive' /\ Drafted' /\ ActiveIsWhole'
<1>0. PackagesTypeOK /\ Exclusive /\ DraftedBy(w) /\ NoWriter \in Writer /\ stored \in Files
  BY WriterTyped DEF PackagesInv, Drafted, PackagesTypeOK
<1>1. NoWriter.step = "none"
  BY DEF NoWriter, Working
<1>2. writer' = [writer EXCEPT ![w] = NoWriter] /\ UNCHANGED <<driver, active>>
  BY DEF Unwritten, Abandoned
<1>3. CASE Abandoned(w)
  <2>1. stored' = stored /\ (lock' \in {lock, Freed(w)} \/ (lock = w /\ lock' = "dead"))
    BY <1>3 DEF Abandoned
  <2> QED
    BY <1>0, <1>1, <1>2, <2>1, StayingOutKeeps DEF Inside, Running
<1>4. CASE Unwritten(w)
  <2>1. lock' = Freed(w)
    BY <1>4 DEF Unwritten
  <2>2. CASE stored' = stored
    BY <1>0, <1>1, <1>2, <2>1, <2>2, StayingOutKeeps DEF Inside, Running
  <2>3. CASE stored' # stored
    <3>1. /\ driver = "pack" /\ writer[w].step = "writing"
          /\ stored' = [stored EXCEPT ![Wanted(w).id][Wanted(w).build] = "absent"]
      BY <1>4, <2>3 DEF Unwritten
    <3>2. lock = w /\ FileOf(w) = "torn"
      BY <1>0, <3>1 DEF Exclusive, DraftedBy, Inside, Running
    <3>3. WholeStays
      BY <1>0, <3>1, <3>2 DEF WholeStays, FileOf, Files
    <3>4. writer'[w] = NoWriter /\ \A v \in Writers \ {w} : writer'[v] = writer[v]
      BY <1>2 DEF PackagesInv, PackagesTypeOK
    <3> QED
      BY <1>1, <1>2, <3>2, <3>3, <3>4, WithdrawKeeps DEF Inside, Running
  <2> QED
    BY <2>2, <2>3
<1> QED
  BY <1>3, <1>4

\* The helper keeps its place, its lock and what it found there when the call that
\* started it does not wait any longer.
LEMMA OrphanKeeps ==
  ASSUME PackagesInv, NEW fate \in BOOLEAN, Orphaned(fate)
  PROVE  Exclusive' /\ Drafted' /\ ActiveIsWhole'
<1>0. PackagesTypeOK /\ Exclusive /\ Drafted /\ ActiveIsWhole /\ writer \in [Writers -> Writer]
  BY DEF PackagesInv, PackagesTypeOK
<1>1. /\ writer' = [writer EXCEPT !["manager"] = NoWriter,
                                  !["orphan"] = [writer["manager"] EXCEPT !.fate = fate]]
      /\ lock' = IF lock = "manager" THEN "orphan" ELSE lock
      /\ UNCHANGED <<driver, stored, active>>
  BY DEF Orphaned
<1>2. /\ writer'["manager"] = NoWriter /\ writer'["cli"] = writer["cli"]
      /\ writer'["orphan"] = [writer["manager"] EXCEPT !.fate = fate]
      /\ writer["manager"] \in Writer
  BY <1>0, <1>1 DEF Writers
<1>3. LET m == writer["manager"]  h == writer'["orphan"] IN
      h.step = m.step /\ h.cmd = m.cmd /\ h.expected = m.expected /\ h.draft = m.draft
  BY <1>2 DEF Writer
<1>4. writer'["manager"].step = "none"
  BY <1>2 DEF NoWriter, Working
<1>5. Exclusive'
  BY <1>0, <1>1, <1>2, <1>3, <1>4 DEF Exclusive, Writers, Inside, Running
<1>6. Inventory' = Inventory
  BY <1>1 DEF Inventory
<1>7. DraftedBy("manager") /\ DraftedBy("cli")
  BY <1>0 DEF Drafted, Writers
<1>8. DraftedBy("manager")'
  BY <1>4 DEF DraftedBy, Running
<1>9. DraftedBy("cli")'
  BY <1>1, <1>2, <1>6, <1>7 DEF DraftedBy, FileOf, Wanted
<1>10. DraftedBy("orphan")'
  BY <1>1, <1>3, <1>6, <1>7 DEF DraftedBy, FileOf, Wanted
<1>11. Drafted'
  BY <1>8, <1>9, <1>10 DEF Drafted, Writers
<1>12. ActiveIsWhole'
  BY <1>0, <1>1 DEF ActiveIsWhole
<1> QED
  BY <1>5, <1>11, <1>12

\* The steps of a writer that takes or holds the lock.
LEMMA InsideKeeps ==
  ASSUME PackagesInv, NEW w \in Writers,
         \/ Acquire(w) \/ CheckExpected(w) \/ Present(w) \/ InstallBegin(w) \/ InstallEnd(w)
         \/ Draft(w) \/ RenameActivation(w)
  PROVE  Exclusive' /\ Drafted' /\ ActiveIsWhole'
<1>0. /\ PackagesTypeOK /\ Exclusive /\ DraftedBy(w) /\ ActiveIsWhole
      /\ writer \in [Writers -> Writer] /\ writer[w] \in Writer /\ stored \in Files
      /\ active.packs \in [Ids -> Builds \cup {None}]
  BY StoreTyped DEF PackagesInv, Drafted, PackagesTypeOK
<1>1. ASSUME NEW r \in Writer, writer' = [writer EXCEPT ![w] = r]
      PROVE  writer'[w] = r /\ \A v \in Writers \ {w} : writer'[v] = writer[v]
  BY <1>0, <1>1
<1>2. ASSUME NEW step \in WriterSteps, Step(w, step)
      PROVE  /\ \A v \in Writers \ {w} : writer'[v] = writer[v]
             /\ writer'[w].step = step /\ writer'[w].cmd = writer[w].cmd
             /\ writer'[w].expected = writer[w].expected
  <2>1. writer' = [writer EXCEPT ![w] = [writer[w] EXCEPT !.step = step]]
    BY <1>0, <1>2, WriterChanges
  <2>2. [writer[w] EXCEPT !.step = step] \in Writer
    BY <1>0, WriterTyped
  <2>3. writer'[w] = [writer[w] EXCEPT !.step = step] /\ \A v \in Writers \ {w} : writer'[v] = writer[v]
    BY <1>1, <2>1, <2>2
  <2> QED
    BY <1>0, <2>3 DEF Writer
<1>3. ASSUME Performs(w)
      PROVE  /\ \A v \in Writers \ {w} : writer'[v] = writer[v]
             /\ writer'[w].step = "after" /\ writer'[w].cmd = writer[w].cmd
  <2>1. writer' = [writer EXCEPT ![w] = [writer[w] EXCEPT !.step = "after", !.performed = TRUE]]
    BY <1>0, <1>3, WriterChanges
  <2>2. [writer[w] EXCEPT !.step = "after", !.performed = TRUE] \in Writer
    BY <1>0, WriterTyped DEF WriterSteps, Running
  <2>3. /\ writer'[w] = [writer[w] EXCEPT !.step = "after", !.performed = TRUE]
        /\ \A v \in Writers \ {w} : writer'[v] = writer[v]
    BY <1>1, <2>1, <2>2
  <2> QED
    BY <1>0, <2>3 DEF Writer
<1>4. ~Acquire(w) => writer[w].step \in Inside
  BY DEF CheckExpected, Present, InstallBegin, InstallEnd, Draft, RenameActivation, Activatable,
         Checked, Inside, Running
<1>5. ~Acquire(w) => lock = w /\ writer[w].cmd \in PackageCommand
  BY <1>0, <1>4 DEF Exclusive, DraftedBy, Inside
<1>6. CASE Acquire(w)
  <2>1. writer[w].step = "locking" /\ lock = None /\ lock' = w /\ Step(w, "checking")
        /\ UNCHANGED <<driver, stored, active>>
    BY <1>6 DEF Acquire
  <2>2. writer'[w].step = "checking" /\ writer'[w].cmd \in PackageCommand
        /\ \A v \in Writers \ {w} : writer'[v] = writer[v]
    BY <1>0, <1>2, <2>1 DEF DraftedBy, Running, WriterSteps
  <2>3. DraftedBy(w)'
    BY <2>2 DEF DraftedBy
  <2>4. ActiveIsWhole'
    BY <1>0, <2>1 DEF ActiveIsWhole
  <2> QED
    BY <2>1, <2>2, <2>3, <2>4, HolderKeeps
<1>7. CASE CheckExpected(w)
  <2>1. /\ writer[w].expected # None => Inventory = writer[w].expected
        /\ writer[w].step = "checking" /\ Step(w, "checked") /\ UNCHANGED <<driver, stored, active, lock>>
    BY <1>7 DEF CheckExpected, storeVars
  <2>2. ~Acquire(w)
    BY <2>1 DEF Acquire
  <2>3. /\ writer'[w].step = "checked" /\ writer'[w].cmd \in PackageCommand
        /\ writer'[w].expected = writer[w].expected
        /\ \A v \in Writers \ {w} : writer'[v] = writer[v]
    BY <1>2, <1>5, <2>1, <2>2 DEF Running, WriterSteps
  <2>4. Inventory' = Inventory
    BY <2>1 DEF Inventory
  <2>5. DraftedBy(w)'
    BY <2>1, <2>3, <2>4 DEF DraftedBy
  <2>6. ActiveIsWhole'
    BY <1>0, <2>1 DEF ActiveIsWhole
  <2> QED
    BY <1>5, <2>1, <2>2, <2>3, <2>5, <2>6, HolderKeeps
<1>8. CASE Present(w) \/ InstallEnd(w) \/ RenameActivation(w)
  <2>1. Performs(w) /\ lock' = lock /\ writer[w].step \in {"checked", "writing", "renaming"}
    BY <1>8 DEF Present, InstallEnd, RenameActivation, Checked, storeVars
  <2>2. lock = w /\ writer[w].cmd \in PackageCommand
    BY <1>5, <2>1 DEF Acquire
  <2>3. writer'[w].step = "after" /\ writer'[w].cmd \in PackageCommand
        /\ \A v \in Writers \ {w} : writer'[v] = writer[v]
    BY <1>3, <2>1, <2>2
  <2>4. DraftedBy(w)'
    BY <2>3 DEF DraftedBy
  <2>5. ActiveIsWhole'
    <3>1. CASE Present(w)
      BY <1>0, <3>1 DEF Present, storeVars, ActiveIsWhole
    <3>2. CASE InstallEnd(w)
      <4>1. active' = active /\ stored' = [stored EXCEPT ![Wanted(w).id][Wanted(w).build] = "whole"]
        BY <3>2 DEF InstallEnd
      <4>2. WholeStays
        BY <1>0, <4>1 DEF WholeStays, Files
      <4> QED
        BY <1>0, <4>1, <4>2, ActiveStaysWhole
    <3>3. CASE RenameActivation(w)
      <4>1. writer[w].step = "renaming" /\ active' = writer[w].draft /\ stored' = stored
        BY <3>3 DEF RenameActivation
      <4> QED
        BY <1>0, <4>1 DEF DraftedBy, ActiveIsWhole
    <3> QED
      BY <1>8, <3>1, <3>2, <3>3
  <2> QED
    BY <2>1, <2>2, <2>3, <2>4, <2>5, HolderKeeps
<1>9. CASE InstallBegin(w)
  <2>1. /\ writer[w].step = "checked" /\ Wanted(w).kind = "install" /\ FileOf(w) = "absent"
        /\ Step(w, "writing") /\ UNCHANGED <<driver, active, lock>>
        /\ stored' = IF driver = "pack" THEN [stored EXCEPT ![Wanted(w).id][Wanted(w).build] = "torn"]
                     ELSE stored
    BY <1>9 DEF InstallBegin, Checked
  <2>2. lock = w /\ writer[w].cmd \in PackageCommand
    BY <1>5, <2>1 DEF Acquire
  <2>3. writer'[w].step = "writing" /\ writer'[w].cmd = writer[w].cmd
        /\ \A v \in Writers \ {w} : writer'[v] = writer[v]
    BY <1>2, <2>1 DEF Running, WriterSteps
  <2>4. Wanted(w).id \in Ids /\ Wanted(w).build \in Builds
    BY <2>1, WantedTyped DEF Running
  <2>5. Wanted(w)' = Wanted(w)
    BY <2>3 DEF Wanted
  <2>6. driver = "pack" => stored'[Wanted(w).id][Wanted(w).build] = "torn"
    BY <1>0, <2>1, <2>4 DEF Files
  <2>7. DraftedBy(w)'
    BY <2>1, <2>2, <2>3, <2>5, <2>6 DEF DraftedBy, FileOf
  <2>8. WholeStays
    BY <1>0, <2>1 DEF WholeStays, FileOf, Files
  <2>9. ActiveIsWhole'
    BY <1>0, <2>1, <2>8, ActiveStaysWhole
  <2> QED
    BY <2>1, <2>2, <2>3, <2>7, <2>9, HolderKeeps
<1>10. CASE Draft(w)
  <2>1. Activatable(w) /\ writer[w].step = "checked" /\ UNCHANGED <<driver, stored, active, lock>>
    BY <1>10 DEF Draft, Activatable, Checked
  <2>2. lock = w /\ writer[w].cmd \in PackageCommand
    BY <1>5, <2>1 DEF Acquire
  <2>3. PICK d \in Activation :
            /\ writer' = [writer EXCEPT ![w] = [writer[w] EXCEPT !.step = "renaming", !.draft = d]]
            /\ d.generation = active.generation + 1
            /\ d.packs = [active.packs EXCEPT ![Wanted(w).id] = Wanted(w).build]
    BY <1>10, DraftChanges
  <2>4. [writer[w] EXCEPT !.step = "renaming", !.draft = d] \in Writer
    BY <1>0, WriterTyped DEF WriterSteps, Running
  <2>5. /\ writer'[w] = [writer[w] EXCEPT !.step = "renaming", !.draft = d]
        /\ \A v \in Writers \ {w} : writer'[v] = writer[v]
    BY <1>1, <2>3, <2>4
  <2>6. /\ writer'[w].step = "renaming" /\ writer'[w].draft = d /\ writer'[w].cmd = writer[w].cmd
        /\ writer'[w].expected = writer[w].expected
    BY <1>0, <2>5 DEF Writer
  <2>7. /\ Wanted(w).id \in Ids
        /\ Wanted(w).build # None => stored[Wanted(w).id][Wanted(w).build] = "whole"
    <3>1. Wanted(w) \in PackageCommand /\ Wanted(w).id \in Ids
      BY <2>1, WantedTyped DEF Running
    <3>2. Wanted(w).kind = "disable" => Wanted(w).build = None
      BY <3>1 DEF PackageCommand
    <3>3. Wanted(w).kind # "disable" => Loads(w)
      BY <2>1 DEF Activatable, Checked
    <3> QED
      BY <3>1, <3>2, <3>3 DEF Loads, FileOf
  <2>8. \A i \in Ids : d.packs[i] # None => stored[i][d.packs[i]] = "whole"
    BY <1>0, <2>3, <2>7 DEF ActiveIsWhole
  <2>9. writer[w].expected \in {None, Inventory} /\ Inventory' = Inventory
    BY <1>0, <2>1 DEF DraftedBy, Inventory
  <2>10. DraftedBy(w)'
    BY <2>1, <2>2, <2>3, <2>6, <2>8, <2>9 DEF DraftedBy
  <2>11. ActiveIsWhole'
    BY <1>0, <2>1 DEF ActiveIsWhole
  <2> QED
    BY <2>1, <2>2, <2>5, <2>10, <2>11, HolderKeeps
<1> QED
  BY <1>6, <1>7, <1>8, <1>9, <1>10

\* The lock, what was found under it and the activation, after every step.
LEMMA StoreStep ==
  ASSUME JournalInv, PackagesInv, PackageTurns, PackagesNext
  PROVE  Exclusive' /\ Drafted' /\ ActiveIsWhole'
<1>0. /\ PackagesTypeOK /\ Exclusive /\ Drafted /\ ActiveIsWhole /\ writer \in [Writers -> Writer]
      /\ Inventory \in [active : Activation, stored : Files] /\ stored \in Files
  BY StoreTyped DEF PackagesInv, PackagesTypeOK
<1>w. "manager" \in Writers /\ "orphan" \in Writers /\ "cli" \in Writers
  BY DEF Writers
<1>s. /\ {"none", "accepted", "receipt", "report", "locking"} \subseteq WriterSteps
      /\ {"none", "accepted", "receipt", "report", "locking"} \cap Inside = {}
  BY DEF WriterSteps, Running, Inside
<1>t. /\ NoWriter \in Writer /\ NoWriter.step = "none"
      /\ \A w \in Writers, step \in WriterSteps : [writer[w] EXCEPT !.step = step] \in Writer
  BY <1>0, <1>w, WriterTyped DEF NoWriter, Working
<1>1. CASE UNCHANGED packageVars
  <2>1. Inventory' = Inventory /\ UNCHANGED <<driver, stored, active, lock, writer>>
    BY <1>1 DEF packageVars, Inventory
  <2> QED
    BY <1>0, <2>1 DEF Exclusive, Drafted, DraftedBy, FileOf, Wanted, ActiveIsWhole
<1>2. ASSUME NEW o \in Operations, NEW s \in Subjects, NEW k \in Keys, NEW q \in PackageCommand,
             PAccept(o, s, k, q)
      PROVE  Exclusive' /\ Drafted' /\ ActiveIsWhole'
  <2> DEFINE r == Working("accepted", q, Inventory)
  <2>1. writer' = [writer EXCEPT !["manager"] = r] /\ UNCHANGED <<driver, stored, active, lock>>
    BY <1>2 DEF PAccept, storeVars
  <2>2. r \in Writer
    BY <1>0, <1>s, <1>w, WriterTyped
  <2>3. r.step = "accepted" /\ r.cmd = q
    BY DEF Working
  <2> HIDE DEF r
  <2> QED
    BY <1>s, <1>w, <2>1, <2>2, <2>3, StayingOutKeeps
<1>3. CASE PBegin \/ PFinish \/ POpen \/ \E o \in Operations : PReconcile(o) \/ PSettle(o)
  BY <1>1, <1>3 DEF PBegin, PFinish, POpen, PReconcile, PSettle
<1>4. ASSUME NEW step \in {"locking", "report"}, Step("manager", step),
             step = "locking" => writer["manager"].step = "accepted",
             UNCHANGED <<driver, stored, active, lock>>
      PROVE  Exclusive' /\ Drafted' /\ ActiveIsWhole'
  <2> DEFINE r == [writer["manager"] EXCEPT !.step = step]
  <2>0. step \in WriterSteps
    BY <1>4, <1>s
  <2>1. writer' = [writer EXCEPT !["manager"] = r] /\ r \in Writer
    <3>1. writer' = [writer EXCEPT !["manager"] = r]
      BY <1>0, <1>4, <1>w, <2>0, WriterChanges
    <3> QED
      BY <1>t, <1>w, <2>0, <3>1
  <2>2. r.step = step /\ r.cmd = writer["manager"].cmd
    BY <1>0, <1>w DEF Writer
  <2>3. step = "locking" => r.cmd \in PackageCommand
    BY <1>0, <1>4, <1>w, <2>2 DEF Drafted, DraftedBy
  <2> HIDE DEF r
  <2> QED
    BY <1>4, <1>s, <1>w, <2>1, <2>2, <2>3, StayingOutKeeps
<1>5. CASE PMutate
  BY <1>4, <1>5 DEF PMutate, storeVars
<1>6. CASE PReceipt
  BY <1>4, <1>6 DEF PReceipt, storeVars
<1>7. ASSUME writer' = [writer EXCEPT !["manager"] = NoWriter], UNCHANGED <<driver, storeVars>>
      PROVE  Exclusive' /\ Drafted' /\ ActiveIsWhole'
  BY <1>7, <1>s, <1>t, <1>w, StayingOutKeeps DEF storeVars
<1>8. CASE PNotApplied \/ PApplied \/ PAppendFails \/ \E left \in {None, "torn"} : PReceiptFails(left)
  BY <1>7, <1>8 DEF PNotApplied, PApplied, PAppendFails, PReceiptFails
<1>9. CASE PConflict \/ PFails
  BY <1>9, <1>w, LeavingKeeps DEF PConflict, PFails
<1>10. ASSUME NEW fate \in BOOLEAN, PTimesOut(fate) PROVE Exclusive' /\ Drafted' /\ ActiveIsWhole'
  BY <1>10, OrphanKeeps DEF PTimesOut
<1>11. CASE PCrash
  BY <1>11, <1>w, LeavingKeeps, OrphanKeeps DEF PCrash
<1>12. CASE HostCleans
  <2>1. /\ \A w \in Writers : writer[w].step \notin Running
        /\ UNCHANGED <<active, writer>>
    BY <1>12 DEF HostCleans
  <2>2. \A w \in Writers : writer[w].step \notin Inside
    BY <2>1 DEF Inside
  <2>3. Exclusive'
    BY <2>1, <2>2 DEF Exclusive
  <2>4. Drafted'
    <3>1. ASSUME NEW v \in Writers PROVE DraftedBy(v)'
      BY <1>0, <2>1, <2>2, OutsidersKeep
    <3> QED
      BY <3>1 DEF Drafted
  <2>5. WholeStays
    BY <1>0, <1>12 DEF HostCleans, WholeStays, Files
  <2> QED
    BY <1>0, <2>1, <2>3, <2>4, <2>5, ActiveStaysWhole
<1>13. ASSUME NEW q \in PackageCommand, CliStart(q) PROVE Exclusive' /\ Drafted' /\ ActiveIsWhole'
  <2> DEFINE r == Working("locking", q, None)
  <2>1. writer' = [writer EXCEPT !["cli"] = r] /\ UNCHANGED <<driver, stored, active, lock>>
    BY <1>13 DEF CliStart, storeVars
  <2>2. r \in Writer
    BY <1>0, <1>s, <1>w, WriterTyped
  <2>3. r.step = "locking" /\ r.cmd = q
    BY DEF Working
  <2> HIDE DEF r
  <2> QED
    BY <1>s, <1>w, <2>1, <2>2, <2>3, StayingOutKeeps
<1>14. ASSUME NEW w \in Writers, Return(w) PROVE Exclusive' /\ Drafted' /\ ActiveIsWhole'
  <2> DEFINE r == IF w = "manager" THEN [writer[w] EXCEPT !.step = "receipt"] ELSE NoWriter
  <2>1. writer' = [writer EXCEPT ![w] = r] /\ lock' = Freed(w) /\ UNCHANGED <<driver, stored, active>>
    BY <1>0, <1>14 DEF Return
  <2>2. r \in Writer
    BY <1>s, <1>t
  <2>3. r.step \in {"receipt", "none"}
    BY <1>0, <1>t DEF Writer
  <2> HIDE DEF r
  <2> QED
    BY <1>s, <2>1, <2>2, <2>3, StayingOutKeeps
<1>15. ASSUME NEW w \in Writers, OtherEnds(w) PROVE Exclusive' /\ Drafted' /\ ActiveIsWhole'
  BY <1>15, LeavingKeeps DEF OtherEnds
<1>16. CASE WriterNext
  BY <1>14, <1>15, <1>16, InsideKeeps DEF WriterNext
<1> QED
  BY <1>2, <1>3, <1>5, <1>6, <1>8, <1>9, <1>10, <1>11, <1>12, <1>13, <1>16 DEF PackagesNext

-----------------------------------------------------------------------------
(* The package adapter and the journal's executor stay in step.            *)

\* A writer at work stays in its procedure, and has performed exactly when it is
\* past the change; another process does not touch the adapter's record.
LEMMA WriterNextMoves ==
  ASSUME PackagesInv, PackageTurns, WriterNext
  PROVE  LET m == writer["manager"]  n == writer'["manager"] IN
         /\ UNCHANGED <<operation, events, mode, exec, done>> /\ proof' = proof
         /\ \/ n = m
            \/ /\ m.step \in Running /\ n.step \in Running \cup {"receipt"}
               /\ n.performed = TRUE <=> n.step \in {"after", "receipt"}
<1>0. PackagesTypeOK /\ writer \in [Writers -> Writer] /\ "manager" \in Writers
      /\ writer["manager"] \in Writer
  BY DEF PackagesInv, PackagesTypeOK, Writers
<1>1. UNCHANGED <<operation, events, mode, exec, done>> /\ proof' = proof
  BY DEF WriterNext, Acquire, CheckExpected, Present, InstallBegin, InstallEnd, Draft, RenameActivation,
         Return, OtherEnds, Unwritten, Abandoned, journalVars
<1>2. ASSUME NEW w \in Writers \ {"manager"}, NEW r, writer' = [writer EXCEPT ![w] = r]
      PROVE  writer'["manager"] = writer["manager"]
  BY <1>0, <1>2
<1>3. ASSUME NEW w \in Writers \ {"manager"},
             \/ Acquire(w) \/ CheckExpected(w) \/ Present(w) \/ InstallBegin(w) \/ InstallEnd(w)
             \/ Draft(w) \/ RenameActivation(w) \/ Return(w) \/ OtherEnds(w)
      PROVE  writer'["manager"] = writer["manager"]
  <2>1. CASE Acquire(w) \/ CheckExpected(w) \/ InstallBegin(w)
    BY <1>0, <1>3, <2>1 DEF Acquire, CheckExpected, InstallBegin, Step
  <2>2. CASE Present(w) \/ InstallEnd(w) \/ RenameActivation(w)
    BY <1>0, <1>3, <2>2 DEF Present, InstallEnd, RenameActivation, Performs
  <2>3. CASE Draft(w)
    BY <1>2, <2>3, DraftChanges
  <2>4. CASE Return(w) \/ OtherEnds(w)
    BY <1>0, <1>3, <2>4 DEF Return, OtherEnds, Unwritten, Abandoned
  <2> QED
    BY <1>3, <2>1, <2>2, <2>3, <2>4
<1> DEFINE m == writer["manager"]  n == writer'["manager"]
           Moved == /\ m.step \in Running /\ n.step \in Running \cup {"receipt"}
                    /\ n.performed = TRUE <=> n.step \in {"after", "receipt"}
<1>p. m.performed = TRUE <=> m.step \in {"after", "receipt", "report"}
  BY DEF PackageTurns
<1>4. ASSUME NEW step \in {"checking", "checked", "writing"}, m.step \in Running \ {"after"},
             Step("manager", step)
      PROVE  Moved
  <2>1. n = [m EXCEPT !.step = step]
    BY <1>0, <1>4 DEF Step
  <2>2. n.step = step /\ n.performed = m.performed
    BY <1>0, <2>1 DEF Writer
  <2> QED
    BY <1>4, <1>p, <2>2 DEF Running
<1>5. ASSUME m.step \in Running, Performs("manager") PROVE Moved
  <2>1. n = [m EXCEPT !.step = "after", !.performed = TRUE]
    BY <1>0, <1>5, WriterChanges
  <2>2. n.step = "after" /\ n.performed = TRUE
    BY <1>0, <2>1 DEF Writer
  <2> QED
    BY <1>5, <2>2 DEF Running
<1>6. CASE Acquire("manager") \/ CheckExpected("manager") \/ InstallBegin("manager")
  <2>1. PICK step \in {"checking", "checked", "writing"} : Step("manager", step)
    BY <1>6 DEF Acquire, CheckExpected, InstallBegin
  <2>2. m.step \in {"locking", "checking", "checked"}
    BY <1>6 DEF Acquire, CheckExpected, InstallBegin, Checked
  <2>3. m.step \in Running \ {"after"}
    BY <2>2 DEF Running
  <2>4. Moved
    BY <1>4, <2>1, <2>3
  <2> QED
    BY <1>1, <2>4
<1>7. CASE Present("manager") \/ InstallEnd("manager") \/ RenameActivation("manager")
  <2>1. Performs("manager") /\ m.step \in {"checked", "writing", "renaming"}
    BY <1>7 DEF Present, InstallEnd, RenameActivation, Checked
  <2>2. Moved
    BY <1>5, <2>1 DEF Running
  <2> QED
    BY <1>1, <2>2
<1>8. CASE Draft("manager")
  <2>1. m.step = "checked"
    BY <1>8 DEF Draft, Activatable, Checked
  <2>2. PICK d \in Activation :
           writer' = [writer EXCEPT !["manager"] = [m EXCEPT !.step = "renaming", !.draft = d]]
    BY <1>0, <1>8, DraftChanges
  <2>3. n.step = "renaming" /\ n.performed = m.performed
    BY <1>0, <2>2 DEF Writer
  <2>4. Moved
    BY <1>p, <2>1, <2>3 DEF Running
  <2> QED
    BY <1>1, <2>4
<1>9. CASE Return("manager")
  <2>1. m.step = "after" /\ writer' = [writer EXCEPT !["manager"] = [m EXCEPT !.step = "receipt"]]
    BY <1>0, <1>9 DEF Return
  <2>2. n.step = "receipt" /\ n.performed = m.performed
    BY <1>0, <2>1 DEF Writer
  <2>3. Moved
    BY <1>p, <2>1, <2>2 DEF Running
  <2> QED
    BY <1>1, <2>3
<1>10. ~OtherEnds("manager")
  BY DEF OtherEnds
<1>11. CASE writer'["manager"] = writer["manager"]
  BY <1>1, <1>11
<1> QED
  BY <1>3, <1>6, <1>7, <1>8, <1>9, <1>10, <1>11 DEF WriterNext

\* The adapter's place and its receipts agree with the executor after every step.
LEMMA PackageTurnsStep ==
  ASSUME JournalInv, PackagesInv, PackageTurns, PackagesNext
  PROVE  PackageTurns'
<1> DEFINE m == writer["manager"]  n == writer'["manager"]
<1>0. /\ PackagesTypeOK /\ writer \in [Writers -> Writer] /\ "manager" \in Writers
      /\ m \in Writer /\ m.performed \in BOOLEAN /\ proof \in [Operations -> {None, "torn", "whole"}]
  BY StoreTyped DEF PackagesInv, PackagesTypeOK, Writers
<1>e. /\ exec \in [pc : {"idle", "accepted", "started", "applied"},
                   op : Operations \cup {None}, effect : Effects \cup {None}]
      /\ exec.pc # "idle" => mode = "open" /\ exec.op \in Operations
  BY DEF JournalInv, JournalTypeOK, Whereabouts
<1>p. /\ m.step # "none" => exec.pc \in {"accepted", "started"}
      /\ m.step \notin {"none", "accepted"} => exec.pc = "started"
      /\ exec.pc = "accepted" => m.step = "accepted"
      /\ m.performed = TRUE => m.step \in {"after", "receipt", "report"}
      /\ m.step \in {"after", "receipt", "report"} => m.performed = TRUE
      /\ \A o \in Operations : proof[o] = "whole" =>
           \/ o \in done
           \/ exec.pc = "started" /\ exec.op = o /\ m.step = "report"
  BY DEF PackageTurns
<1>r. NoWriter.step = "none" /\ NoWriter.performed = FALSE
  BY DEF NoWriter, Working
<1>1. ASSUME n = m, UNCHANGED <<exec, done, proof>> PROVE PackageTurns'
  BY <1>p, <1>1 DEF PackageTurns
<1>2. ASSUME n = NoWriter, exec'.pc \in {"idle", "applied"},
             \A o \in Operations : proof'[o] = "whole" => o \in done'
      PROVE  PackageTurns'
  BY <1>2, <1>r DEF PackageTurns
<1>3. ASSUME NEW o \in Operations, NEW s \in Subjects, NEW k \in Keys, NEW q \in PackageCommand,
             PAccept(o, s, k, q)
      PROVE  PackageTurns'
  <2>1. /\ exec.pc = "idle" /\ done' = done /\ proof' = proof
        /\ exec' = [pc |-> "accepted", op |-> o, effect |-> None]
        /\ writer' = [writer EXCEPT !["manager"] = Working("accepted", q, Inventory)]
    BY <1>3 DEF PAccept, Accept
  <2>2. exec'.pc = "accepted"
    BY <2>1
  <2>3. n = Working("accepted", q, Inventory)
    BY <1>0, <2>1
  <2>4. n.step = "accepted" /\ n.performed = FALSE
    BY <2>3 DEF Working
  <2> QED
    BY <1>p, <2>1, <2>2, <2>4 DEF PackageTurns
<1>4. CASE PBegin
  <2>1. exec.pc = "accepted" /\ exec' = [exec EXCEPT !.pc = "started"] /\ UNCHANGED <<done, writer, proof>>
    BY <1>4 DEF PBegin, Begin, packageVars
  <2>2. exec'.pc = "started" /\ exec'.op = exec.op
    BY <1>e, <2>1
  <2> QED
    BY <1>p, <2>1, <2>2 DEF PackageTurns
<1>5. CASE PFinish
  <2>1. exec.pc = "applied" /\ exec' = IdleExec /\ UNCHANGED <<done, writer, proof>>
    BY <1>5 DEF PFinish, Finish, packageVars
  <2>2. exec'.pc = "idle"
    BY <2>1 DEF IdleExec
  <2> QED
    BY <1>p, <2>1, <2>2 DEF PackageTurns
<1>6. CASE PAppendFails
  <2>1. exec.pc \in {"accepted", "applied"} /\ exec' = IdleExec /\ UNCHANGED <<done, proof>>
        /\ writer' = [writer EXCEPT !["manager"] = NoWriter]
    BY <1>6 DEF PAppendFails, AppendFails
  <2>2. exec'.pc = "idle" /\ n = NoWriter
    BY <1>0, <2>1 DEF IdleExec
  <2> QED
    BY <1>2, <1>p, <2>1, <2>2
<1>7. CASE PMutate
  <2>1. exec.pc = "started" /\ m.step = "accepted" /\ Step("manager", "locking")
        /\ UNCHANGED <<exec, done, proof>>
    BY <1>7 DEF PMutate, journalVars
  <2>2. n = [m EXCEPT !.step = "locking"]
    BY <1>0, <2>1 DEF Step
  <2>3. n.step = "locking" /\ n.performed = m.performed
    BY <1>0, <2>2 DEF Writer
  <2> QED
    BY <1>p, <2>1, <2>3 DEF PackageTurns
<1>8. ASSUME NEW e \in Effects, NEW happened \in BOOLEAN, Returned(e, happened), n = NoWriter,
             m.step = "report" => happened = TRUE,
             \A o \in Operations : proof'[o] = "whole" => proof[o] = "whole"
      PROVE  PackageTurns'
  <2>1. exec.pc = "started" /\ exec' = [exec EXCEPT !.pc = "applied", !.effect = e]
        /\ done' = IF happened THEN done \cup {exec.op} ELSE done
    BY <1>8 DEF Returned
  <2>2. exec'.pc = "applied"
    BY <1>e, <2>1
  <2>3. \A o \in Operations : proof'[o] = "whole" => o \in done'
    BY <1>8, <1>p, <2>1
  <2> QED
    BY <1>2, <1>8, <2>2, <2>3
<1>9. CASE PNotApplied
  <2>1. Returned("not_applied", FALSE) /\ m.step = "accepted" /\ n = NoWriter /\ proof' = proof
    BY <1>0, <1>9 DEF PNotApplied
  <2> QED
    BY <1>8, <2>1 DEF Effects
<1>10. CASE PConflict
  <2>1. Returned("not_applied", FALSE) /\ m.step \in {"checking", "locking"} /\ n = NoWriter /\ proof' = proof
    BY <1>0, <1>10 DEF PConflict, Unwritten
  <2> QED
    BY <1>8, <2>1 DEF Effects
<1>11. CASE PFails
  <2>1. Returned("uncertain", m.performed) /\ m.step \in Running /\ n = NoWriter /\ proof' = proof
    BY <1>0, <1>11 DEF PFails, Unwritten
  <2>2. m.step # "report"
    BY <2>1 DEF Running
  <2> QED
    BY <1>0, <1>8, <2>1, <2>2 DEF Effects
<1>12. ASSUME NEW fate \in BOOLEAN, Orphaned(fate)
       PROVE  m.step \in Running /\ m.step # "report" /\ n = NoWriter /\ proof' = proof
  BY <1>0, <1>12 DEF Orphaned, Writers, Running
<1>13. ASSUME NEW fate \in BOOLEAN, PTimesOut(fate) PROVE PackageTurns'
  <2>1. Returned("uncertain", fate) /\ Orphaned(fate)
    BY <1>13 DEF PTimesOut
  <2> QED
    BY <1>8, <1>12, <2>1 DEF Effects
<1>14. CASE PReceipt
  <2>1. m.step = "receipt" /\ proof' = [proof EXCEPT ![exec.op] = "whole"] /\ Step("manager", "report")
        /\ UNCHANGED <<exec, done>>
    BY <1>14 DEF PReceipt, journalVars
  <2>2. n = [m EXCEPT !.step = "report"]
    BY <1>0, <2>1 DEF Step
  <2>3. n.step = "report" /\ n.performed = m.performed
    BY <1>0, <2>2 DEF Writer
  <2>4. exec.pc = "started"
    BY <1>p, <2>1
  <2> QED
    BY <1>0, <1>p, <2>1, <2>3, <2>4 DEF PackageTurns
<1>15. ASSUME NEW left \in {None, "torn"}, PReceiptFails(left) PROVE PackageTurns'
  <2>1. Returned("uncertain", TRUE) /\ n = NoWriter /\ proof' = [proof EXCEPT ![exec.op] = left]
    BY <1>0, <1>15 DEF PReceiptFails
  <2>2. \A o \in Operations : proof'[o] = "whole" => proof[o] = "whole"
    BY <1>0, <2>1, PackagesAssumption
  <2> QED
    BY <1>8, <2>1, <2>2 DEF Effects
<1>16. CASE PApplied
  <2>1. Returned("applied", TRUE) /\ n = NoWriter /\ proof' = proof
    BY <1>0, <1>16 DEF PApplied
  <2> QED
    BY <1>8, <2>1 DEF Effects
<1>17. CASE POpen \/ \E o \in Operations : PReconcile(o) \/ PSettle(o)
  BY <1>1, <1>17 DEF POpen, PReconcile, PSettle, Open, Opened, Settle, Recover, Reconciled, packageVars
<1>18. CASE PCrash
  <2>1. exec' = IdleExec /\ exec'.pc = "idle"
    BY <1>18 DEF PCrash, IdleExec
  <2>2. CASE /\ Abandoned("manager")
             /\ done' = IF m.performed THEN done \cup {exec.op} ELSE done
    <3>1. n = NoWriter /\ proof' = proof
      BY <1>0, <2>2 DEF Abandoned
    <3>2. \A o \in Operations : proof'[o] = "whole" => o \in done'
      BY <1>p, <2>2, <3>1
    <3> QED
      BY <1>2, <2>1, <3>1, <3>2
  <2>3. ASSUME NEW fate \in BOOLEAN, Orphaned(fate), done' = IF fate THEN done \cup {exec.op} ELSE done
        PROVE  PackageTurns'
    <3>1. m.step # "report" /\ n = NoWriter /\ proof' = proof
      BY <1>12, <2>3
    <3>2. \A o \in Operations : proof'[o] = "whole" => o \in done'
      BY <1>p, <2>3, <3>1
    <3> QED
      BY <1>2, <2>1, <3>1, <3>2
  <2> QED
    BY <1>18, <2>2, <2>3 DEF PCrash
<1>19. CASE HostCleans \/ \E q \in PackageCommand : CliStart(q)
  <2>1. UNCHANGED <<exec, done, proof>>
    BY <1>19 DEF HostCleans, CliStart, journalVars
  <2>2. n = m
    BY <1>0, <1>19 DEF HostCleans, CliStart
  <2> QED
    BY <1>1, <2>1, <2>2
<1>20. CASE WriterNext
  <2>1. UNCHANGED <<exec, done, proof>>
    BY <1>20, WriterNextMoves
  <2>2. CASE n = m
    BY <1>1, <2>1, <2>2
  <2>3. CASE /\ m.step \in Running /\ n.step \in Running \cup {"receipt"}
             /\ n.performed = TRUE <=> n.step \in {"after", "receipt"}
    <3>1. exec.pc = "started" /\ m.step # "report" /\ n.step \notin {"none", "accepted", "report"}
      BY <1>p, <2>3 DEF Running
    <3> QED
      BY <1>p, <2>1, <2>3, <3>1 DEF PackageTurns
  <2> QED
    BY <1>20, <2>2, <2>3, WriterNextMoves
<1> QED
  BY <1>3, <1>4, <1>5, <1>6, <1>7, <1>9, <1>10, <1>11, <1>13, <1>14, <1>15, <1>16, <1>17, <1>18, <1>19, <1>20
  DEF PackagesNext

\* The package adapter keeps its invariant.
LEMMA PackagesInvStep ==
  ASSUME JournalInv, PackagesInv, PackageTurns, PackagesNext
  PROVE  PackagesInv' /\ PackageTurns'
  BY PackagesTypeStep, StoreStep, PackageTurnsStep DEF PackagesInv

-----------------------------------------------------------------------------
(* The invariant of the dispatcher.                                        *)

\* A new manager satisfies the invariant.
LEMMA DispatchInvInit == DispatchInit => DispatchInv
<1> SUFFICES ASSUME DispatchInit PROVE DispatchInv
  OBVIOUS
<1>0. JournalInit /\ RuntimeInit /\ PackagesInit /\ target \in {"runtime", "packages"}
  BY DEF DispatchInit, RuntimeInit
<1>1. JournalInv
  BY <1>0, JournalInvInit
<1>2. exec.pc = "idle"
  BY <1>0 DEF JournalInit, IdleExec
<1>3. Empty \in StateFile /\ Empty.cands \in [Candidates -> Contents \cup {None}]
  BY DEF Empty, StateFile
<1>4. disk \in StateFile
  <2>1. CASE disk = Empty
    BY <1>3, <2>1
  <2>2. ASSUME NEW c \in Candidates, NEW v \in Valid,
               disk = [revision |-> 2, selected |-> c, cands |-> [Empty.cands EXCEPT ![c] = v]]
        PROVE  disk \in StateFile
    <3>1. v \in Contents
      BY RuntimeAssumption
    <3>2. [Empty.cands EXCEPT ![c] = v] \in [Candidates -> Contents \cup {None}]
      BY <1>3, <3>1
    <3> QED
      BY <2>2, <3>2 DEF StateFile
  <2> QED
    BY <1>0, <2>1, <2>2 DEF RuntimeInit, Initial
<1>5. NoChild \in ChildProcess /\ NoChild.pc = "none"
  BY DEF NoChild, ChildProcess
<1>6. child \in [Children -> ChildProcess] /\ \A p \in Children : child[p].pc = "none"
  BY <1>0, <1>5 DEF RuntimeInit
<1>7. disk.cands \in [Candidates -> Contents \cup {None}]
  BY <1>4 DEF StateFile
<1>8. RuntimeTypeOK
  <2>1. /\ mem = disk /\ cfile = disk.cands /\ source \in Contents
        /\ receipt = [o \in Operations |-> None] /\ lease = None /\ owned = None /\ ready = FALSE
        /\ epoch = None
    BY <1>0 DEF RuntimeInit
  <2>2. cfile \in [Candidates -> Contents \cup {None, Torn}]
    BY <1>7, <2>1
  <2>3. ready \in BOOLEAN
    BY <2>1
  <2>4. receipt \in [Operations -> {None, "torn", "whole"}]
    BY <2>1
  <2> QED
    BY <1>1, <1>4, <1>6, <2>1, <2>2, <2>3, <2>4 DEF RuntimeTypeOK, JournalInv, ChildProcess
<1>9. work = Resting /\ owned = None /\ work.step = "rest" /\ work.performed = FALSE
  BY <1>0 DEF RuntimeInit, Resting
<1>10. WorkTypeOK
  BY <1>9 DEF WorkTypeOK, WorkSteps, Resting
<1>11. OneServing
  BY <1>6 DEF OneServing
<1>12. Registered
  BY <1>9 DEF Registered, Waiting
<1>13. RuntimeTurns
  <2>1. \A o \in Operations : receipt[o] # "whole"
    BY <1>0, RuntimeAssumption DEF RuntimeInit
  <2> QED
    BY <1>2, <1>9, <2>1 DEF RuntimeTurns, RuntimePlace, CommandAtHand, ReceiptsAreTrue
<1>14. NoWriter \in Writer /\ NoWriter.step = "none" /\ NoWriter.performed = FALSE
  BY DEF NoWriter, Working, Writer, WriterSteps
<1>15. writer \in [Writers -> Writer]
       /\ \A w \in Writers : writer[w].step = "none" /\ writer[w].performed = FALSE
  BY <1>0, <1>14 DEF PackagesInit
<1>16. PackagesTypeOK
  <2>1. /\ driver \in {"pack", "native"} /\ litter = {} /\ lock = None
        /\ proof = [o \in Operations |-> None]
    BY <1>0 DEF PackagesInit
  <2>2. stored \in Files
    BY <1>0 DEF PackagesInit, Files
  <2>3. active \in Activation
    BY <1>0 DEF PackagesInit, Activation
  <2>4. proof \in [Operations -> {None, "torn", "whole"}]
    BY <2>1
  <2> QED
    BY <1>15, <2>1, <2>2, <2>3, <2>4 DEF PackagesTypeOK
<1>17. Exclusive /\ Drafted
  BY <1>15 DEF Exclusive, Drafted, DraftedBy, Inside, Running
<1>18. ActiveIsWhole
  BY <1>0 DEF PackagesInit, ActiveIsWhole
<1>19. PackageTurns
  <2>1. \A o \in Operations : proof[o] # "whole"
    BY <1>0, PackagesAssumption DEF PackagesInit
  <2>2. writer["manager"].step = "none" /\ writer["manager"].performed = FALSE
    BY <1>15 DEF Writers
  <2> QED
    BY <1>2, <2>1, <2>2 DEF PackageTurns
<1> QED
  BY <1>0, <1>1, <1>8, <1>10, <1>11, <1>12, <1>13, <1>16, <1>17, <1>18, <1>19
  DEF DispatchInv, RuntimeInv, PackagesInv

\* Commands of the other adapter leave the runtime's files and processes alone.
LEMMA RuntimeUntouched ==
  ASSUME RuntimeInv, JournalInv', UNCHANGED runtimeVars
  PROVE  RuntimeInv'
<1>0. UNCHANGED <<disk, mem, cfile, source, receipt, child>> /\ UNCHANGED <<lease, owned, ready, epoch, work>>
  BY DEF runtimeVars
<1>1. RuntimeTypeOK'
  BY <1>0 DEF RuntimeInv, RuntimeTypeOK, JournalInv
<1>2. WorkTypeOK' /\ OneServing' /\ Registered'
  BY <1>0 DEF RuntimeInv, WorkTypeOK, OneServing, Registered, Launched, Waiting
<1> QED
  BY <1>1, <1>2 DEF RuntimeInv

\* Commands of the other adapter leave the package store alone.
LEMMA PackagesUntouched ==
  ASSUME PackagesInv, UNCHANGED packageVars
  PROVE  PackagesInv'
<1>0. UNCHANGED <<driver, stored, litter, active, lock, writer, proof>> /\ Inventory' = Inventory
  BY DEF packageVars, Inventory
<1>1. PackagesTypeOK'
  BY <1>0 DEF PackagesInv, PackagesTypeOK
<1>2. Exclusive' /\ Drafted' /\ ActiveIsWhole'
  BY <1>0 DEF PackagesInv, Exclusive, Drafted, DraftedBy, FileOf, Wanted, ActiveIsWhole
<1> QED
  BY <1>1, <1>2 DEF PackagesInv

\* The invariant is inductive.
LEMMA DispatchInvStep == DispatchInv /\ [DispatchNext]_dispatchVars => DispatchInv'
<1> SUFFICES ASSUME DispatchInv, [DispatchNext]_dispatchVars PROVE DispatchInv'
  OBVIOUS
<1>0. JournalInv /\ RuntimeInv /\ PackagesInv /\ target \in {"runtime", "packages"}
  BY DEF DispatchInv
<1>1. JournalInv'
  BY <1>0, DispatchStepIsJournalStep, JournalInvStep
<1>2. CASE target = "runtime" /\ RuntimeNext /\ UNCHANGED <<packageVars, target>>
  <2>1. RuntimeInv' /\ RuntimeTurns'
    BY <1>0, <1>1, <1>2, RuntimeInvStep DEF DispatchInv
  <2>2. PackagesInv'
    BY <1>0, <1>2, PackagesUntouched
  <2> QED
    BY <1>1, <1>2, <2>1, <2>2 DEF DispatchInv
<1>3. CASE target = "packages" /\ PackagesNext /\ UNCHANGED <<runtimeVars, target>>
  <2>1. PackagesInv' /\ PackageTurns'
    BY <1>0, <1>3, PackagesInvStep DEF DispatchInv
  <2>2. RuntimeInv'
    BY <1>0, <1>1, <1>3, RuntimeUntouched
  <2> QED
    BY <1>1, <1>3, <2>1, <2>2 DEF DispatchInv
<1>4. CASE UNCHANGED dispatchVars
  <2>1. UNCHANGED <<journalVars, runtimeVars, packageVars, target>>
    BY <1>4 DEF dispatchVars, vars
  <2>2. RuntimeInv' /\ PackagesInv'
    BY <1>0, <1>1, <2>1, RuntimeUntouched, PackagesUntouched
  <2>3. target = "runtime" => RuntimeTurns'
    BY <2>1 DEF DispatchInv, RuntimeTurns, RuntimePlace, CommandAtHand, ReceiptsAreTrue, Cmd,
                journalVars, runtimeVars
  <2>4. target = "packages" => PackageTurns'
    BY <2>1 DEF DispatchInv, PackageTurns, journalVars, packageVars
  <2> QED
    BY <1>0, <1>1, <2>1, <2>2, <2>3, <2>4 DEF DispatchInv
<1> QED
  BY <1>2, <1>3, <1>4 DEF DispatchNext

\* The invariant holds of every behaviour of the dispatcher.
LEMMA DispatchInvariant == DispatchSpec => []DispatchInv
<1>1. DispatchInit => DispatchInv
  BY DispatchInvInit
<1>2. DispatchInv /\ [DispatchNext]_dispatchVars => DispatchInv'
  BY DispatchInvStep
<1> QED
  BY <1>1, <1>2, PTL DEF DispatchSpec

-----------------------------------------------------------------------------
(* What the two adapters promise.                                          *)

\* What serves is what was selected (lib.rs, start and prepare_launch): the
\* configuration of a ready child is the one recorded for its candidate when it was
\* staged, whatever was edited, tampered with or restarted in between.
THEOREM ServesOnlyRegistered == DispatchSpec => []ServesRegistered
<1>1. DispatchInv => ServesRegistered
  BY DEF DispatchInv, RuntimeInv, Registered, Launched, ServesRegistered
<1> QED
  BY <1>1, DispatchInvariant, PTL

\* At most one process serves the directory, the holder of runtime.lease, and the only
\* one a manager can talk to is its own child, over crashes of managers and children.
THEOREM OneChildServes == DispatchSpec => []OneServing
<1>1. DispatchInv => OneServing
  BY DEF DispatchInv, RuntimeInv
<1> QED
  BY <1>1, DispatchInvariant, PTL

\* active.json names complete packages only, at every moment, whoever of the adapter,
\* its helper and the command line died where (manager.rs, extension_manager.py).
THEOREM ActivationIsAlwaysWhole == DispatchSpec => []ActiveIsWhole
<1>1. DispatchInv => ActiveIsWhole
  BY DEF DispatchInv, PackagesInv
<1> QED
  BY <1>1, DispatchInvariant, PTL

\* Every step of a dispatcher is a step of the journal: the adapters' reports and their
\* receipts are true, so what apply and reconcile assume of an adapter holds of both.
THEOREM DispatchImplementsJournal == DispatchSpec => JournalSpec
<1>1. DispatchInit => JournalInit
  BY DEF DispatchInit, RuntimeInit
<1>2. DispatchInv /\ [DispatchNext]_dispatchVars => [JournalNext]_journalVars
  BY DispatchStepIsJournalStep
<1> QED
  BY <1>1, <1>2, DispatchInvariant, PTL DEF DispatchSpec, JournalSpec

\* An operation of either adapter is recorded as succeeded only when its effect has
\* happened, and as failed only when it has not (journal.rs over both adapters).
THEOREM DispatchTellsTheTruth == DispatchSpec => []OutcomeIsTrue
  BY DispatchImplementsJournal, JournalTellsTheTruth

\* Only the rename of a drafted activation changes active.json.
LEMMA OnlyRenameActivates ==
  ASSUME PackagesNext, active' # active
  PROVE  \E w \in Writers : RenameActivation(w)
<1>1. ASSUME NEW o \in Operations, NEW s \in Subjects, NEW k \in Keys, NEW q \in PackageCommand,
             PAccept(o, s, k, q)
      PROVE  FALSE
  BY <1>1 DEF PAccept, storeVars
<1>2. ~(PBegin \/ PMutate \/ PNotApplied \/ PReceipt \/ PApplied \/ PFinish \/ PAppendFails \/ POpen)
  BY DEF PBegin, PMutate, PNotApplied, PReceipt, PApplied, PFinish, PAppendFails, POpen,
         packageVars, storeVars
<1>3. ~(PConflict \/ PFails \/ PCrash \/ HostCleans \/ \E fate \in BOOLEAN : PTimesOut(fate))
  BY DEF PConflict, PFails, PCrash, HostCleans, PTimesOut, Unwritten, Abandoned, Orphaned
<1>4. ~(\E left \in {None, "torn"} : PReceiptFails(left)) /\ ~(\E q \in PackageCommand : CliStart(q))
  BY DEF PReceiptFails, CliStart, storeVars
<1>5. ~(\E o \in Operations : PReconcile(o) \/ PSettle(o))
  BY DEF PReconcile, PSettle, packageVars
<1>6. WriterNext
  BY <1>1, <1>2, <1>3, <1>4, <1>5 DEF PackagesNext
<1> QED
  BY <1>6 DEF WriterNext, Acquire, CheckExpected, Present, InstallBegin, InstallEnd, Draft, Return,
              OtherEnds, Unwritten, Abandoned, storeVars

\* A rename activates what was drafted from the activation it replaces.
LEMMA RenameReplacesWhatItRead ==
  ASSUME DispatchInv, [DispatchNext]_dispatchVars, active' # active
  PROVE  /\ active'.generation = active.generation + 1
         /\ \A w \in Writers : writer[w].step = "renaming" /\ writer'[w].step # "renaming" =>
               writer[w].expected \in {None, Inventory}
<1>1. PackagesNext /\ PackagesInv
  BY DEF DispatchNext, dispatchVars, packageVars, DispatchInv
<1>2. PICK w \in Writers : RenameActivation(w)
  BY <1>1, OnlyRenameActivates
<1>3. active' = writer[w].draft /\ writer[w].step = "renaming"
  BY <1>2 DEF RenameActivation
<1>4. active'.generation = active.generation + 1
  BY <1>1, <1>3 DEF PackagesInv, Drafted, DraftedBy
<1>5. \A v \in Writers : writer[v].step = "renaming" => writer[v].expected \in {None, Inventory}
  BY <1>1 DEF PackagesInv, Drafted, DraftedBy
<1> QED
  BY <1>4, <1>5

\* No change of the activation is lost: each one replaces the one it was made from, and
\* the adapter's changes exactly the inventory its caller saw, although the command line
\* and a helper left alone work on the same store.
THEOREM NoActivationIsLost == DispatchSpec => NoLostUpdate
<1>1. DispatchInv /\ [DispatchNext]_dispatchVars =>
        [active' # active =>
           /\ active'.generation = active.generation + 1
           /\ \A w \in Writers : writer[w].step = "renaming" /\ writer'[w].step # "renaming" =>
                 writer[w].expected \in {None, Inventory}]_packageVars
  BY RenameReplacesWhatItRead
<1> QED
  BY <1>1, DispatchInvariant, PTL DEF DispatchSpec, NoLostUpdate

=============================================================================
