-------------------------- MODULE ManagementDispatch --------------------------
(***************************************************************************)
(* The dispatcher of the management application                            *)
(* (src/crates/management-app/src/dispatch.rs): every command goes to the  *)
(* adapter of its action, whose prepared operation the one journal         *)
(* executes.  Adapters share nothing else, so commands are sent to one of  *)
(* them: the runtime or the packages.  The team authority is checked on    *)
(* its own, in TeamAccess.                                                 *)
(***************************************************************************)
EXTENDS ManagedRuntime, ManagedPackages

VARIABLE target   \* the adapter of the commands that are sent

dispatchVars == <<vars, packageVars, target>>

DispatchInit ==
    /\ target \in {"runtime", "packages"}
    /\ RuntimeInit /\ PackagesInit
    /\ target = "runtime" => driver = "pack" /\ \A i \in Ids, b \in Builds : stored[i][b] = "absent"
    /\ target = "packages" => disk = Empty

\* prepare and reconcile, by the action of the request.
DispatchNext ==
    \/ target = "runtime" /\ RuntimeNext /\ UNCHANGED <<packageVars, target>>
    \/ target = "packages" /\ PackagesNext /\ UNCHANGED <<runtimeVars, target>>

DispatchSpec == DispatchInit /\ [][DispatchNext]_dispatchVars

\* execute always comes back: wherever the runtime adapter is in apply, and whatever its child, its
\* files and the host do, one of the executor's own steps can be taken.
ExecutorNeverStuck == target = "runtime" /\ exec.pc # "idle" => ENABLED Executing
=============================================================================
