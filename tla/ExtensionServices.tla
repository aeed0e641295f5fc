-------------------------- MODULE ExtensionServices --------------------------
(***************************************************************************)
(* The services of an extension (tau_extensions/services.py), the          *)
(* directory of the web host that lists them (tau_web/extensions.py) and   *)
(* the built-in extension that starts and stops on them.  A bundle of      *)
(* services has background tasks, assets with a total size, and            *)
(* registrations under a name, of commands, tools or routes alike.  Its    *)
(* disposal waits for its tasks under a lock, and the extension goes on    *)
(* using its services meanwhile and afterwards.                            *)
(***************************************************************************)
EXTENDS Integers, FiniteSets, FiniteSetsExt

CONSTANTS None,
          Bundles, Owner(_), Ids,  \* bundles of services, the extension id each is of
          Tasks,                   \* bound: task names of a bundle
          Paths, Sizes, MaxTotal,  \* assets, MAX_EXTENSION_ASSET_BYTES
          MaxUses                  \* bound: registrations and tasks

ExtensionServicesAssumption == (\A b \in Bundles : Owner(b) \in Ids) /\ None \notin Bundles /\ MaxUses \in Nat

VARIABLES
    listed,     \* the directory: id |-> bundle, or None
    closed,     \* the directory is disposed
    closing,    \* bundles its disposal still has to dispose of
    pc,         \* of a bundle: "open", "cancelling", "swept" when the directory cancels its tasks, "disposed"
    tasks,      \* tasks that run: [of, name]
    pending,    \* the tasks a disposal waits for
    assets,     \* of a bundle: path |-> [size, n], or None
    total,      \* of a bundle: _total_bytes
    handles,    \* undisposed handles of assets: [of, path, n]
    uses,
    shut,       \* observed: the bundles that were listed when the directory was disposed of
    tardy,      \* observed: tasks that were started after a disposal had begun
    revived,    \* observed: bundles that registered an asset after their disposal
    broken      \* observed: bundles whose disposal was cancelled

vars == <<listed, closed, closing, pc, tasks, pending, assets, total, handles, uses, shut, tardy, revived, broken>>

Init ==
    /\ listed = [i \in Ids |-> None] /\ closed = FALSE /\ closing = {}
    /\ pc = [b \in Bundles |-> "open"] /\ tasks = {} /\ pending = {}
    /\ assets = [b \in Bundles |-> [p \in Paths |-> None]] /\ total = [b \in Bundles |-> 0]
    /\ handles = {} /\ uses = 0 /\ shut = {} /\ tardy = {} /\ revived = {} /\ broken = {}

Directory == <<listed, closed, closing, shut>>
Assets == <<assets, total, handles, revived>>
Background == <<tasks, pending, tardy, broken>>

-----------------------------------------------------------------------------
(* What an extension does with its services, disposed or not *)

Spawn(b) ==
    /\ uses < MaxUses /\ uses' = uses + 1
    /\ \E name \in Tasks :
        /\ [of |-> b, name |-> name] \notin tasks
        /\ tasks' = tasks \cup {[of |-> b, name |-> name]}
        /\ tardy' = IF pc[b] = "open" THEN tardy ELSE tardy \cup {[of |-> b, name |-> name]}
    /\ UNCHANGED <<pc, pending, broken>> /\ UNCHANGED Directory /\ UNCHANGED Assets

\* _on_task_done
Finish(t) ==
    /\ tasks' = tasks \ {t} /\ pending' = pending \ {t} /\ tardy' = tardy \ {t}
    /\ UNCHANGED <<pc, uses, broken>> /\ UNCHANGED Directory /\ UNCHANGED Assets

\* Mutant: the total counts what was registered, not what is still there.
SizeOfHandle(b, h) == IF assets[b][h.path] = None THEN 1 ELSE assets[b][h.path].size
\* _remove: whatever is under the path, and nothing if nothing is
Freed(b, h) == IF assets[b][h.path] = None THEN 0 ELSE assets[b][h.path].size

Register(b) ==
    /\ uses < MaxUses /\ uses' = uses + 1
    /\ \E p \in Paths, size \in Sizes :
        /\ assets[b][p] = None /\ total[b] + size <= MaxTotal
        /\ assets' = [assets EXCEPT ![b][p] = [size |-> size, n |-> uses]]
        /\ total' = [total EXCEPT ![b] = @ + size]
        /\ handles' = handles \cup {[of |-> b, path |-> p, n |-> uses]}
    /\ revived' = IF pc[b] = "disposed" THEN revived \cup {b} ELSE revived
    /\ UNCHANGED pc /\ UNCHANGED Background /\ UNCHANGED Directory

Unregister(h) ==
    /\ handles' = handles \ {h}
    /\ assets' = [assets EXCEPT ![h.of][h.path] = None]
    /\ total' = [total EXCEPT ![h.of] = @ - Freed(h.of, h)]
    /\ UNCHANGED <<pc, uses, revived>> /\ UNCHANGED Background /\ UNCHANGED Directory

-----------------------------------------------------------------------------
(* ExtensionServices.dispose *)

Of(b) == {t \in tasks : t.of = b}

\* The lock is free and the bundle is not disposed yet: the tasks are cancelled, and awaited.
Begins(b, as) == pc[b] = "open" /\ pc' = [pc EXCEPT ![b] = as] /\ pending' = pending \cup Of(b)
Disposing(b) == pc[b] \in {"cancelling", "swept"}

\* Mutant: the assets are forgotten without their sizes.
TotalLeft(b) == 0

\* All of them have ended: the registrations go, in one step.
EndDispose(b) ==
    /\ Disposing(b) /\ \A t \in pending : t.of # b
    /\ pc' = [pc EXCEPT ![b] = "disposed"]
    /\ assets' = [assets EXCEPT ![b] = [p \in Paths |-> None]]
    /\ total' = [total EXCEPT ![b] = TotalLeft(b)]
    /\ closing' = closing \ {b}
    /\ UNCHANGED <<listed, closed, shut, handles, uses, revived>> /\ UNCHANGED Background

\* The caller is cancelled while it waits; a directory goes on with its other bundles.
CancelDispose(b) ==
    /\ Disposing(b) /\ pc' = [pc EXCEPT ![b] = "open"]
    /\ pending' = {t \in pending : t.of # b} /\ broken' = broken \cup {b}
    /\ closing' = IF pc[b] = "swept" THEN closing \ {b} ELSE closing
    /\ UNCHANGED <<listed, closed, shut, tasks, uses, tardy>> /\ UNCHANGED Assets

-----------------------------------------------------------------------------
(* ExtensionDirectory *)

List(b) ==
    /\ ~closed /\ listed[Owner(b)] = None
    /\ listed' = [listed EXCEPT ![Owner(b)] = b]
    /\ UNCHANGED <<closed, closing, shut, pc, uses>> /\ UNCHANGED Background /\ UNCHANGED Assets

\* unregister: forgotten first, then disposed of
Unlist(i) ==
    /\ listed[i] # None /\ listed' = [listed EXCEPT ![i] = None]
    /\ IF pc[listed[i]] = "open" THEN Begins(listed[i], "cancelling") ELSE UNCHANGED <<pc, pending>>
    /\ UNCHANGED <<closed, closing, shut, tasks, uses, tardy, broken>> /\ UNCHANGED Assets

\* dispose: all are forgotten, and then disposed of one after the other
Close ==
    /\ ~closed /\ closed' = TRUE
    /\ shut' = {listed[i] : i \in Ids} \ {None} /\ closing' = {b \in shut' : pc[b] # "disposed"}
    /\ listed' = [i \in Ids |-> None]
    /\ UNCHANGED <<pc, uses>> /\ UNCHANGED Background /\ UNCHANGED Assets
CloseNext(b) ==
    /\ b \in closing /\ (\A c \in Bundles : pc[c] # "swept") /\ Begins(b, "swept")
    /\ UNCHANGED <<tasks, uses, tardy, broken>> /\ UNCHANGED Directory /\ UNCHANGED Assets

\* The extension itself disposes of its services (DiagnosticExtension.dispose).
Quit(b) ==
    /\ Begins(b, "cancelling")
    /\ UNCHANGED <<tasks, uses, tardy, broken>> /\ UNCHANGED Directory /\ UNCHANGED Assets

Next ==
    \/ Close
    \/ \E i \in Ids : Unlist(i)
    \/ \E t \in tasks : Finish(t)
    \/ \E h \in handles : Unregister(h)
    \/ \E b \in Bundles : Spawn(b) \/ Register(b) \/ EndDispose(b) \/ CancelDispose(b) \/ List(b) \/ CloseNext(b) \/ Quit(b)

Spec == Init /\ [][Next]_vars

-----------------------------------------------------------------------------
(* Properties *)

TypeOK ==
    /\ pc \in [Bundles -> {"open", "cancelling", "swept", "disposed"}] /\ pending \subseteq tasks
    /\ closing \subseteq Bundles /\ uses \in 0..MaxUses

\* The quota counts the assets that are there, whatever handles of earlier ones are disposed of later.
TotalIsSum ==
    \A b \in Bundles : total[b] = MapThenSumSet(LAMBDA p : IF assets[b][p] = None THEN 0 ELSE assets[b][p].size, Paths) /\ total[b] <= MaxTotal

\* A bundle that is disposed of has no task left but those started since its disposal began, and no asset but
\* those registered since it ended.
DisposedIsEmpty ==
    \A b \in Bundles : pc[b] = "disposed" =>
        /\ Of(b) \subseteq tardy
        /\ b \notin revived => \A p \in Paths : assets[b][p] = None

\* When the disposal of the directory has ended, it lists nothing, and all that it listed is disposed of, except
\* where a disposal was cancelled.
ClosedIsDisposed == closed => (\A i \in Ids : listed[i] = None) /\ (closing = {} => \A b \in shut : pc[b] = "disposed" \/ b \in broken)

-----------------------------------------------------------------------------
(* The inductive invariant behind the last two *)

Shapes ==
    /\ listed \in [Ids -> Bundles \cup {None}] /\ closed \in BOOLEAN /\ shut \subseteq Bundles
    /\ DOMAIN assets = Bundles /\ \A b \in Bundles : DOMAIN assets[b] = Paths
    /\ \A h \in handles : h.of \in Bundles /\ h.path \in Paths

\* A disposal waits for every task but those that are started meanwhile.
DisposalsWait == \A b \in Bundles : Disposing(b) => Of(b) \subseteq tardy \cup pending

\* The directory still has to dispose of what it listed, or has done so.
ClosingGoesOn ==
    closed => \A b \in shut : b \in closing \/ pc[b] = "disposed" \/ b \in broken

IInv == TypeOK /\ Shapes /\ DisposalsWait /\ ClosingGoesOn /\ DisposedIsEmpty /\ ClosedIsDisposed
=============================================================================
