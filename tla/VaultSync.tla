----------------------------- MODULE VaultSync ------------------------------
(***************************************************************************)
(* How a change reaches the routes a running proxy serves:                 *)
(*   - the vault on disk, whose change_seq moves with every edit, and the  *)
(*     loaded mark the proxy writes back (syncManagedKeys, every 5 s);     *)
(*   - the control plane's revocation list, behind a version counter       *)
(*     (syncKeyRevocation, every 60 s);                                    *)
(*   - Reload, which builds a generation from both and activates it.       *)
(* The three run in goroutines of their own; only reloads are serialized   *)
(* among themselves.  The vault's contents are its change_seq, a           *)
(* revocation list is the version at which the control plane had it.       *)
(***************************************************************************)
EXTENDS Integers

CONSTANTS MaxEdits,      \* bound: edits of the vault
          MaxRevs,       \* bound: changes of the revocation list
          MaxGens,       \* bound: generations built
          ReadsFail      \* whether a rebuild may fail to read a source

ASSUME VaultSyncBounds ==
  MaxEdits \in Nat /\ MaxRevs \in Nat /\ MaxGens \in Nat \ {0} /\ ReadsFail \in BOOLEAN

Gens == 1 .. MaxGens
Unset == -1                 \* revokedVKIDs == nil

VARIABLES
  vault,       \* runtime.vault.change_seq, and with it the contents
  loaded,      \* loaded_vault_change_seq
  control,     \* the control plane's sync_version, and with it the list
  revoked,     \* Supervisor.revokedVKIDs: [list, version]
  active,      \* the active generation
  routes,      \* routes[g]: [vault, list] the registry was built from, and
               \* whether it is whole: every route source could be read
  filter,      \* filter[g]: the list set on the vault reader
  reload,      \* a reload: [pc, by, seq]; it builds generation active + 1
  sync,        \* syncManagedKeys: [pc, gen, seq]
  rail,        \* syncKeyRevocation: [pc, gen, version, changed]
  overlap      \* history: a reload overlapped an edit, a sync or a rail cycle

vars == <<vault, loaded, control, revoked, active, routes, filter, reload, sync, rail, overlap>>

NoReload == [pc |-> "idle", by |-> "other", seq |-> 0]
NoSync == [pc |-> "idle", gen |-> 1, seq |-> 0]
NoRail == [pc |-> "idle", gen |-> 1, version |-> 0, changed |-> FALSE]

Empty == [vault |-> 0, list |-> Unset, whole |-> TRUE]

\* The proxy is up: generation 1 was built from the vault as it is, and no
\* revocation list was fetched yet.
Init ==
  /\ vault = 0 /\ loaded = 0 /\ control = 0
  /\ revoked = [list |-> Unset, version |-> 0]
  /\ active = 1
  /\ routes = [g \in Gens |-> Empty]
  /\ filter = [g \in Gens |-> Unset]
  /\ reload = NoReload /\ sync = NoSync /\ rail = NoRail
  /\ overlap = FALSE

Edit ==
  /\ vault < MaxEdits
  /\ vault' = vault + 1
  /\ UNCHANGED <<loaded, control, revoked, active, routes, filter, reload, sync, rail>>

Suspend ==
  /\ control < MaxRevs
  /\ control' = control + 1
  /\ UNCHANGED <<vault, loaded, revoked, active, routes, filter, reload, sync, rail>>

\* rebuildRouteRegistry(gen): the routes of every token source of the vault,
\* minus the revoked keys, replace the registry.  A source whose read fails is
\* logged and left out.
Rebuild(g) ==
  \E whole \in BOOLEAN :
    /\ whole \/ ReadsFail
    /\ routes' = [routes EXCEPT ![g] =
                   [vault |-> vault, list |-> revoked.list, whole |-> whole]]

-----------------------------------------------------------------------------
(* Reload *)

\* Who calls it: a sync cycle that found the filter set changed and waits for the
\* reload, or any other caller: the admin endpoint, a rail, and the healing of a
\* missing filter binary, after which a sync cycle compares on the generation it
\* loaded before.
MayReload(by) ==
  /\ reload.pc = "idle" /\ active < MaxGens
  /\ by = "sync" => sync.pc = "reload"

\* The sync cycle that waited is done, or, when the reload failed, rebuilds the
\* registry itself.
SyncAfter(built) ==
  sync' = IF reload.by # "sync" THEN sync
          ELSE IF built THEN NoSync ELSE [sync EXCEPT !.pc = "rebuild"]


\* buildGeneration opens the vault and arms the reader with the known list.
ReloadOpen(by) ==
  /\ MayReload(by)
  /\ filter' = [filter EXCEPT ![active + 1] = revoked.list]
  /\ reload' = [pc |-> "build", by |-> by, seq |-> 0]
  /\ UNCHANGED <<vault, loaded, control, revoked, active, routes, sync, rail>>

\* ... and reads every route source into a new registry.  The rest of the build
\* (the filter child, the WAL, the reporter) takes seconds.
ReloadRoutes ==
  /\ reload.pc = "build"
  /\ Rebuild(active + 1)
  /\ reload' = [reload EXCEPT !.pc = "activate"]
  /\ UNCHANGED <<vault, loaded, control, revoked, active, filter, sync, rail>>

\* The build fails: what it made is dropped and the old generation stays.
ReloadFails ==
  /\ reload.pc \in {"build", "activate"}
  /\ SyncAfter(FALSE)
  /\ reload' = NoReload
  /\ routes' = [routes EXCEPT ![active + 1] = Empty]
  /\ filter' = [filter EXCEPT ![active + 1] = Unset]
  /\ UNCHANGED <<vault, loaded, control, revoked, active, rail>>

ReloadActivate ==
  /\ reload.pc = "activate"
  /\ active' = active + 1
  /\ reload' = [reload EXCEPT !.pc = "read"]
  /\ UNCHANGED <<vault, loaded, control, revoked, routes, filter, sync, rail>>

\* "Record which vault snapshot the new generation loaded": change_seq is read
\* now, after the build, and written to the mark.
ReloadRead ==
  /\ reload.pc = "read"
  /\ reload' = [reload EXCEPT !.pc = "record", !.seq = vault]
  /\ UNCHANGED <<vault, loaded, control, revoked, active, routes, filter, sync, rail>>

\* The read of change_seq or the write of the mark may fail, which is logged.
ReloadRecord ==
  /\ reload.pc = "record"
  /\ loaded' \in {loaded, reload.seq}
  /\ SyncAfter(TRUE)
  /\ reload' = NoReload
  /\ UNCHANGED <<vault, control, revoked, active, routes, filter, rail>>

-----------------------------------------------------------------------------
(* syncManagedKeys *)

SyncStart ==
  /\ sync.pc = "idle"
  /\ sync' = [pc |-> "compare", gen |-> active, seq |-> 0]
  /\ UNCHANGED <<vault, loaded, control, revoked, active, routes, filter, reload, rail>>

\* What the mark reads as: an unreadable mark counts as 0.
MarkReads == {loaded, 0}

\* What a cycle that sees a change does next: a changed filter set asks for a
\* full reload (below the bound), anything else for a rebuild of the registry.
AfterChange == {"rebuild"} \cup {pc \in {"reload"} : active < MaxGens}


\* change_seq and the mark are read; equal means nothing to do.
SyncCompare ==
  /\ sync.pc = "compare"
  /\ \E mark \in MarkReads, pc \in AfterChange :
       sync' = IF vault = mark THEN NoSync ELSE [sync EXCEPT !.pc = pc, !.seq = vault]
  /\ UNCHANGED <<vault, loaded, control, revoked, active, routes, filter, reload, rail>>

\* change_seq cannot be read: the cycle ends.
SyncUnreadable ==
  /\ sync.pc = "compare"
  /\ sync' = NoSync
  /\ UNCHANGED <<vault, loaded, control, revoked, active, routes, filter, reload, rail>>

\* The reload the cycle asked for fails before it has built anything.
SyncReloadFails ==
  /\ sync.pc = "reload" /\ reload.pc = "idle"
  /\ sync' = [sync EXCEPT !.pc = "rebuild"]
  /\ UNCHANGED <<vault, loaded, control, revoked, active, routes, filter, reload, rail>>

SyncRebuild ==
  /\ sync.pc = "rebuild"
  /\ Rebuild(sync.gen)
  /\ sync' = [sync EXCEPT !.pc = "record"]
  /\ UNCHANGED <<vault, loaded, control, revoked, active, filter, reload, rail>>


\* The mark is the change_seq read before the rebuild, whatever the rebuild
\* could read; the write may fail.
SyncRecord ==
  /\ sync.pc = "record"
  /\ loaded' \in {loaded, sync.seq}
  /\ sync' = NoSync
  /\ UNCHANGED <<vault, control, revoked, active, routes, filter, reload, rail>>

-----------------------------------------------------------------------------
(* syncKeyRevocation *)

\* The version is probed; a failed probe ends the cycle.
RailProbe ==
  /\ rail.pc = "idle"
  /\ rail' = [pc |-> "fetch", gen |-> active, version |-> control, changed |-> FALSE]
  /\ UNCHANGED <<vault, loaded, control, revoked, active, routes, filter, reload, sync>>


\* The counter did not move since the last list that was fetched.
KnownVersion == revoked.list # Unset /\ revoked.version = rail.version

RailUnchanged ==
  /\ rail.pc = "fetch" /\ KnownVersion
  /\ rail' = NoRail
  /\ UNCHANGED <<vault, loaded, control, revoked, active, routes, filter, reload, sync>>

\* Mutant: the list is fetched first and the version read after it.
RailStoreListFirst ==
  /\ rail.pc = "fetch" /\ ~KnownVersion
  /\ revoked' = [list |-> rail.version, version |-> control]
  /\ rail' = [rail EXCEPT !.pc = "publish", !.changed = rail.version # revoked.list]
  /\ UNCHANGED <<vault, loaded, control, active, routes, filter, reload, sync>>

\* The list is fetched (it may be newer than the version probed) and stored,
\* then set on the reader of the generation this cycle started with.
RailStore ==
  /\ rail.pc = "fetch" /\ ~KnownVersion
  /\ revoked' = [list |-> control, version |-> rail.version]
  /\ rail' = [rail EXCEPT !.pc = "publish", !.version = 0, !.changed = control # revoked.list]
  /\ UNCHANGED <<vault, loaded, control, active, routes, filter, reload, sync>>

RailPublish ==
  /\ rail.pc = "publish"
  /\ filter' = [filter EXCEPT ![rail.gen] = revoked.list]
  /\ rail' = IF rail.changed THEN [rail EXCEPT !.pc = "rebuild"] ELSE NoRail
  /\ UNCHANGED <<vault, loaded, control, revoked, active, routes, reload, sync>>

RailRebuild ==
  /\ rail.pc = "rebuild"
  /\ Rebuild(rail.gen)
  /\ rail' = NoRail
  /\ UNCHANGED <<vault, loaded, control, revoked, active, filter, reload, sync>>

\* A request of the cycle fails, or the list comes back empty.
RailFails ==
  /\ rail.pc = "fetch"
  /\ rail' = NoRail
  /\ UNCHANGED <<vault, loaded, control, revoked, active, routes, filter, reload, sync>>

-----------------------------------------------------------------------------
Reloading == ReloadRoutes \/ ReloadFails \/ ReloadActivate \/ ReloadRead \/ ReloadRecord
SyncWork ==
  \/ SyncCompare \/ ReloadOpen("sync") \/ SyncReloadFails \/ SyncRebuild \/ SyncRecord
RailWork == RailUnchanged \/ RailStore \/ RailPublish \/ RailRebuild

\* A step with a reload under way beside an edit, a rail cycle or a sync cycle
\* (one that waits for its own filter reload is not beside it).
Overlapping ==
  /\ reload'.pc # "idle"
  /\ \/ sync'.pc # "idle" /\ ~(sync'.pc = "reload" /\ reload'.by = "sync")
     \/ rail'.pc # "idle" \/ vault' # vault

Next ==
  /\ \/ Edit \/ Suspend
     \/ ReloadOpen("other") \/ Reloading
     \/ SyncStart \/ SyncWork \/ SyncUnreadable
     \/ RailProbe \/ RailWork \/ RailFails
  /\ overlap' = (overlap \/ Overlapping)

Spec == Init /\ [][Next]_vars

Counted(A) == A /\ overlap' = (overlap \/ Overlapping)

\* The two tickers fire; a started reload ends; a cycle goes on, and a read of
\* change_seq, a fetch of the rail and the wait for reloadMu that are tried again
\* and again succeed in the end.
FairSpec ==
  /\ Spec
  /\ WF_vars(Counted(Reloading))
  /\ WF_vars(Counted(SyncStart)) /\ SF_vars(Counted(SyncWork))
  /\ WF_vars(Counted(RailProbe)) /\ SF_vars(Counted(RailWork))

-----------------------------------------------------------------------------
ServesVault == routes[active].vault = vault /\ routes[active].whole
ServesList == filter[active] = control /\ routes[active].list = control

\* The type invariant; what a registry was built from and the mark are never
\* ahead of the vault.
TypeOK ==
  /\ vault \in 0 .. MaxEdits /\ loaded \in 0 .. vault
  /\ control \in 0 .. MaxRevs
  /\ revoked \in [list : Unset .. control, version : 0 .. control]
  /\ revoked.version <= revoked.list \/ revoked.list = Unset
  /\ active \in Gens
  /\ routes \in [Gens -> [vault : 0 .. vault, list : Unset .. control, whole : BOOLEAN]]
  /\ filter \in [Gens -> Unset .. control]
  /\ reload \in [pc : {"idle", "build", "activate", "read", "record"},
                 by : {"other", "sync"}, seq : 0 .. vault]
  /\ sync \in [pc : {"idle", "compare", "reload", "rebuild", "record"},
               gen : 1 .. active, seq : 0 .. vault]
  /\ rail \in [pc : {"idle", "fetch", "publish", "rebuild"}, gen : 1 .. active,
               version : 0 .. control, changed : BOOLEAN]
  /\ overlap \in BOOLEAN





\* supervisor.go:935, "aikey key use takes effect within managedKeySyncInterval
\* without requiring aikey proxy restart or POST /admin/reload".
VaultAlwaysConverges == <>[]ServesVault
=============================================================================
