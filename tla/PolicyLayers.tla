---------------------------- MODULE PolicyLayers ----------------------------
(***************************************************************************)
(* The policy the edge runs (src/policy.rs): two layers, the config file   *)
(* and the policy pulled from the control plane, from which the runtime    *)
(* that requests load is rebuilt.  The file's watcher (src/reload.rs) and  *)
(* the policy poller (src/cp.rs) rebuild it concurrently; the pushed layer *)
(* is kept in a cache file for the next start (src/main.rs); requests read *)
(* the pending flag and the runtime in two steps (src/proxy.rs).  The      *)
(* process may die at any moment; the files and the control plane remain.  *)
(***************************************************************************)
CONSTANTS Locals,       \* contents of the config file
          Policies,     \* policy documents, each with its own ETag
          Buildable,    \* the pairs <<local, pushed>> that a runtime can be built from
          Tenant,       \* the control plane and tenant that a config file names
          Tenants,
          Owned,        \* the policies the control plane holds for each tenant
          Refuse,       \* boot_without_policy = "refuse"
          Caching,      \* a cache_path is configured
          Requests,
          NoPolicy,     \* nothing pushed
          NoCache       \* no cache file

Pushable == Policies \union {NoPolicy}

ASSUME PolicyAssumption ==
    /\ Buildable \subseteq Locals \X Pushable
    /\ Tenant \in [Locals -> Tenants]
    /\ Owned \in [Tenants -> SUBSET Policies]
    /\ Refuse \in BOOLEAN /\ Caching \in BOOLEAN
    /\ NoPolicy \notin Policies
    /\ NoCache \notin [tenant : Tenants, policy : Policies]

Builds(local, pushed) == <<local, pushed>> \in Buildable

VARIABLES
    disk,      \* the config file
    missed,    \* history: the file was edited when nothing watched it
    served,    \* per tenant, the policy the control plane serves
    cache,     \* the cache file
    up,        \* the process runs
    tenant,    \* the tenant it was started for
    layers,    \* `Layers`, behind its mutex
    mutex,     \* who holds it: "free", "watcher" or "poller"
    runtime,   \* the layers the live runtime was built from
    pending,   \* requests are refused for want of a policy
    watcher,   \* [pc, cfg]: the reload task and the file it read
    notified,  \* an event waits for the watcher
    poller,    \* [pc, doc]: the poll loop and the document it pulled
    etag,      \* its cursor: the policy it last applied
    reported,  \* the ETag that usage reports carry
    req        \* the requests: what each has read
vars == <<disk, missed, served, cache, up, tenant, layers, mutex, runtime, pending, watcher,
          notified, poller, etag, reported, req>>

world == <<disk, missed, served>>
policy == <<layers, mutex, runtime, pending>>
watching == <<watcher, notified>>
polling == <<poller, etag, reported>>

NotPolling == [pc |-> "idle", doc |-> NoPolicy]

Fresh == [pc |-> "idle", pending |-> FALSE, runtime |-> NoPolicy]

Init ==
    /\ disk \in Locals /\ missed = FALSE
    /\ served \in [Tenants -> Policies] /\ \A t \in Tenants : served[t] \in Owned[t]
    /\ cache = NoCache
    /\ up = FALSE /\ tenant = Tenant[disk]
    /\ layers = [local |-> disk, pushed |-> NoPolicy] /\ mutex = "free"
    /\ runtime = layers /\ pending = FALSE
    /\ watcher = [pc |-> "off", cfg |-> disk] /\ notified = FALSE
    /\ poller = NotPolling /\ etag = NoPolicy /\ reported = NoPolicy
    /\ req = [r \in Requests |-> Fresh]

----------------------------------------------------------------------------
(***************************************************************************)
(* The world outside: an operator edits the file, the control plane's      *)
(* policy changes, the process dies.                                       *)
(***************************************************************************)
EditFile(local) ==
    /\ local # disk
    /\ disk' = local
    /\ IF watcher.pc = "off" THEN missed' = up /\ UNCHANGED notified
                             ELSE notified' = TRUE /\ missed' = FALSE
    /\ UNCHANGED <<served, cache, up, tenant, policy, watcher, polling, req>>

PushPolicy(t, p) ==
    /\ p \in Owned[t] /\ p # served[t]
    /\ served' = [served EXCEPT ![t] = p]
    /\ UNCHANGED <<disk, missed, cache, up, tenant, policy, watching, polling, req>>

\* Memory is gone; what is left of it in the model is never read.
Crash ==
    /\ up
    /\ up' = FALSE /\ pending' = FALSE
    /\ layers' = [layers EXCEPT !.pushed = NoPolicy] /\ runtime' = layers' /\ mutex' = "free"
    /\ watcher' = [pc |-> "off", cfg |-> layers.local] /\ notified' = FALSE
    /\ poller' = NotPolling /\ etag' = NoPolicy /\ reported' = NoPolicy
    /\ req' = [r \in Requests |-> Fresh]
    /\ UNCHANGED <<world, cache, tenant>>

----------------------------------------------------------------------------
\* Mutant: the cache of another tenant is taken.
RestorableMutant(local) ==
    /\ Caching /\ cache # NoCache
    /\ Builds(local, cache.policy)

\* `Cache::load`: only what was written for this control plane and tenant.
Restorable(local) ==
    /\ Caching /\ cache # NoCache
    /\ cache.tenant = Tenant[local]
    /\ Builds(local, cache.policy)

\* Mutant: a cache file is enough not to wait for a policy, even one that was ignored.
StartMutant ==
    LET p == IF Restorable(disk) THEN cache.policy ELSE NoPolicy
    IN  /\ ~up /\ Builds(disk, NoPolicy)
        /\ up' = TRUE /\ tenant' = Tenant[disk] /\ missed' = FALSE
        /\ layers' = [local |-> disk, pushed |-> p] /\ runtime' = layers'
        /\ pending' = (Refuse /\ cache = NoCache)
        /\ etag' = p /\ reported' = p
        /\ UNCHANGED <<disk, served, cache, mutex, watching, poller, req>>

(***************************************************************************)
(* The start, up to the listener: build on the file (or exit), set the     *)
(* flag, restore the cached policy if it loads and builds.  Nothing is     *)
(* served before it ends, and the file is not watched yet.                 *)
(***************************************************************************)
Start ==
    LET p == IF Restorable(disk) THEN cache.policy ELSE NoPolicy
    IN  /\ ~up /\ Builds(disk, NoPolicy)
        /\ up' = TRUE /\ tenant' = Tenant[disk] /\ missed' = FALSE
        /\ layers' = [local |-> disk, pushed |-> p] /\ runtime' = layers'
        /\ pending' = (Refuse /\ p = NoPolicy)
        /\ etag' = p /\ reported' = p
        /\ UNCHANGED <<disk, served, cache, mutex, watching, poller, req>>

----------------------------------------------------------------------------
(***************************************************************************)
(* The watcher.                                                            *)
(***************************************************************************)
WatchStarts ==
    /\ up /\ watcher.pc = "off"
    /\ watcher' = [watcher EXCEPT !.pc = "idle"]
    /\ UNCHANGED <<world, cache, up, tenant, policy, notified, polling, req>>

\* Events are coalesced, then drained, and only then is the file read.
Drain ==
    /\ watcher.pc = "idle" /\ notified
    /\ notified' = FALSE
    /\ watcher' = [watcher EXCEPT !.pc = "drained"]
    /\ UNCHANGED <<world, cache, up, tenant, policy, polling, req>>

LoadFile ==
    /\ watcher.pc = "drained"
    /\ watcher' = [pc |-> "loaded", cfg |-> disk]
    /\ UNCHANGED <<world, cache, up, tenant, policy, notified, polling, req>>

\* Mutant: the events are drained after the reload.
SetLocalDrainsMutant ==
    /\ watcher.pc = "loaded" /\ mutex = "free"
    /\ IF Builds(watcher.cfg, layers.pushed)
       THEN /\ runtime' = [local |-> watcher.cfg, pushed |-> layers.pushed]
            /\ mutex' = "watcher" /\ watcher' = [watcher EXCEPT !.pc = "setting"]
       ELSE /\ watcher' = [watcher EXCEPT !.pc = "idle"]
            /\ UNCHANGED <<runtime, mutex>>
    /\ notified' = FALSE
    /\ UNCHANGED <<world, cache, up, tenant, layers, pending, polling, req>>

\* `set_local` takes the mutex and rebuilds with what was pushed; if that fails nothing changes.
SetLocal ==
    /\ watcher.pc = "loaded" /\ mutex = "free"
    /\ IF Builds(watcher.cfg, layers.pushed)
       THEN /\ runtime' = [local |-> watcher.cfg, pushed |-> layers.pushed]
            /\ mutex' = "watcher" /\ watcher' = [watcher EXCEPT !.pc = "setting"]
       ELSE /\ watcher' = [watcher EXCEPT !.pc = "idle"]
            /\ UNCHANGED <<runtime, mutex>>
    /\ UNCHANGED <<world, cache, up, tenant, layers, pending, notified, polling, req>>

LocalSet ==
    /\ watcher.pc = "setting"
    /\ layers' = [layers EXCEPT !.local = watcher.cfg]
    /\ mutex' = "free" /\ watcher' = [watcher EXCEPT !.pc = "idle"]
    /\ UNCHANGED <<world, cache, up, tenant, runtime, pending, notified, polling, req>>

----------------------------------------------------------------------------
(***************************************************************************)
(* The poller.  A pull that fails, or answers 304, changes nothing.        *)
(***************************************************************************)
Pull ==
    /\ up /\ poller.pc = "idle" /\ served[tenant] # etag
    /\ poller' = [pc |-> "pulled", doc |-> served[tenant]]
    /\ UNCHANGED <<world, cache, up, tenant, policy, watching, etag, reported, req>>

\* Mutant: the cursor moves although the policy was rejected.
InstallMutant ==
    /\ poller.pc = "pulled" /\ mutex = "free"
    /\ IF Builds(layers.local, poller.doc)
       THEN /\ runtime' = [local |-> layers.local, pushed |-> poller.doc]
            /\ mutex' = "poller" /\ poller' = [poller EXCEPT !.pc = "installing"]
            /\ UNCHANGED etag
       ELSE /\ poller' = NotPolling /\ etag' = poller.doc
            /\ UNCHANGED <<runtime, mutex>>
    /\ UNCHANGED <<world, cache, up, tenant, layers, pending, watching, reported, req>>

\* Mutant: the rebuild does not wait for the mutex.
InstallUnlockedMutant ==
    /\ poller.pc = "pulled"
    /\ IF Builds(layers.local, poller.doc)
       THEN /\ runtime' = [local |-> layers.local, pushed |-> poller.doc]
            /\ mutex' = "poller" /\ poller' = [poller EXCEPT !.pc = "installing"]
       ELSE /\ poller' = NotPolling
            /\ UNCHANGED <<runtime, mutex>>
    /\ UNCHANGED <<world, cache, up, tenant, layers, pending, watching, etag, reported, req>>

\* `install` takes the mutex and rebuilds; a policy that does not build is rejected, and the
\* next pull brings it again.
Install ==
    /\ poller.pc = "pulled" /\ mutex = "free"
    /\ IF Builds(layers.local, poller.doc)
       THEN /\ runtime' = [local |-> layers.local, pushed |-> poller.doc]
            /\ mutex' = "poller" /\ poller' = [poller EXCEPT !.pc = "installing"]
       ELSE /\ poller' = NotPolling
            /\ UNCHANGED <<runtime, mutex>>
    /\ UNCHANGED <<world, cache, up, tenant, layers, pending, watching, etag, reported, req>>

\* The flag is cleared after the runtime is stored.
Installed ==
    /\ poller.pc = "installing"
    /\ layers' = [layers EXCEPT !.pushed = poller.doc]
    /\ pending' = FALSE
    /\ mutex' = "free" /\ poller' = [poller EXCEPT !.pc = "saving"]
    /\ UNCHANGED <<world, cache, up, tenant, runtime, watching, etag, reported, req>>

\* The copy replaces the cache file in one rename; a failure is only logged.
Save ==
    /\ poller.pc = "saving"
    /\ poller' = [poller EXCEPT !.pc = "publishing"]
    /\ \/ Caching /\ cache' = [tenant |-> tenant, policy |-> poller.doc]
       \/ UNCHANGED cache
    /\ UNCHANGED <<world, up, tenant, policy, watching, etag, reported, req>>

Publish ==
    /\ poller.pc = "publishing"
    /\ reported' = poller.doc /\ etag' = poller.doc
    /\ poller' = NotPolling
    /\ UNCHANGED <<world, cache, up, tenant, policy, watching, req>>

----------------------------------------------------------------------------
(***************************************************************************)
(* A request reads the flag, then the runtime, and is refused or answered  *)
(* by them.                                                                *)
(***************************************************************************)
ReadPending(r) ==
    /\ up /\ req[r].pc = "idle"
    /\ req' = [req EXCEPT ![r] = [pc |-> "checked", pending |-> pending, runtime |-> NoPolicy]]
    /\ UNCHANGED <<world, cache, up, tenant, policy, watching, polling>>

LoadRuntime(r) ==
    /\ req[r].pc = "checked"
    /\ req' = [req EXCEPT ![r].pc = IF req[r].pending THEN "refused" ELSE "accepted",
                          ![r].runtime = runtime.pushed]
    /\ UNCHANGED <<world, cache, up, tenant, policy, watching, polling>>

Respond(r) ==
    /\ req[r].pc \in {"refused", "accepted"}
    /\ req' = [req EXCEPT ![r] = Fresh]
    /\ UNCHANGED <<world, cache, up, tenant, policy, watching, polling>>

Next ==
    \/ \E local \in Locals : EditFile(local)
    \/ \E t \in Tenants, p \in Policies : PushPolicy(t, p)
    \/ Crash \/ Start
    \/ WatchStarts \/ Drain \/ LoadFile \/ SetLocal \/ LocalSet
    \/ Pull \/ Install \/ Installed \/ Save \/ Publish
    \/ \E r \in Requests : ReadPending(r) \/ LoadRuntime(r) \/ Respond(r)

Spec == Init /\ [][Next]_vars

(***************************************************************************)
(* Fairness.  The process's own tasks go on, and the control plane answers *)
(* a pull now and then.  The mutex is never held across an await, and its  *)
(* two users come to it again and again.                                   *)
(***************************************************************************)
Fairness ==
    /\ WF_vars(WatchStarts) /\ WF_vars(Drain) /\ WF_vars(LoadFile) /\ WF_vars(LocalSet)
    /\ WF_vars(Pull) /\ WF_vars(Installed) /\ WF_vars(Save) /\ WF_vars(Publish)
    /\ SF_vars(SetLocal) /\ SF_vars(Install)

FairSpec == Spec /\ Fairness

----------------------------------------------------------------------------
(***************************************************************************)
(* Type invariant.                                                         *)
(***************************************************************************)
LayersType == [local : Locals, pushed : Pushable]

TypeOK ==
    /\ disk \in Locals /\ missed \in BOOLEAN /\ served \in [Tenants -> Policies]
    /\ cache \in [tenant : Tenants, policy : Policies] \union {NoCache}
    /\ up \in BOOLEAN /\ tenant \in Tenants
    /\ layers \in LayersType /\ runtime \in LayersType
    /\ mutex \in {"free", "watcher", "poller"} /\ pending \in BOOLEAN
    /\ watcher \in [pc : {"off", "idle", "drained", "loaded", "setting"}, cfg : Locals]
    /\ notified \in BOOLEAN
    /\ poller \in [pc : {"pulled", "installing", "saving", "publishing"}, doc : Policies]
                   \union {NotPolling}
    /\ etag \in Pushable /\ reported \in Pushable
    /\ req \in [Requests -> [pc : {"idle", "checked", "refused", "accepted"},
                             pending : BOOLEAN, runtime : Pushable]]

(***************************************************************************)
(* With `boot_without_policy = "refuse"`, no request is served on the      *)
(* config file alone: not at the start, not by a request that reads the    *)
(* flag while the first policy arrives.                                    *)
(***************************************************************************)
ServedUnderPolicy ==
    Refuse => \A r \in Requests : req[r].pc = "accepted" => req[r].runtime # NoPolicy

(***************************************************************************)
(* Neither source discards the other's layer: whenever no rebuild is under *)
(* way, the live runtime is the one built from both layers as they are.    *)
(***************************************************************************)
RuntimeIsLayers == up /\ mutex = "free" => runtime = layers

(***************************************************************************)
(* A running edge never falls back from a pushed policy to its file alone, *)
(* not even for a moment between two rebuilds.                             *)
(***************************************************************************)
PolicyNotDropped ==
    [][up /\ up' /\ runtime.pushed # NoPolicy => runtime'.pushed # NoPolicy]_vars

(***************************************************************************)
(* Usage reports name the policy that is served: between two polls the     *)
(* reported ETag and the poller's cursor are the live policy, also after a *)
(* policy was rejected and after a restart from the cache.                 *)
(***************************************************************************)
ReportedIsServed ==
    up /\ poller.pc = "idle" => reported = runtime.pushed /\ etag = runtime.pushed

(***************************************************************************)
(* A restart never brings up the policy of another tenant, whatever the    *)
(* volume's cache file was written for.                                    *)
(***************************************************************************)
OwnPolicy == up => runtime.pushed \in Owned[tenant] \union {NoPolicy}

(***************************************************************************)
(* What the documentation says of the file ("editing that file while       *)
(* EdgeGuard is running hot-reloads the policy"): the last edit of a       *)
(* watched file, if it builds with any policy, comes to be live and stays. *)
(***************************************************************************)
Sound(local) == \A p \in Pushable : Builds(local, p)

FileFollowed ==
    \A local \in Locals :
        Sound(local) /\ <>[](up /\ disk = local /\ ~missed) => <>[](runtime.local = local)

(***************************************************************************)
(* The edge converges to the control plane's policy, a rejected one        *)
(* included once the file it did not build with has changed.               *)
(***************************************************************************)
PolicyFollowed ==
    \A p \in Policies :
        <>[](up /\ served[tenant] = p /\ Builds(layers.local, p)) => <>[](runtime.pushed = p)

(***************************************************************************)
(* The edge converges to both its sources: the last edit of the file and   *)
(* the last policy of the control plane come to be live and stay.          *)
(***************************************************************************)
LayersFollowed == FileFollowed /\ PolicyFollowed
=============================================================================
