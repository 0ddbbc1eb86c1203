-------------------------- MODULE PolicyLayersProofs --------------------------
(***************************************************************************)
(* The properties of PolicyLayers, for any number of files, policies,      *)
(* tenants and requests.  The inductive invariant says who holds the       *)
(* mutex, and what the runtime is while it is held.                        *)
(***************************************************************************)
EXTENDS PolicyLayers, TLAPS

\* A process that is down has no task.
Down == ~up => /\ mutex = "free" /\ watcher.pc = "off" /\ poller.pc = "idle"
               /\ \A r \in Requests : req[r].pc = "idle"

\* The mutex is held by the task that has stored a runtime and not yet the layers.
Locked ==
    /\ mutex = "watcher" <=> watcher.pc = "setting"
    /\ mutex = "poller" <=> poller.pc = "installing"

\* Between the two stores the runtime is ahead of the layers by the holder's own layer.
Ahead ==
    /\ mutex = "watcher" => runtime = [local |-> watcher.cfg, pushed |-> layers.pushed]
    /\ mutex = "poller" => runtime = [local |-> layers.local, pushed |-> poller.doc]

\* The flag is down, or was down when a request read it, only once a policy is in the layers.
Cleared ==
    Refuse /\ up => /\ ~pending => layers.pushed # NoPolicy
                    /\ \A r \in Requests :
                          req[r].pc = "checked" /\ ~req[r].pending => layers.pushed # NoPolicy

\* Where the poller's cursor is, step by step.
Cursor ==
    up => IF poller.pc \in {"saving", "publishing"}
          THEN layers.pushed = poller.doc
          ELSE reported = layers.pushed /\ etag = layers.pushed

\* Every policy at hand is of the tenant it is kept for.
Provenance ==
    /\ \A t \in Tenants : served[t] \in Owned[t]
    /\ cache # NoCache => cache.policy \in Owned[cache.tenant]
    /\ poller.pc # "idle" => poller.doc \in Owned[tenant]
    /\ up => layers.pushed \in Owned[tenant] \union {NoPolicy}

Inv == /\ TypeOK /\ Down /\ Locked
       /\ RuntimeIsLayers /\ Ahead
       /\ ServedUnderPolicy /\ Cleared
       /\ Cursor /\ Provenance

----------------------------------------------------------------------------
\* The initial states satisfy the invariant.
LEMMA InitInv == Init => Inv
<1> SUFFICES ASSUME Init PROVE Inv
  OBVIOUS
<1> USE PolicyAssumption DEF Init, NotPolling, Fresh
<1>1. TypeOK
  BY DEF TypeOK, LayersType, Pushable
<1>2. Down /\ Locked /\ RuntimeIsLayers /\ Ahead /\ Cleared /\ Cursor
  BY DEF Down, Locked, RuntimeIsLayers, Ahead, Cleared, Cursor
<1>3. ServedUnderPolicy
  BY DEF ServedUnderPolicy
<1>4. Provenance
  BY DEF Provenance
<1> QED
  BY <1>1, <1>2, <1>3, <1>4 DEF Inv

RequestType == [pc : {"idle", "checked", "refused", "accepted"},
                pending : BOOLEAN, runtime : Pushable]

\* A request that has loaded the runtime is a request.
LEMMA LoadedRequest ==
    ASSUME NEW f \in [Requests -> RequestType], NEW r \in Requests,
           NEW q \in {"refused", "accepted"}, NEW p \in Pushable
    PROVE  [f EXCEPT ![r].pc = q, ![r].runtime = p] \in [Requests -> RequestType]
<1>1. f[r] \in RequestType
  OBVIOUS
<1>2. [[f[r] EXCEPT !.pc = q] EXCEPT !.runtime = p] \in RequestType
  BY <1>1 DEF RequestType
<1> QED
  BY <1>2

\* Every step keeps the types.
LEMMA TypeStep == TypeOK /\ [Next]_vars => TypeOK'
<1> SUFFICES ASSUME TypeOK, [Next]_vars PROVE TypeOK'
  OBVIOUS
<1> USE PolicyAssumption DEF TypeOK, LayersType, Pushable, NotPolling, Fresh,
        world, policy, watching, polling
<1>1. ASSUME NEW local \in Locals, EditFile(local) PROVE TypeOK'
  <2>1. missed' \in BOOLEAN
    BY <1>1, Zenon DEF EditFile
  <2>2. notified' \in BOOLEAN
    BY <1>1, Zenon DEF EditFile
  <2> QED
    BY <1>1, <2>1, <2>2 DEF EditFile
<1>2. ASSUME NEW t \in Tenants, NEW p \in Policies, PushPolicy(t, p) PROVE TypeOK'
  BY <1>2 DEF PushPolicy
<1>3. CASE Crash
  BY <1>3 DEF Crash
<1>4. CASE Start
  BY <1>4 DEF Start, Restorable
<1>5. CASE WatchStarts
  BY <1>5 DEF WatchStarts
<1>6. CASE Drain
  <2>1. watcher' \in [pc : {"off", "idle", "drained", "loaded", "setting"}, cfg : Locals]
    BY <1>6 DEF Drain
  <2>2. notified' \in BOOLEAN
    BY <1>6, Zenon DEF Drain
  <2> QED
    BY <1>6, <2>1, <2>2 DEF Drain
<1>7. CASE LoadFile
  BY <1>7 DEF LoadFile
<1>8. CASE SetLocal
  BY <1>8 DEF SetLocal
<1>9. CASE LocalSet
  BY <1>9 DEF LocalSet
<1>10. CASE Pull
  BY <1>10 DEF Pull
<1>11. CASE Install
  BY <1>11 DEF Install
<1>12. CASE Installed
  <2>1. layers' \in [local : Locals, pushed : Policies \union {NoPolicy}]
    BY <1>12 DEF Installed
  <2>2. poller' \in [pc : {"pulled", "installing", "saving", "publishing"}, doc : Policies]
    BY <1>12 DEF Installed
  <2>3. pending' \in BOOLEAN /\ mutex' \in {"free", "watcher", "poller"}
    BY <1>12, Zenon DEF Installed
  <2> QED
    BY <1>12, <2>1, <2>2, <2>3, Zenon DEF Installed
<1>13. CASE Save
  BY <1>13 DEF Save
<1>14. CASE Publish
  BY <1>14 DEF Publish
<1>15. ASSUME NEW r \in Requests, ReadPending(r) PROVE TypeOK'
  BY <1>15 DEF ReadPending
<1>16. ASSUME NEW r \in Requests, LoadRuntime(r) PROVE TypeOK'
  <2>1. req' \in [Requests -> RequestType]
    <3>1. PICK q \in {"refused", "accepted"} :
              req' = [req EXCEPT ![r].pc = q, ![r].runtime = runtime.pushed]
      BY <1>16, Zenon DEF LoadRuntime
    <3>2. runtime.pushed \in Pushable /\ req \in [Requests -> RequestType]
      BY DEF RequestType
    <3> QED
      BY <3>1, <3>2, LoadedRequest
  <2> QED
    BY <1>16, <2>1 DEF LoadRuntime, RequestType
<1>17. ASSUME NEW r \in Requests, Respond(r) PROVE TypeOK'
  BY <1>17 DEF Respond
<1>18. CASE UNCHANGED vars
  BY <1>18 DEF vars
<1> QED
  BY <1>1, <1>2, <1>3, <1>4, <1>5, <1>6, <1>7, <1>8, <1>9, <1>10, <1>11, <1>12, <1>13, <1>14,
     <1>15, <1>16, <1>17, <1>18 DEF Next

\* What the invariant says of the records the steps read.
LEMMA Types ==
    Inv => /\ layers.local \in Locals /\ layers.pushed \in Pushable
           /\ layers = [local |-> layers.local, pushed |-> layers.pushed]
           /\ watcher = [pc |-> watcher.pc, cfg |-> watcher.cfg]
           /\ poller = [pc |-> poller.pc, doc |-> poller.doc]
           /\ poller.pc # "idle" => poller.doc \in Policies
           /\ mutex \in {"free", "watcher", "poller"}
           /\ cache # NoCache => cache.tenant \in Tenants /\ cache.policy \in Policies
  BY DEF Inv, TypeOK, LayersType, NotPolling

\* The holder of the mutex is the task between its two stores.
LEMMA LockStep == Inv /\ [Next]_vars => (Down /\ Locked)'
<1> SUFFICES ASSUME Inv, [Next]_vars PROVE (Down /\ Locked)'
  OBVIOUS
<1> USE PolicyAssumption, Types DEF Inv, Down, Locked, world, policy, watching, polling, NotPolling, Fresh
<1>1. ASSUME NEW local \in Locals, EditFile(local) PROVE (Down /\ Locked)'
  BY <1>1 DEF EditFile
<1>2. ASSUME NEW t \in Tenants, NEW p \in Policies, PushPolicy(t, p) PROVE (Down /\ Locked)'
  BY <1>2 DEF PushPolicy
<1>3. CASE Crash
  BY <1>3 DEF Crash
<1>4. CASE Start
  BY <1>4 DEF Start
<1>5. CASE WatchStarts
  BY <1>5 DEF WatchStarts
<1>6. CASE Drain
  BY <1>6 DEF Drain
<1>7. CASE LoadFile
  BY <1>7 DEF LoadFile
<1>8. CASE SetLocal
  BY <1>8 DEF SetLocal
<1>9. CASE LocalSet
  BY <1>9 DEF LocalSet
<1>10. CASE Pull
  BY <1>10 DEF Pull
<1>11. CASE Install
  BY <1>11 DEF Install
<1>12. CASE Installed
  BY <1>12 DEF Installed
<1>13. CASE Save
  BY <1>13 DEF Save
<1>14. CASE Publish
  BY <1>14 DEF Publish
<1>15. ASSUME NEW r \in Requests, ReadPending(r) PROVE (Down /\ Locked)'
  BY <1>15 DEF ReadPending
<1>16. ASSUME NEW r \in Requests, LoadRuntime(r) PROVE (Down /\ Locked)'
  BY <1>16 DEF LoadRuntime
<1>17. ASSUME NEW r \in Requests, Respond(r) PROVE (Down /\ Locked)'
  BY <1>17 DEF Respond
<1>18. CASE UNCHANGED vars
  BY <1>18 DEF vars
<1> QED
  BY <1>1, <1>2, <1>3, <1>4, <1>5, <1>6, <1>7, <1>8, <1>9,
     <1>10, <1>11, <1>12, <1>13, <1>14, <1>15, <1>16, <1>17, <1>18 DEF Next

\* The runtime is the layers, or ahead of them by the layer of the mutex's holder.
LEMMA LayersStep == Inv /\ [Next]_vars => (RuntimeIsLayers /\ Ahead)'
<1> SUFFICES ASSUME Inv, [Next]_vars PROVE (RuntimeIsLayers /\ Ahead)'
  OBVIOUS
<1> USE PolicyAssumption, Types DEF Inv, Down, Locked, RuntimeIsLayers, Ahead, world, policy, watching, polling, NotPolling, Fresh
<1>1. ASSUME NEW local \in Locals, EditFile(local) PROVE (RuntimeIsLayers /\ Ahead)'
  BY <1>1 DEF EditFile
<1>2. ASSUME NEW t \in Tenants, NEW p \in Policies, PushPolicy(t, p) PROVE (RuntimeIsLayers /\ Ahead)'
  BY <1>2 DEF PushPolicy
<1>3. CASE Crash
  BY <1>3 DEF Crash
<1>4. CASE Start
  BY <1>4 DEF Start, Restorable
<1>5. CASE WatchStarts
  BY <1>5 DEF WatchStarts
<1>6. CASE Drain
  BY <1>6 DEF Drain
<1>7. CASE LoadFile
  BY <1>7 DEF LoadFile
<1>8. CASE SetLocal
  BY <1>8 DEF SetLocal
<1>9. CASE LocalSet
  BY <1>9 DEF LocalSet
<1>10. CASE Pull
  BY <1>10 DEF Pull
<1>11. CASE Install
  BY <1>11 DEF Install
<1>12. CASE Installed
  BY <1>12 DEF Installed
<1>13. CASE Save
  BY <1>13 DEF Save
<1>14. CASE Publish
  BY <1>14 DEF Publish
<1>15. ASSUME NEW r \in Requests, ReadPending(r) PROVE (RuntimeIsLayers /\ Ahead)'
  BY <1>15 DEF ReadPending
<1>16. ASSUME NEW r \in Requests, LoadRuntime(r) PROVE (RuntimeIsLayers /\ Ahead)'
  BY <1>16 DEF LoadRuntime
<1>17. ASSUME NEW r \in Requests, Respond(r) PROVE (RuntimeIsLayers /\ Ahead)'
  BY <1>17 DEF Respond
<1>18. CASE UNCHANGED vars
  BY <1>18 DEF vars
<1> QED
  BY <1>1, <1>2, <1>3, <1>4, <1>5, <1>6, <1>7, <1>8, <1>9,
     <1>10, <1>11, <1>12, <1>13, <1>14, <1>15, <1>16, <1>17, <1>18 DEF Next

\* The cursor and the report follow the layers.
LEMMA CursorStep == Inv /\ [Next]_vars => Cursor'
<1> SUFFICES ASSUME Inv, [Next]_vars PROVE Cursor'
  OBVIOUS
<1> USE PolicyAssumption, Types DEF Inv, Cursor, Down, world, policy, watching, polling, NotPolling, Fresh
<1>1. ASSUME NEW local \in Locals, EditFile(local) PROVE Cursor'
  BY <1>1 DEF EditFile
<1>2. ASSUME NEW t \in Tenants, NEW p \in Policies, PushPolicy(t, p) PROVE Cursor'
  BY <1>2 DEF PushPolicy
<1>3. CASE Crash
  BY <1>3 DEF Crash
<1>4. CASE Start
  BY <1>4 DEF Start
<1>5. CASE WatchStarts
  BY <1>5 DEF WatchStarts
<1>6. CASE Drain
  BY <1>6 DEF Drain
<1>7. CASE LoadFile
  BY <1>7 DEF LoadFile
<1>8. CASE SetLocal
  BY <1>8 DEF SetLocal
<1>9. CASE LocalSet
  BY <1>9 DEF LocalSet
<1>10. CASE Pull
  BY <1>10 DEF Pull
<1>11. CASE Install
  BY <1>11 DEF Install
<1>12. CASE Installed
  BY <1>12 DEF Installed
<1>13. CASE Save
  BY <1>13 DEF Save
<1>14. CASE Publish
  BY <1>14 DEF Publish
<1>15. ASSUME NEW r \in Requests, ReadPending(r) PROVE Cursor'
  BY <1>15 DEF ReadPending
<1>16. ASSUME NEW r \in Requests, LoadRuntime(r) PROVE Cursor'
  BY <1>16 DEF LoadRuntime
<1>17. ASSUME NEW r \in Requests, Respond(r) PROVE Cursor'
  BY <1>17 DEF Respond
<1>18. CASE UNCHANGED vars
  BY <1>18 DEF vars
<1> QED
  BY <1>1, <1>2, <1>3, <1>4, <1>5, <1>6, <1>7, <1>8, <1>9,
     <1>10, <1>11, <1>12, <1>13, <1>14, <1>15, <1>16, <1>17, <1>18 DEF Next

\* No step brings a policy to another tenant.
LEMMA ProvenanceStep == Inv /\ [Next]_vars => Provenance'
<1> SUFFICES ASSUME Inv, [Next]_vars PROVE Provenance'
  OBVIOUS
<1> USE PolicyAssumption, Types DEF Inv, Provenance, Down, TypeOK, world, policy, watching, polling, NotPolling, Fresh
<1>1. ASSUME NEW local \in Locals, EditFile(local) PROVE Provenance'
  BY <1>1 DEF EditFile
<1>2. ASSUME NEW t \in Tenants, NEW p \in Policies, PushPolicy(t, p) PROVE Provenance'
  BY <1>2 DEF PushPolicy
<1>3. CASE Crash
  BY <1>3 DEF Crash
<1>4. CASE Start
  BY <1>4 DEF Start, Restorable
<1>5. CASE WatchStarts
  BY <1>5 DEF WatchStarts
<1>6. CASE Drain
  BY <1>6 DEF Drain
<1>7. CASE LoadFile
  BY <1>7 DEF LoadFile
<1>8. CASE SetLocal
  BY <1>8 DEF SetLocal
<1>9. CASE LocalSet
  BY <1>9 DEF LocalSet
<1>10. CASE Pull
  BY <1>10 DEF Pull
<1>11. CASE Install
  BY <1>11 DEF Install
<1>12. CASE Installed
  BY <1>12 DEF Installed
<1>13. CASE Save
  BY <1>13 DEF Save
<1>14. CASE Publish
  BY <1>14 DEF Publish
<1>15. ASSUME NEW r \in Requests, ReadPending(r) PROVE Provenance'
  BY <1>15 DEF ReadPending
<1>16. ASSUME NEW r \in Requests, LoadRuntime(r) PROVE Provenance'
  BY <1>16 DEF LoadRuntime
<1>17. ASSUME NEW r \in Requests, Respond(r) PROVE Provenance'
  BY <1>17 DEF Respond
<1>18. CASE UNCHANGED vars
  BY <1>18 DEF vars
<1> QED
  BY <1>1, <1>2, <1>3, <1>4, <1>5, <1>6, <1>7, <1>8, <1>9,
     <1>10, <1>11, <1>12, <1>13, <1>14, <1>15, <1>16, <1>17, <1>18 DEF Next

\* A request that passes the flag loads a runtime with a policy.
LEMMA ServiceStep == Inv /\ [Next]_vars => (ServedUnderPolicy /\ Cleared)'
<1> SUFFICES ASSUME Inv, [Next]_vars PROVE (ServedUnderPolicy /\ Cleared)'
  OBVIOUS
<1> USE PolicyAssumption, Types DEF Inv, ServedUnderPolicy, Cleared, Down, Locked, RuntimeIsLayers, Ahead, TypeOK, world, policy, watching, polling, NotPolling, Fresh
<1>1. ASSUME NEW local \in Locals, EditFile(local) PROVE (ServedUnderPolicy /\ Cleared)'
  BY <1>1 DEF EditFile
<1>2. ASSUME NEW t \in Tenants, NEW p \in Policies, PushPolicy(t, p) PROVE (ServedUnderPolicy /\ Cleared)'
  BY <1>2 DEF PushPolicy
<1>3. CASE Crash
  BY <1>3 DEF Crash
<1>4. CASE Start
  BY <1>4 DEF Start, Restorable
<1>5. CASE WatchStarts
  BY <1>5 DEF WatchStarts
<1>6. CASE Drain
  BY <1>6 DEF Drain
<1>7. CASE LoadFile
  BY <1>7 DEF LoadFile
<1>8. CASE SetLocal
  BY <1>8 DEF SetLocal
<1>9. CASE LocalSet
  BY <1>9 DEF LocalSet
<1>10. CASE Pull
  BY <1>10 DEF Pull
<1>11. CASE Install
  BY <1>11 DEF Install
<1>12. CASE Installed
  BY <1>12 DEF Installed
<1>13. CASE Save
  BY <1>13 DEF Save
<1>14. CASE Publish
  BY <1>14 DEF Publish
<1>15. ASSUME NEW r \in Requests, ReadPending(r) PROVE (ServedUnderPolicy /\ Cleared)'
  BY <1>15 DEF ReadPending
<1>16. ASSUME NEW r \in Requests, LoadRuntime(r) PROVE (ServedUnderPolicy /\ Cleared)'
  BY <1>16 DEF LoadRuntime
<1>17. ASSUME NEW r \in Requests, Respond(r) PROVE (ServedUnderPolicy /\ Cleared)'
  BY <1>17 DEF Respond
<1>18. CASE UNCHANGED vars
  BY <1>18 DEF vars
<1> QED
  BY <1>1, <1>2, <1>3, <1>4, <1>5, <1>6, <1>7, <1>8, <1>9,
     <1>10, <1>11, <1>12, <1>13, <1>14, <1>15, <1>16, <1>17, <1>18 DEF Next

\* The invariant is inductive.
LEMMA InvStep == Inv /\ [Next]_vars => Inv'
  BY TypeStep, LockStep, LayersStep, CursorStep, ProvenanceStep, ServiceStep DEF Inv

\* The invariant holds in every state of the system.
LEMMA InvHolds == Spec => []Inv
  BY InitInv, InvStep, PTL DEF Spec

----------------------------------------------------------------------------
(***************************************************************************)
(* Type correctness of the layers, the cache and the two tasks.            *)
(***************************************************************************)
THEOREM PolicyTypeCorrect == Spec => []TypeOK
<1>1. Inv => TypeOK
  BY DEF Inv
<1> QED
  BY <1>1, InvHolds, PTL

(***************************************************************************)
(* Whatever file edits and pulls interleave, no rebuild of one source      *)
(* undoes the other's layer (`Policy::rebuild` under the mutex).           *)
(***************************************************************************)
THEOREM NoLayerLost == Spec => []RuntimeIsLayers
<1>1. Inv => RuntimeIsLayers
  BY DEF Inv
<1> QED
  BY <1>1, InvHolds, PTL

(***************************************************************************)
(* With `boot_without_policy = "refuse"` no request is ever accepted on a  *)
(* runtime without a pushed policy.                                        *)
(***************************************************************************)
THEOREM NoServiceWithoutPolicy == Spec => []ServedUnderPolicy
<1>1. Inv => ServedUnderPolicy
  BY DEF Inv
<1> QED
  BY <1>1, InvHolds, PTL

(***************************************************************************)
(* Between two polls the reported ETag is that of the runtime in service.  *)
(***************************************************************************)
THEOREM ReportIsTrue == Spec => []ReportedIsServed
<1>1. Inv => ReportedIsServed
  <2> SUFFICES ASSUME Inv, up, poller.pc = "idle"
               PROVE  reported = runtime.pushed /\ etag = runtime.pushed
    BY DEF ReportedIsServed
  <2>1. runtime.pushed = layers.pushed
    BY Types DEF Inv, Locked, RuntimeIsLayers, Ahead
  <2> QED
    BY <2>1 DEF Inv, Cursor
<1> QED
  BY <1>1, InvHolds, PTL

(***************************************************************************)
(* No edge runs another tenant's policy, whoever wrote its cache file.     *)
(***************************************************************************)
THEOREM TenantsApart == Spec => []OwnPolicy
<1>1. Inv => OwnPolicy
  <2> SUFFICES ASSUME Inv, up PROVE runtime.pushed \in Owned[tenant] \union {NoPolicy}
    BY DEF OwnPolicy
  <2>1. runtime.pushed = layers.pushed \/ (poller.pc = "installing" /\ runtime.pushed = poller.doc)
    BY Types DEF Inv, Locked, RuntimeIsLayers, Ahead
  <2> QED
    BY <2>1 DEF Inv, Provenance
<1> QED
  BY <1>1, InvHolds, PTL
(***************************************************************************)
(* No step of a running edge swaps a runtime with a pushed policy for one  *)
(* without: only `set_local` and `install` store a runtime, and both build *)
(* it on a pushed layer that is there.                                     *)
(***************************************************************************)
THEOREM NeverBackToFile == Spec => PolicyNotDropped
<1> DEFINE Kept == up /\ up' /\ runtime.pushed # NoPolicy => runtime'.pushed # NoPolicy
<1>1. Inv /\ [Next]_vars => [Kept]_vars
  <2> SUFFICES ASSUME Inv, Next, up, up', runtime.pushed # NoPolicy
               PROVE  runtime'.pushed # NoPolicy
    OBVIOUS
  <2>1. CASE SetLocal
    BY <2>1, Types DEF SetLocal, Inv, RuntimeIsLayers
  <2>2. CASE Install
    BY <2>2, Types, PolicyAssumption DEF Install
  <2>3. CASE UNCHANGED runtime
    BY <2>3
  <2> QED
    BY <2>1, <2>2, <2>3 DEF Next, EditFile, PushPolicy, Crash, Start, WatchStarts, Drain, LoadFile,
       LocalSet, Pull, Installed, Save, Publish, ReadPending, LoadRuntime, Respond, policy
<1> QED
  BY <1>1, InvHolds, PTL DEF Spec, PolicyNotDropped
=============================================================================
