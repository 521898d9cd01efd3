----------------------- MODULE LeaseRefinementProofs -----------------------
(***************************************************************************)
(* Machine-checked proofs that LeaseReconcile implements LeaseLifecycle,   *)
(* for every value of the constants: no Namespace outlives its lease, and  *)
(* there are never two of them.                                            *)
(***************************************************************************)
EXTENDS LeaseReconcileProofs

\* What the refinement needs of the instance: the controller's reads are
\* current, its retries do not run out, it does not stop between two calls,
\* and cleanup never gives up on an unreachable target.
PromptCache ==
    /\ Features \cap {"stale", "exhausted", "crash"} = {}
    /\ ~BestEffort

\* It then reads the Namespaces as they are.
LEMMA PromptFresh == ASSUME PromptCache PROVE FreshNs
BY DEF PromptCache, FreshNs

-----------------------------------------------------------------------------
(* The inductive invariants                                                *)

\* The lease is stored under the finalizer.
Held == api.exists /\ api.finalizer

\* Reconcile is between the finalizer's addition and its removal.
Busy == w.pc \notin {"idle", "addFinalizer", "deleteLease"}

\* The Namespace may exist before the status names it.
Unrecorded == w.pc \in {"persistNamespace", "patch"}

\* Reconcile works under the finalizer.
WorksHeld ==
    /\ Busy => Held
    /\ w.pc = "addFinalizer" => w.obj.exists
    /\ api.exists => cache.exists

\* The worker's status names the Namespace that the stored one names, or
\* one that it has just created and not recorded.
NameKnown ==
    Busy => /\ w.before.namespace \in {Nil, api.status.namespace}
            /\ \/ w.st.namespace = api.status.namespace
               \/ Unrecorded /\ api.status.namespace = Nil
            /\ w.pc = "sync" => w.obj.status.namespace = api.status.namespace

\* Every Namespace there is, is the one that is named.
Accounted ==
    /\ \A n \in Names : ns[n] # "none" =>
          n = api.status.namespace \/ (Unrecorded /\ n = w.st.namespace)
    /\ ~Held => \A n \in Names : ns[n] = "none"

HInv == WorksHeld /\ NameKnown /\ Accounted

-----------------------------------------------------------------------------
(* Steps that preserve it                                                  *)

\* A step of somebody else: the worker and the Namespaces stay, the finalizer
\* and the recorded name too.
LEMMA OtherHeld ==
    ASSUME HInv, UNCHANGED w, Held' = Held,
           api'.status.namespace = api.status.namespace,
           api'.exists => cache'.exists,
           \A n \in Names : ns[n] = "none" => ns'[n] = "none"
    PROVE  HInv'
BY DEF HInv, WorksHeld, NameKnown, Accounted, Busy, Unrecorded

\* A step of Reconcile that neither writes the lease nor touches a Namespace.
LEMMA MoveHeld ==
    ASSUME HInv, UNCHANGED <<api, cache, ns>>, Busy, Busy', w'.pc # "sync",
           w.pc \in {"persistNamespace", "patch"} => w'.pc = "patch",
           w'.st.namespace = w.st.namespace, w'.before = w.before
    PROVE  HInv'
BY DEF HInv, WorksHeld, NameKnown, Accounted, Busy, Unrecorded, Held

\* Reconcile returns with everything accounted for by the stored status.
LEMMA RestHeld ==
    ASSUME w' = AtRest, api'.exists => cache'.exists,
           \A n \in Names : ns'[n] # "none" => n = api'.status.namespace,
           ~Held' => \A n \in Names : ns'[n] = "none"
    PROVE  HInv'
<1>1. w'.pc = "idle"
  BY AtRestOK
<1>2. QED
  BY <1>1 DEF HInv, WorksHeld, NameKnown, Accounted, Busy, Unrecorded

\* Reconcile starts from the current lease.
LEMMA BeginHeld ==
    ASSUME IInv, HInv, PromptCache,
           NEW pc \in {"cleanup", "addFinalizer", "patch", "sync"}, NEW st, NEW resolved,
           Begin(pc, st, resolved), st.namespace = cache.status.namespace,
           cache.exists, pc # "addFinalizer" => cache.finalizer
    PROVE  HInv'
<1>1. /\ w.pc = "idle" /\ CanRead
      /\ w'.pc = pc /\ w'.obj = cache /\ w'.st = st /\ w'.before = cache.status
      /\ UNCHANGED <<api, cache, ns>>
  BY BeginFields
<1>2. cache = api
  BY <1>1 DEF CanRead, PromptCache
<1>3. QED
  BY <1>1, <1>2 DEF HInv, WorksHeld, NameKnown, Accounted, Busy, Unrecorded, Held

\* The start of Reconcile.
LEMMA StartHeld ==
    ASSUME IInv, HInv, PromptCache,
           \/ BeginGone \/ BeginDelete \/ BeginAddFinalizer \/ BeginRejected
           \/ BeginSync \/ AddFinalizer \/ Sync \/ CheckExpired
    PROVE  HInv'
<1>1. /\ w \in Worker /\ w.st \in LeaseStatus /\ w.obj.status \in LeaseStatus
      /\ w.resolved \in Resolved /\ api \in Lease /\ cache.status \in LeaseStatus
      /\ now \in Nat
  BY DEF IInv, WorkerOK, LeaseOK, StatusOK, Worker
<1>2. CASE BeginGone
  BY <1>2, OtherHeld DEF BeginGone, HInv, WorksHeld, Held
<1>3. CASE BeginDelete
  <2> DEFINE r == IF cache.status.expirationReason = "SourceClosed"
                  THEN "SourceClosed" ELSE "ManualExpiration"
             s == [cache.status EXCEPT !.expirationReason = r]
  <2>1. r \in ExpirationReasons
    BY DEF ExpirationReasons
  <2>2. Begin("cleanup", MarkCleaning(s), Unresolved) /\ cache.exists /\ cache.finalizer
    BY <1>3 DEF BeginDelete
  <2> HIDE DEF r
  <2>3. s \in LeaseStatus /\ s.namespace = cache.status.namespace
    BY <1>1, <2>1 DEF LeaseStatus
  <2> HIDE DEF s
  <2>4. MarkCleaning(s).namespace = cache.status.namespace
    BY <2>3, MarkFields
  <2>5. QED
    BY <2>2, <2>4, BeginHeld
<1>4. CASE BeginAddFinalizer
  BY <1>4, BeginHeld DEF BeginAddFinalizer
<1>5. CASE BeginRejected
  BY <1>1, <1>5, BeginHeld, MarkFields DEF BeginRejected
<1>6. CASE BeginSync
  BY <1>6, BeginHeld DEF BeginSync
<1>7. CASE AddFinalizer
  <2>1. /\ w.pc = "addFinalizer" /\ w' = AtRest /\ UNCHANGED <<cache, ns>>
        /\ api' = IF w.obj = api THEN [api EXCEPT !.finalizer = TRUE] ELSE api
    BY <1>7 DEF AddFinalizer, Finish
  <2>2. /\ api'.exists = api.exists /\ api'.status = api.status
        /\ api.finalizer => api'.finalizer
    BY <1>1, <2>1, WriteFields
  <2>3. QED
    BY <2>1, <2>2, RestHeld DEF HInv, WorksHeld, Accounted, Unrecorded, Held
<1>8. CASE Sync
  <2>1. /\ w.pc = "sync" /\ UNCHANGED <<api, cache, ns>>
        /\ GotoWith("check", Synced(w.obj.status, w.resolved, now))
    BY <1>8 DEF Sync
  <2>2. Synced(w.obj.status, w.resolved, now).namespace = w.obj.status.namespace
    BY <1>1, SyncedFields
  <2>3. w.obj.status.namespace = w.st.namespace
    BY <2>1 DEF HInv, NameKnown, Busy, Unrecorded
  <2>4. /\ w'.pc = "check" /\ w'.before = w.before
        /\ w'.st.namespace = w.st.namespace
    BY <1>1, <2>1, <2>2, <2>3, GotoWithFields
  <2>5. QED
    BY <2>1, <2>4, MoveHeld DEF Busy
<1>9. CASE CheckExpired
  <2>1. w.pc = "check" /\ UNCHANGED <<api, cache, ns>>
    BY <1>9 DEF CheckExpired
  <2>2. PICK r : GotoWith("cleanup", MarkExpired(w.st, r)) \/ Goto("target")
    BY <1>9 DEF CheckExpired
  <2>3. MarkExpired(w.st, r).namespace = w.st.namespace
    BY <1>1, MarkFields
  <2>4. /\ w'.pc \in {"cleanup", "target"} /\ w'.before = w.before
        /\ w'.st.namespace = w.st.namespace
    BY <1>1, <2>2, <2>3, GotoFields, GotoWithFields
  <2>5. QED
    BY <2>1, <2>4, MoveHeld DEF Busy
<1>10. QED
  BY <1>2, <1>3, <1>4, <1>5, <1>6, <1>7, <1>8, <1>9

\* reconcileActive.
LEMMA ActiveHeld ==
    ASSUME IInv, HInv, PromptCache,
           \/ ResolveTarget \/ TargetError \/ PersistCluster \/ RefreshCluster
           \/ KeepNamespace \/ NamespaceMissing \/ CreateNamespace \/ EnsureNamespaceFails
           \/ PersistNamespace \/ RefreshNamespace
           \/ EnsureConstraints \/ EnsureConstraintsFails
           \/ EmitWarnings \/ BecomeReady \/ Schedule
    PROVE  HInv'
<1>1. /\ w \in Worker /\ w.st \in LeaseStatus /\ api \in Lease
      /\ cache.status \in LeaseStatus /\ w.resolved \in Resolved
      /\ w.st.namespace \in Names \cup {Nil}
  BY DEF IInv, WorkerOK, LeaseOK, StatusOK, Worker, LeaseStatus
<1>2. \A st \in LeaseStatus : StartProvisioning(st).namespace = st.namespace
  BY MarkFields DEF StartProvisioning
<1>3. CASE ResolveTarget
  <2>1. w.pc = "target" /\ UNCHANGED <<api, cache, ns>>
    BY <1>3 DEF ResolveTarget
  <2>2. Goto("persistCluster") \/ GotoWith("ensureNamespace", StartProvisioning(w.st))
    BY <1>3 DEF ResolveTarget
  <2>3. /\ w'.pc \in {"persistCluster", "ensureNamespace"} /\ w'.before = w.before
        /\ w'.st.namespace = w.st.namespace
    BY <1>1, <1>2, <2>2, GotoFields, GotoWithFields
  <2>4. QED
    BY <2>1, <2>3, MoveHeld DEF Busy
<1>4. ASSUME NEW st, st.namespace = w.st.namespace, NEW result, GotoPatch(st, result),
             UNCHANGED <<api, cache, ns>>, Busy
      PROVE  HInv'
  <2>1. w'.pc = "patch" /\ w'.before = w.before /\ w'.st.namespace = w.st.namespace
    BY <1>1, <1>4, GotoPatchFields
  <2>2. QED
    BY <1>4, <2>1, MoveHeld DEF Busy
<1>5. MarkFailed(w.st).namespace = w.st.namespace
  BY <1>1, MarkFields
<1>6. CASE TargetError
  <2>1. PICK st \in {w.st, MarkFailed(w.st)} : GotoPatch(st, TargetUnavailable)
    BY <1>6 DEF TargetError
  <2>2. st.namespace = w.st.namespace
    BY <1>5, <2>1
  <2>3. Busy /\ UNCHANGED <<api, cache, ns>>
    BY <1>6 DEF TargetError, Busy
  <2>4. QED
    BY <1>4, <2>1, <2>2, <2>3
<1>7. CASE EnsureNamespaceFails
  BY <1>4, <1>5, <1>7 DEF EnsureNamespaceFails, Busy
<1>8. CASE EnsureConstraintsFails
  BY <1>4, <1>5, <1>8 DEF EnsureConstraintsFails, Busy
<1>9. CASE Schedule
  <2>1. PICK result : GotoPatch(w.st, result)
    BY <1>9 DEF Schedule
  <2>2. QED
    BY <1>4, <1>9, <2>1 DEF Schedule, Busy
<1>10. ASSUME NEW next \in {"refreshCluster", "refreshNamespace"}, NEW pc, Persist(pc, next),
              Busy
       PROVE  HInv'
  <2>1. CASE w.obj = api
    <3>1. api' = [api EXCEPT !.status = w.st] /\ Goto(next) /\ UNCHANGED <<cache, ns>>
      BY <1>10, <2>1 DEF Persist
    <3>2. /\ w'.pc = next /\ w'.st = w.st /\ w'.before = w.before
          /\ api'.status = w.st /\ api'.exists = api.exists /\ api'.finalizer = api.finalizer
      BY <1>1, <3>1, GotoFields, WriteFields
    <3>3. QED
      BY <1>10, <3>1, <3>2, ConstantsAssumption
         DEF HInv, WorksHeld, NameKnown, Accounted, Busy, Unrecorded, Held
  <2>2. CASE w.obj # api
    BY <1>4, <1>10, <2>2 DEF Persist
  <2>3. QED
    BY <2>1, <2>2
<1>11. CASE PersistCluster
  BY <1>10, <1>11 DEF PersistCluster, Persist, Busy
<1>12. CASE PersistNamespace
  BY <1>10, <1>12 DEF PersistNamespace, Persist, Busy
<1>13. ASSUME NEW next \in {"ensureNamespace", "constraints"},
              NEW pc \in {"refreshCluster", "refreshNamespace"}, NEW st,
              Refresh(pc, next, st), st.namespace = cache.status.namespace
       PROVE  HInv'
  <2>1. w.pc = pc /\ CanRead /\ UNCHANGED <<api, cache, ns>>
    BY <1>13 DEF Refresh
  <2>2. cache = api
    BY <2>1 DEF CanRead, PromptCache
  <2>3. w'.pc = next /\ w'.st = st /\ w'.before = w.before
    BY <1>1, <1>13, RefreshFields
  <2>4. QED
    BY <1>13, <2>1, <2>2, <2>3
       DEF HInv, WorksHeld, NameKnown, Accounted, Busy, Unrecorded, Held
<1>14. /\ [cache.status EXCEPT !.effective = w.resolved] \in LeaseStatus
       /\ [cache.status EXCEPT !.effective = w.resolved].namespace = cache.status.namespace
  BY <1>1 DEF LeaseStatus
<1>15. CASE RefreshCluster
  BY <1>2, <1>13, <1>14, <1>15 DEF RefreshCluster
<1>16. CASE RefreshNamespace
  BY <1>13, <1>14, <1>16 DEF RefreshNamespace
<1>17. CASE KeepNamespace \/ CreateNamespace
  <2> FreshNs
    BY PromptFresh
  <2>1. /\ w.pc \in {"ensureNamespace", "createNamespace"} /\ UNCHANGED <<api, cache>>
        /\ w'.before = w.before
    BY <1>17, EnsureFields
  <2>2. PICK n \in Names :
           /\ w.st.namespace \in {Nil, n}
           /\ ns' = [ns EXCEPT ![n] = "active"]
           /\ w'.st.namespace = n
           /\ w'.pc = IF w.st.namespace = n THEN "constraints" ELSE "persistNamespace"
    BY <1>17, EnsureFields
  <2>3. ns \in [Names -> {"none", "active", "terminating"}] /\ Nil \notin Names
    BY ConstantsAssumption DEF IInv
  <2>4. QED
    BY <2>1, <2>2, <2>3
       DEF HInv, WorksHeld, NameKnown, Accounted, Busy, Unrecorded, Held
<1>17b. CASE NamespaceMissing
  <2>1. w'.pc = "createNamespace" /\ w'.before = w.before /\ w'.st = w.st
    BY <1>1, <1>17b, GotoFields DEF NamespaceMissing
  <2>2. QED
    BY <1>17b, <2>1, MoveHeld DEF NamespaceMissing, Busy
<1>18. ASSUME NEW pc \in {"warn", "ready", "schedule"}, NEW st,
              st.namespace = w.st.namespace, GotoWith(pc, st) \/ Goto(pc),
              UNCHANGED <<api, cache, ns>>, w.pc \in {"constraints", "warn", "ready"}
       PROVE  HInv'
  <2>1. w'.pc = pc /\ w'.before = w.before /\ w'.st.namespace = w.st.namespace
    BY <1>1, <1>18, GotoFields, GotoWithFields
  <2>2. QED
    BY <1>18, <2>1, MoveHeld DEF Busy
<1>19. CASE EnsureConstraints
  BY <1>18, <1>19 DEF EnsureConstraints
<1>20. CASE EmitWarnings
  <2>1. \A d : [w.st EXCEPT !.warningsDelivered = d].namespace = w.st.namespace
    BY <1>1 DEF LeaseStatus
  <2>2. PICK st : GotoWith("ready", st) /\ st.namespace = w.st.namespace
    BY <1>20, <2>1 DEF EmitWarnings
  <2>3. QED
    BY <1>18, <1>20, <2>2 DEF EmitWarnings
<1>21. CASE BecomeReady
  <2>1. \A e : MarkReady(w.st, e).namespace = w.st.namespace
    BY <1>1, MarkFields
  <2>2. QED
    BY <1>18, <1>21, <2>1 DEF BecomeReady
<1>22. QED
  BY <1>3, <1>6, <1>7, <1>8, <1>9, <1>11, <1>12, <1>15, <1>16, <1>17, <1>17b, <1>19,
     <1>20, <1>21

\* cleanupEnvironment, patchStatusIfChanged and removeLeaseFinalizer.
LEMMA CleanupHeld ==
    ASSUME IInv, HInv, PromptCache,
           \/ CleanupDone \/ CleanupDelete \/ CleanupBlocked
           \/ PatchStatus \/ PatchNothing \/ PatchFails
           \/ RemoveFinalizer \/ RemoveFinalizerFails \/ DeleteLease
    PROVE  HInv'
<1>1. /\ w \in Worker /\ w.st \in LeaseStatus /\ api \in Lease /\ cache \in Lease
      /\ w.st.namespace \in Names \cup {Nil}
      /\ ns \in [Names -> {"none", "active", "terminating"}] /\ Nil \notin Names
  BY ConstantsAssumption DEF IInv, WorkerOK, LeaseOK, StatusOK, LeaseStatus
<1>2. CASE CleanupDone
  <2>1. /\ w.pc = "cleanup" /\ UNCHANGED <<api, cache, ns>>
        /\ GotoWith("patchDone", MarkCleanupComplete(w.st))
    BY <1>2 DEF CleanupDone
  <2>2. w'.pc = "patchDone" /\ w'.before = w.before /\ w'.st.namespace = w.st.namespace
    BY <1>1, <2>1, GotoWithFields, MarkFields
  <2>3. QED
    BY <2>1, <2>2, MoveHeld DEF Busy
<1>3. CASE CleanupDelete
  <2>1. /\ w.pc = "cleanup" /\ UNCHANGED <<api, cache>> /\ w.st.namespace \in Names
        /\ ns[w.st.namespace] # "none"
        /\ ns' = [ns EXCEPT ![w.st.namespace] = "terminating"]
    BY <1>3, CleanupDeleteFields, CleanupDeletes, PromptFresh
  <2>2. w'.pc = "patch" /\ w'.before = w.before /\ w'.st = MarkCleaning(w.st)
    BY <1>3, CleanupDeleteFields
  <2>3. w'.st.namespace = w.st.namespace
    BY <1>1, <2>2, MarkFields
  <2>4. QED
    BY <1>1, <2>1, <2>2, <2>3
       DEF HInv, WorksHeld, NameKnown, Accounted, Busy, Unrecorded, Held
<1>4. CASE CleanupBlocked
  <2>1. /\ w.pc = "cleanup" /\ UNCHANGED <<api, cache, ns>>
        /\ GotoPatch(MarkCleanupFailed(w.st), TargetUnavailable)
    BY <1>4 DEF CleanupBlocked
  <2>2. w'.pc = "patch" /\ w'.before = w.before /\ w'.st.namespace = w.st.namespace
    BY <1>1, <2>1, GotoPatchFields, MarkFields
  <2>3. QED
    BY <2>1, <2>2, MoveHeld DEF Busy
<1>5. ASSUME w.pc \in {"patch", "patchDone"}, UNCHANGED <<cache, ns>>,
             api'.exists = api.exists, api'.finalizer = api.finalizer,
             api'.status.namespace = w.st.namespace,
             IF w.pc = "patch" THEN Finish(w.result) ELSE Goto("removeFinalizer")
      PROVE  HInv'
  <2>1. \A n \in Names : ns[n] # "none" => n = w.st.namespace
    BY <1>1, <1>5 DEF HInv, NameKnown, Accounted, Busy, Unrecorded
  <2>2. Held /\ Held'
    BY <1>5 DEF HInv, WorksHeld, Busy, Held
  <2>3. CASE w.pc = "patch"
    BY <1>5, <2>1, <2>2, <2>3, RestHeld DEF Finish, HInv, WorksHeld
  <2>4. CASE w.pc = "patchDone"
    <3>1. w'.pc = "removeFinalizer" /\ w'.st = w.st /\ w'.before = w.before
      BY <1>1, <1>5, <2>4, GotoFields
    <3>2. QED
      BY <1>5, <2>1, <2>2, <2>4, <3>1
         DEF HInv, WorksHeld, NameKnown, Accounted, Busy, Unrecorded
  <2>5. QED
    BY <1>5, <2>3, <2>4
<1>6. CASE PatchStatus
  <2>1. api' = [api EXCEPT !.status = w.st]
    BY <1>6 DEF PatchStatus
  <2>2. api'.exists = api.exists /\ api'.finalizer = api.finalizer /\ api'.status = w.st
    BY <1>1, <2>1, WriteFields
  <2>3. QED
    BY <1>5, <1>6, <2>2 DEF PatchStatus
<1>7. CASE PatchNothing
  <2>1. w.pc \in {"patch", "patchDone"} /\ w.st = w.before
    BY <1>7 DEF PatchNothing, PatchSkipped
  <2>2. w.st.namespace = api.status.namespace
    BY <2>1 DEF HInv, NameKnown, Busy
  <2>3. QED
    BY <1>5, <1>7, <2>2 DEF PatchNothing
<1>8. ~PatchFails /\ ~RemoveFinalizerFails
  BY DEF PatchFails, RemoveFinalizerFails, PromptCache, HInv, WorksHeld, Busy, Held
<1>9. CASE RemoveFinalizer
  <2>1. w.pc = "removeFinalizer" /\ UNCHANGED <<cache, ns>>
    BY <1>9 DEF RemoveFinalizer
  <2>2. \A n \in Names : ns[n] = "none"
    BY <1>1, <2>1 DEF HInv, NameKnown, Accounted, Busy, Unrecorded, IInv, CleanupHolds,
                      PromptCache, FreshNs
  <2>3. api'.exists => cache'.exists
    <3>1. CASE api' = api
      BY <2>1, <3>1 DEF HInv, WorksHeld
    <3>2. CASE api' # api
      BY <1>9, <2>1, <3>2 DEF RemoveFinalizer
    <3>3. QED
      BY <3>1, <3>2
  <2>4. CASE w.obj.deleting
    <3>1. w' = AtRest
      BY <1>9, <2>4 DEF RemoveFinalizer, AfterFinalizer, Finish
    <3>2. QED
      BY <2>1, <2>2, <2>3, <3>1, RestHeld
  <2>5. CASE ~w.obj.deleting
    <3>1. Goto("deleteLease")
      BY <1>9, <2>5 DEF RemoveFinalizer, AfterFinalizer
    <3>2. w'.pc = "deleteLease"
      BY <1>1, <3>1, GotoFields
    <3>3. QED
      BY <2>1, <2>2, <2>3, <3>2
         DEF HInv, WorksHeld, NameKnown, Accounted, Busy, Unrecorded
  <2>6. QED
    BY <2>4, <2>5
<1>10. CASE DeleteLease
  <2>1. /\ w.pc = "deleteLease" /\ w' = AtRest /\ UNCHANGED <<cache, ns>>
        /\ api' = IF api.exists THEN Deleted(api) ELSE api
    BY <1>10 DEF DeleteLease, Finish
  <2>2. /\ api'.status = api.status /\ api'.finalizer = api.finalizer
        /\ api'.exists => api.exists
        /\ api.finalizer => api'.exists = api.exists
    BY <1>1, <2>1, WriteFields
  <2>3. QED
    BY <1>1, <2>1, <2>2, RestHeld
       DEF HInv, WorksHeld, Accounted, Unrecorded, Held
<1>11. QED
  BY <1>2, <1>3, <1>4, <1>6, <1>7, <1>8, <1>9, <1>10

\* The API server, the clusters and the clock.
LEMMA ClusterKeepsHeld ==
    ASSUME IInv, HInv, PromptCache, Cluster
    PROVE  HInv'
<1>1. ns \in [Names -> {"none", "active", "terminating"}]
  BY DEF IInv
<1>2. ~Crash
  BY DEF Crash, PromptCache
<1>3. CASE CacheSync
  BY <1>3, OtherHeld DEF CacheSync, HInv, WorksHeld, Held
<1>4. CASE NamespaceSync \/ Resync \/ Tick \/ TargetLost \/ TargetBack
           \/ \E p \in Policies \cup {Nil} : PolicyChange(p)
  <2>1. UNCHANGED <<w, api, cache, ns>>
    BY <1>4 DEF NamespaceSync, Resync, Tick, TargetLost, TargetBack, PolicyChange
  <2>2. QED
    BY <2>1, OtherHeld DEF HInv, WorksHeld, Held
<1>5. CASE \E n \in Names : NamespaceGone(n) \/ NamespaceDrift(n)
  <2>1. /\ UNCHANGED <<w, api, cache>>
        /\ \A n \in Names : ns[n] = "none" => ns'[n] = "none"
    BY <1>1, <1>5 DEF NamespaceGone, NamespaceDrift
  <2>2. QED
    BY <2>1, OtherHeld DEF HInv, WorksHeld, Held
<1>6. QED
  BY <1>2, <1>3, <1>4, <1>5 DEF Cluster

\* What the clients write of the lease: neither the finalizer nor the name of
\* the Namespace; only an unprotected lease goes away at once.
LEMMA ClientWrites ==
    ASSUME IInv, Client
    PROVE  /\ UNCHANGED <<w, cache, ns>>
           /\ api'.finalizer = api.finalizer
           /\ api'.status.namespace = api.status.namespace
           /\ api'.status.ready = api.status.ready
           /\ api'.exists => api.exists
           /\ api.exists /\ api.finalizer => api'.exists
<1>1. api \in Lease /\ api.status \in LeaseStatus
  BY DEF IInv, LeaseOK, StatusOK
<1>2. CASE \E s \in Specs : EditSpec(s)
  BY <1>1, <1>2, WriteFields DEF EditSpec
<1>3. CASE Expire
  BY <1>1, <1>3, WriteFields DEF Expire
<1>4. CASE TouchStart \/ ExtendRead
  BY <1>4 DEF TouchStart, ExtendRead
<1>5. CASE TouchWrite
  <2> DEFINE st == RecordActivity(api.status, touchAt, IdleTTLFromLease(api))
  <2>1. touchAt \in Nat /\ UNCHANGED <<w, cache, ns>>
    BY <1>5 DEF TouchWrite, IInv, TimeOrNil
  <2>2. api' = api \/ api' = [api EXCEPT !.status = st]
    BY <1>5 DEF TouchWrite
  <2>3. st.namespace = api.status.namespace /\ st.ready = api.status.ready
    BY <1>1, <2>1, RecordActivityFields
  <2> HIDE DEF st
  <2>4. CASE api' = api
    BY <2>1, <2>4
  <2>5. CASE api' = [api EXCEPT !.status = st]
    <3>1. /\ api'.status = st /\ api'.exists = api.exists
          /\ api'.finalizer = api.finalizer
      BY <1>1, <2>5, WriteFields
    <3>2. QED
      BY <2>1, <2>3, <3>1
  <2>6. QED
    BY <2>2, <2>4, <2>5
<1>6. CASE ExtendWrite
  BY <1>1, <1>6, WriteFields DEF ExtendWrite
<1>7. QED
  BY <1>2, <1>3, <1>4, <1>5, <1>6 DEF Client

\* The clients.
LEMMA ClientKeepsHeld ==
    ASSUME IInv, HInv, Client
    PROVE  HInv'
<1>1. api \in Lease /\ api' \in Lease
  BY NextPreserves DEF IInv, LeaseOK, Next
<1>2. Held' = Held
  BY <1>1, ClientWrites DEF Held, Lease
<1>3. api'.exists => cache'.exists
  BY ClientWrites DEF HInv, WorksHeld
<1>4. QED
  BY <1>2, <1>3, ClientWrites, OtherHeld

-----------------------------------------------------------------------------
(* The theorems                                                            *)

\* With prompt reads, Reconcile works under the finalizer, and every
\* Namespace is the one that the status, or the worker, names.
THEOREM HeldInvariant == ASSUME PromptCache PROVE Spec => []HInv
<1>1. Init => HInv
  <2> SUFFICES ASSUME Init PROVE HInv
    OBVIOUS
  <2>1. /\ w.pc = "idle" /\ cache = api /\ \A n \in Names : ns[n] = "none"
    BY AtRestOK DEF Init
  <2>2. QED
    BY <2>1 DEF HInv, WorksHeld, NameKnown, Accounted, Busy, Unrecorded
<1>2. IInv /\ HInv /\ [Next]_vars => HInv'
  <2> SUFFICES ASSUME IInv, HInv, [Next]_vars PROVE HInv'
    OBVIOUS
  <2>1. CASE Reconcile
    BY <2>1, StartHeld, ActiveHeld, CleanupHeld DEF Reconcile
  <2>2. CASE Cluster
    BY <2>2, ClusterKeepsHeld
  <2>3. CASE Client
    BY <2>3, ClientKeepsHeld
  <2>4. CASE UNCHANGED vars
    BY <2>4, OtherHeld DEF vars, HInv, WorksHeld, Held
  <2>5. QED
    BY <2>1, <2>2, <2>3, <2>4 DEF Next
<1>3. QED
  BY <1>1, <1>2, Invariant, PTL DEF Spec

\* Only eight actions change what LeaseLifecycle sees.
LEMMA VisibleSteps ==
    ASSUME IInv, [Next]_vars,
           ~(\/ AddFinalizer \/ RemoveFinalizer \/ DeleteLease \/ Expire
             \/ CreateNamespace \/ CleanupDelete
             \/ \E n \in Names : NamespaceGone(n) \/ NamespaceDrift(n))
    PROVE  UNCHANGED ns /\ api'.exists = api.exists /\ api'.finalizer = api.finalizer
<1>1. api \in Lease
  BY DEF IInv, LeaseOK
<1>2. CASE UNCHANGED <<api, ns>>
  BY <1>2
<1>3. ASSUME UNCHANGED ns,
             \E x : \/ api' = [api EXCEPT !.status = x] \/ api' = [api EXCEPT !.spec = x]
                    \/ api' = [api EXCEPT !.spec.ttl = x]
      PROVE  UNCHANGED ns /\ api'.exists = api.exists /\ api'.finalizer = api.finalizer
  <2>1. ASSUME NEW x
        PROVE  /\ [api EXCEPT !.status = x].exists = api.exists
               /\ [api EXCEPT !.status = x].finalizer = api.finalizer
               /\ [api EXCEPT !.spec = x].exists = api.exists
               /\ [api EXCEPT !.spec = x].finalizer = api.finalizer
               /\ [api EXCEPT !.spec.ttl = x].exists = api.exists
               /\ [api EXCEPT !.spec.ttl = x].finalizer = api.finalizer
    BY <1>1 DEF Lease
  <2>2. QED
    BY <1>3, <2>1, Zenon
<1>4. CASE PersistCluster \/ PersistNamespace \/ PatchStatus
  BY <1>2, <1>3, <1>4 DEF PersistCluster, PersistNamespace, Persist, PatchStatus
<1>5. CASE Reconcile
  <2>1. UNCHANGED <<api, ns>> \/ PersistCluster \/ PersistNamespace \/ PatchStatus
    BY <1>5 DEF Reconcile, BeginGone, BeginDelete, BeginAddFinalizer,
                BeginRejected, BeginSync, Begin, Sync, CheckExpired,
                ResolveTarget, TargetError, RefreshCluster, RefreshNamespace,
                Refresh, KeepNamespace, NamespaceMissing, EnsureNamespaceFails,
                EnsureConstraints, EnsureConstraintsFails, EmitWarnings,
                BecomeReady, Schedule, CleanupDone,
                CleanupBlocked, PatchNothing, PatchFails, RemoveFinalizerFails
  <2>2. QED
    BY <1>2, <1>4, <2>1
<1>6. CASE Cluster
  BY <1>2, <1>6 DEF Cluster, CacheSync, NamespaceSync, Resync, Tick, Crash, TargetLost,
                    TargetBack, PolicyChange
<1>7. CASE Client
  <2>1. CASE \E s \in Specs : EditSpec(s)
    BY <1>3, <2>1 DEF EditSpec
  <2>2. CASE TouchStart \/ ExtendRead
    BY <2>2 DEF TouchStart, ExtendRead
  <2>3. CASE TouchWrite
    <3>1. PICK st : UNCHANGED ns /\ (api' = api \/ api' = [api EXCEPT !.status = st])
      BY <2>3 DEF TouchWrite
    <3>2. QED
      BY <1>2, <1>3, <3>1
  <2>4. CASE ExtendWrite
    BY <1>2, <1>3, <2>4 DEF ExtendWrite
  <2>5. QED
    BY <1>7, <2>1, <2>2, <2>3, <2>4 DEF Client
<1>8. CASE UNCHANGED vars
  BY <1>2, <1>8 DEF vars
<1>9. QED
  BY <1>5, <1>6, <1>7, <1>8 DEF Next

\* Every step of LeaseReconcile is a step of LeaseLifecycle or invisible there.
LEMMA StepImplements ==
    ASSUME IInv, HInv, PromptCache, [Next]_vars
    PROVE  Lifecycle!LNext \/ UNCHANGED Lifecycle!lvars
<1> USE DEF Lifecycle!LNext, Lifecycle!lvars
<1>1. /\ api \in Lease /\ w \in Worker /\ w.st.namespace \in Names \cup {Nil}
      /\ ns \in [Names -> {"none", "active", "terminating"}] /\ Nil \notin Names
  BY ConstantsAssumption DEF IInv, LeaseOK, WorkerOK, StatusOK, LeaseStatus
<1>2. CASE AddFinalizer
  <2>1. /\ w.pc = "addFinalizer" /\ UNCHANGED ns
        /\ api' = IF w.obj = api THEN [api EXCEPT !.finalizer = TRUE] ELSE api
    BY <1>2 DEF AddFinalizer
  <2>2. CASE w.obj = api /\ ~api.finalizer
    <3>1. api.exists /\ api'.exists /\ api'.finalizer
      BY <1>1, <2>1, <2>2, WriteFields DEF HInv, WorksHeld
    <3>2. Lifecycle!Protect
      BY <2>1, <2>2, <3>1 DEF Lifecycle!Protect
    <3>3. QED
      BY <3>2
  <2>3. CASE ~(w.obj = api /\ ~api.finalizer)
    <3>1. api'.exists = api.exists /\ (api'.finalizer <=> api.finalizer)
      BY <1>1, <2>1, <2>3, WriteFields
    <3>2. QED
      BY <2>1, <3>1
  <2>4. QED
    BY <2>2, <2>3
<1>3. CASE RemoveFinalizer
  <2>1. w.pc = "removeFinalizer" /\ UNCHANGED ns /\ Held
    BY <1>3 DEF RemoveFinalizer, HInv, WorksHeld, Busy
  <2>2. \A n \in Names : ns[n] = "none"
    BY <1>1, <2>1 DEF HInv, NameKnown, Accounted, Busy, Unrecorded, IInv, CleanupHolds,
                      PromptCache, FreshNs
  <2>3. api' = api \/ ~api'.exists \/ ~api'.finalizer
    <3>1. ~[api EXCEPT !.finalizer = FALSE].finalizer
      BY <1>1 DEF Lease
    <3>2. ~Removed([api EXCEPT !.finalizer = FALSE]).exists
      BY <1>1 DEF Lease, Removed
    <3>3. QED
      BY <1>3, <3>1, <3>2 DEF RemoveFinalizer
  <2>4. CASE api' = api
    BY <2>1, <2>4
  <2>5. CASE ~api'.exists \/ ~api'.finalizer
    <3>1. Lifecycle!Release
      BY <2>1, <2>2, <2>5 DEF Lifecycle!Release, Lifecycle!NothingLeft, Held
    <3>2. QED
      BY <3>1
  <2>6. QED
    BY <2>3, <2>4, <2>5
<1>4. CASE DeleteLease \/ Expire
  <2>1. UNCHANGED ns /\ api' \in {api, Deleted(api)} /\ (api' # api => api.exists)
    BY <1>4 DEF DeleteLease, Expire
  <2>2. CASE api' = api
    BY <2>1, <2>2
  <2>3. CASE api' # api /\ api.finalizer
    <3>1. api'.exists = api.exists /\ api'.finalizer = api.finalizer
      BY <1>1, <2>1, <2>3 DEF Deleted, Lease
    <3>2. QED
      BY <2>1, <3>1
  <2>4. CASE api' # api /\ ~api.finalizer
    <3>1. api.exists /\ ~api'.exists
      BY <1>1, <2>1, <2>4, WriteFields
    <3>2. Lifecycle!Drop
      BY <2>1, <2>4, <3>1 DEF Lifecycle!Drop
    <3>3. QED
      BY <3>2
  <2>5. QED
    BY <2>2, <2>3, <2>4
<1>5. CASE CreateNamespace
  <2> FreshNs
    BY PromptFresh
  <2>1. w.pc = "createNamespace" /\ UNCHANGED api
    BY <1>5 DEF CreateNamespace
  <2>2. PICK n \in Names :
           /\ w.st.namespace \in {Nil, n}
           /\ ns[n] # "terminating"
           /\ ns' = [ns EXCEPT ![n] = "active"]
    BY <1>5, EnsureFields
  <2>3. CASE ns[n] = "active"
    <3>1. ns' = ns
      BY <1>1, <2>2, <2>3
    <3>2. QED
      BY <2>1, <3>1
  <2>4. CASE ns[n] = "none"
    <3>1. Held /\ \A m \in Names : ns[m] = "none"
      BY <1>1, <2>1, <2>2, <2>4
         DEF HInv, WorksHeld, NameKnown, Accounted, Busy, Unrecorded
    <3>2. Lifecycle!Provision(n)
      BY <2>1, <2>2, <3>1 DEF Lifecycle!Provision, Lifecycle!NothingLeft, Held
    <3>3. QED
      BY <3>2
  <2>5. QED
    BY <1>1, <2>2, <2>3, <2>4
<1>6. ASSUME NEW n \in Names, ns[n] # "none", UNCHANGED api,
             \/ ns' = [ns EXCEPT ![n] = "terminating"]
             \/ ns[n] = "terminating" /\ ns' = [ns EXCEPT ![n] = "none"]
      PROVE  Lifecycle!LNext \/ UNCHANGED Lifecycle!lvars
  <2>1. CASE ns[n] = "active"
    <3>1. Lifecycle!Terminate(n)
      BY <1>6, <2>1 DEF Lifecycle!Terminate
    <3>2. QED
      BY <3>1
  <2>2. CASE ns[n] = "terminating" /\ ns' = [ns EXCEPT ![n] = "terminating"]
    <3>1. ns' = ns
      BY <1>1, <2>2
    <3>2. QED
      BY <1>6, <3>1
  <2>3. CASE ns[n] = "terminating" /\ ns' = [ns EXCEPT ![n] = "none"]
    <3>1. Lifecycle!Vanish(n)
      BY <1>6, <2>3 DEF Lifecycle!Vanish
    <3>2. QED
      BY <3>1
  <2>4. QED
    BY <1>1, <1>6, <2>1, <2>2, <2>3
<1> HIDE DEF Lifecycle!LNext, Lifecycle!lvars
<1>7. CASE CleanupDelete
  <2>1. w.st.namespace \in Names /\ UNCHANGED api
    BY <1>7, CleanupDeleteFields
  <2>2. QED
    BY <1>6, <1>7, <2>1, CleanupDeletes, PromptFresh
<1>8. CASE \E n \in Names : NamespaceGone(n) \/ NamespaceDrift(n)
  BY <1>6, <1>8 DEF NamespaceGone, NamespaceDrift
<1>9. CASE UNCHANGED ns /\ api'.exists = api.exists /\ api'.finalizer = api.finalizer
  BY <1>9 DEF Lifecycle!lvars
<1>10. QED
  BY <1>2, <1>3, <1>4, <1>5, <1>7, <1>8, <1>9, VisibleSteps

\* The controller implements LeaseLifecycle: whatever the users, the policy,
\* the target and the Namespaces do between its calls, it provisions only
\* under the finalizer and one Namespace at a time, and it releases the
\* finalizer only when nothing is left.
THEOREM LifecycleImplemented == ASSUME PromptCache PROVE Spec => ImplementsLifecycle
<1>1. Init => Lifecycle!LInit
  BY DEF Init, Lifecycle!LInit
<1>2. IInv /\ HInv /\ [Next]_vars => [Lifecycle!LNext]_(Lifecycle!lvars)
  BY StepImplements
<1>3. QED
  BY <1>1, <1>2, Invariant, HeldInvariant, PTL
     DEF Spec, ImplementsLifecycle, Lifecycle!LSpec

\* No Namespace outlives its lease: a lease that the API server has let go
\* was without the finalizer, and then nothing was left.
THEOREM NothingOrphaned == ASSUME PromptCache PROVE Spec => []NoOrphan
<1>1. HInv => NoOrphan
  BY DEF HInv, Accounted, Held, NoOrphan
<1>2. QED
  BY <1>1, HeldInvariant, PTL

\* A second ensureNamespace finds the name of the first one: two Namespaces
\* are never alive at once, generateName or not.
THEOREM NeverTwoNamespaces == ASSUME PromptCache PROVE Spec => []OneNamespace
<1>1. IInv /\ HInv => OneNamespace
  <2> SUFFICES ASSUME IInv, HInv, NEW m \in Names, NEW n \in Names,
                      ns[m] = "active", ns[n] = "active"
               PROVE  m = n
    BY DEF OneNamespace
  <2>1. \A k \in {m, n} : k = api.status.namespace \/ (Unrecorded /\ k = w.st.namespace)
    BY DEF HInv, Accounted
  <2>2. Unrecorded => w.st.namespace = api.status.namespace \/ api.status.namespace = Nil
    BY DEF HInv, NameKnown, Unrecorded, Busy
  <2>3. QED
    BY <2>1, <2>2, ConstantsAssumption
<1>2. QED
  BY <1>1, Invariant, HeldInvariant, PTL

-----------------------------------------------------------------------------
(* Ready and the Namespace.  Crashes and exhausted retries do no harm here; *)
(* what the proof needs is that the re-read after Status().Update sees it.  *)

PromptReads == "stale" \notin Features

\* A status that reports Ready names a Namespace.
ReadyNamed(st) == st.ready => st.namespace # Nil

\* After ensureNamespace.
Provisioned == {"persistNamespace", "constraints", "warn", "ready", "schedule"}

\* Past ensureNamespace the working status has a name, the stored one has it
\* when it is read again, and no copy of the status is Ready without one.
ReadyInv ==
    /\ w.pc \in Provisioned => w.st.namespace # Nil
    /\ w.pc = "refreshNamespace" => api.status.namespace # Nil
    /\ ReadyNamed(api.status) /\ ReadyNamed(cache.status)
    /\ ReadyNamed(w.st) /\ ReadyNamed(w.obj.status)

\* A step of somebody else.
LEMMA OtherReady ==
    ASSUME ReadyInv, UNCHANGED w, cache' \in {cache, api},
           api'.status.namespace = api.status.namespace,
           api'.status.ready = api.status.ready
    PROVE  ReadyInv'
BY DEF ReadyInv, ReadyNamed

\* A step of Reconcile that does not write the lease.
LEMMA MoveReady ==
    ASSUME ReadyInv, UNCHANGED <<api, cache>>, w'.obj = w.obj,
           w'.st.namespace = w.st.namespace, w'.st.ready => w.st.ready,
           w'.pc \in Provisioned => w.pc \in Provisioned, w'.pc # "refreshNamespace"
    PROVE  ReadyInv'
BY DEF ReadyInv, ReadyNamed

\* Reconcile returns.
LEMMA RestReady ==
    ASSUME ReadyInv, w' = AtRest, cache' \in {cache, api}, ReadyNamed(api'.status)
    PROVE  ReadyInv'
<1>1. w'.pc = "idle" /\ ~w'.st.ready /\ ~w'.obj.status.ready
  BY DEF AtRest, EmptyStatus
<1>2. QED
  BY <1>1 DEF ReadyInv, ReadyNamed, Provisioned

\* Reconcile starts.
LEMMA BeginReady ==
    ASSUME ReadyInv, NEW pc \in {"cleanup", "addFinalizer", "patch", "sync"}, NEW st,
           NEW resolved, Begin(pc, st, resolved), st.namespace = cache.status.namespace,
           st.ready => cache.status.ready
    PROVE  ReadyInv'
BY BeginFields DEF ReadyInv, ReadyNamed, Provisioned

LEMMA ReconcileReady ==
    ASSUME IInv, ReadyInv, PromptReads, Reconcile
    PROVE  ReadyInv'
<1>1. /\ w \in Worker /\ w.st \in LeaseStatus /\ w.obj.status \in LeaseStatus
      /\ w.resolved \in Resolved /\ api \in Lease /\ cache.status \in LeaseStatus
      /\ api.status \in LeaseStatus
  BY DEF IInv, WorkerOK, LeaseOK, StatusOK, Worker
<1>2. ASSUME NEW st, GotoPatch(st, 0) \/ \E r : GotoPatch(st, r), UNCHANGED <<api, cache>>,
             st.namespace = w.st.namespace, st.ready => w.st.ready
      PROVE  ReadyInv'
  <2>1. w'.pc = "patch" /\ w'.obj = w.obj /\ w'.st = st
    BY <1>1, <1>2, GotoPatchFields
  <2>2. QED
    BY <1>2, <2>1, MoveReady DEF Provisioned
<1>3. ASSUME NEW pc, pc \notin Provisioned \/ w.pc \in Provisioned, pc # "refreshNamespace",
             NEW st, st.namespace = w.st.namespace, st.ready => w.st.ready,
             GotoWith(pc, st) \/ Goto(pc), UNCHANGED <<api, cache>>
      PROVE  ReadyInv'
  <2>1. /\ w'.pc = pc /\ w'.obj = w.obj
        /\ w'.st.namespace = w.st.namespace
        /\ w'.st.ready => w.st.ready
    BY <1>1, <1>3, GotoFields, GotoWithFields
  <2>2. QED
    BY <1>3, <2>1, MoveReady
<1>4. ASSUME NEW next \in {"refreshCluster", "refreshNamespace"}, NEW pc, Persist(pc, next),
             next = "refreshNamespace" => pc = "persistNamespace"
      PROVE  ReadyInv'
  <2>1. CASE w.obj = api
    <3>1. w.pc = pc /\ api' = [api EXCEPT !.status = w.st] /\ Goto(next) /\ UNCHANGED cache
      BY <1>4, <2>1 DEF Persist
    <3>2. w'.pc = next /\ w'.st = w.st /\ w'.obj = w.obj /\ api'.status = w.st
      BY <1>1, <3>1, GotoFields, WriteFields
    <3>3. QED
      BY <1>4, <3>1, <3>2 DEF ReadyInv, ReadyNamed, Provisioned
  <2>2. CASE w.obj # api
    BY <1>2, <1>4, <2>2 DEF Persist
  <2>3. QED
    BY <2>1, <2>2
<1>5. ASSUME NEW next \in {"ensureNamespace", "constraints"}, NEW pc, NEW st,
             Refresh(pc, next, st), next = "constraints" => pc = "refreshNamespace",
             st.namespace = cache.status.namespace, st.ready => cache.status.ready
      PROVE  ReadyInv'
  <2>1. w.pc = pc /\ cache = api /\ UNCHANGED <<api, cache>>
    BY <1>5 DEF Refresh, CanRead, PromptReads
  <2>2. w'.pc = next /\ w'.st = st /\ w'.obj = cache
    BY <1>1, <1>5, RefreshFields
  <2>3. QED
    BY <1>5, <2>1, <2>2 DEF ReadyInv, ReadyNamed, Provisioned
<1>6. \A st \in LeaseStatus : /\ StartProvisioning(st).namespace = st.namespace
                              /\ StartProvisioning(st).ready => st.ready
  BY MarkFields DEF StartProvisioning
<1>7. CASE BeginGone
  BY <1>7, OtherReady DEF BeginGone
<1>8. CASE BeginDelete
  <2> DEFINE r == IF cache.status.expirationReason = "SourceClosed"
                  THEN "SourceClosed" ELSE "ManualExpiration"
             s == [cache.status EXCEPT !.expirationReason = r]
  <2>1. r \in ExpirationReasons
    BY DEF ExpirationReasons
  <2>2. Begin("cleanup", MarkCleaning(s), Unresolved)
    BY <1>8 DEF BeginDelete
  <2> HIDE DEF r
  <2>3. s \in LeaseStatus /\ s.namespace = cache.status.namespace
    BY <1>1, <2>1 DEF LeaseStatus
  <2> HIDE DEF s
  <2>4. MarkCleaning(s).namespace = cache.status.namespace /\ ~MarkCleaning(s).ready
    BY <2>3, MarkFields
  <2>5. QED
    BY <2>2, <2>4, BeginReady
<1>9. CASE BeginAddFinalizer \/ BeginSync
  BY <1>9, BeginReady DEF BeginAddFinalizer, BeginSync
<1>10. CASE BeginRejected
  BY <1>1, <1>10, BeginReady, MarkFields DEF BeginRejected
<1>11. CASE AddFinalizer
  <2>1. api'.status = api.status
    BY <1>1, <1>11, WriteFields DEF AddFinalizer
  <2>2. QED
    BY <1>11, <2>1, RestReady DEF AddFinalizer, Finish, ReadyInv
<1>12. CASE Sync
  <2> DEFINE st == Synced(w.obj.status, w.resolved, now)
  <2>1. st.namespace = w.obj.status.namespace /\ st.ready = w.obj.status.ready
    BY <1>1, SyncedFields
  <2>2. GotoWith("check", st) /\ UNCHANGED <<api, cache>>
    BY <1>12 DEF Sync
  <2> HIDE DEF st
  <2>3. w'.pc = "check" /\ w'.st = st /\ w'.obj = w.obj
    BY <1>1, <2>2, GotoWithFields
  <2>4. QED
    BY <2>1, <2>2, <2>3 DEF ReadyInv, ReadyNamed, Provisioned
<1>13. CASE CheckExpired
  <2>1. PICK r : GotoWith("cleanup", MarkExpired(w.st, r)) \/ Goto("target")
    BY <1>13 DEF CheckExpired
  <2>2. MarkExpired(w.st, r).namespace = w.st.namespace /\ ~MarkExpired(w.st, r).ready
    BY <1>1, MarkFields
  <2>3. "cleanup" \notin Provisioned /\ "target" \notin Provisioned
    BY DEF Provisioned
  <2>4. QED
    BY <1>3, <1>13, <2>1, <2>2, <2>3 DEF CheckExpired
<1>14. CASE ResolveTarget
  <2>1. Goto("persistCluster") \/ GotoWith("ensureNamespace", StartProvisioning(w.st))
    BY <1>14 DEF ResolveTarget
  <2>2. "persistCluster" \notin Provisioned /\ "ensureNamespace" \notin Provisioned
    BY DEF Provisioned
  <2>3. QED
    BY <1>1, <1>3, <1>6, <1>14, <2>1, <2>2 DEF ResolveTarget
<1>15. MarkFailed(w.st).namespace = w.st.namespace /\ ~MarkFailed(w.st).ready
  BY <1>1, MarkFields
<1>16. CASE TargetError \/ EnsureNamespaceFails \/ EnsureConstraintsFails
  BY <1>2, <1>15, <1>16 DEF TargetError, EnsureNamespaceFails, EnsureConstraintsFails
<1>17. CASE PersistCluster \/ PersistNamespace
  BY <1>4, <1>17 DEF PersistCluster, PersistNamespace
<1>18. LET e == [cache.status EXCEPT !.effective = w.resolved]
       IN  /\ e \in LeaseStatus /\ e.namespace = cache.status.namespace
           /\ e.ready = cache.status.ready
  BY <1>1 DEF LeaseStatus
<1>19. CASE RefreshCluster
  BY <1>5, <1>6, <1>18, <1>19 DEF RefreshCluster
<1>20. CASE RefreshNamespace
  BY <1>5, <1>18, <1>20 DEF RefreshNamespace
<1>21. CASE KeepNamespace \/ CreateNamespace
  <2> FreshNs
    BY DEF FreshNs, PromptReads
  <2>1. UNCHANGED <<api, cache>>
    BY <1>21, EnsureFields
  <2>2. PICK n \in Names :
           /\ w'.st = [w.st EXCEPT !.namespace = n] /\ w'.st.namespace = n
           /\ w'.pc = IF w.st.namespace = n THEN "constraints" ELSE "persistNamespace"
           /\ w'.obj = w.obj
    BY <1>21, EnsureFields
  <2>3. QED
    BY <2>1, <2>2, ConstantsAssumption DEF ReadyInv, ReadyNamed, Provisioned
<1>21b. CASE NamespaceMissing
  BY <1>3, <1>21b DEF NamespaceMissing, Provisioned
<1>22. CASE EnsureConstraints
  BY <1>3, <1>22 DEF EnsureConstraints, Provisioned
<1>23. CASE EmitWarnings
  <2>1. \A d : /\ [w.st EXCEPT !.warningsDelivered = d].namespace = w.st.namespace
               /\ [w.st EXCEPT !.warningsDelivered = d].ready = w.st.ready
    BY <1>1 DEF LeaseStatus
  <2>2. PICK st : /\ GotoWith("ready", st) /\ st.namespace = w.st.namespace
                  /\ st.ready = w.st.ready
    BY <1>23, <2>1 DEF EmitWarnings
  <2>3. QED
    BY <1>3, <1>23, <2>2 DEF EmitWarnings, Provisioned
<1>24. CASE BecomeReady
  <2>1. PICK e : GotoWith("schedule", MarkReady(w.st, e))
    BY <1>24 DEF BecomeReady
  <2>2. /\ w'.pc = "schedule" /\ w'.obj = w.obj
        /\ w'.st.namespace = w.st.namespace
    BY <1>1, <2>1, GotoWithFields, MarkFields
  <2>3. QED
    BY <1>24, <2>2 DEF BecomeReady, ReadyInv, ReadyNamed, Provisioned
<1>25. CASE Schedule
  <2>1. PICK result : GotoPatch(w.st, result)
    BY <1>25 DEF Schedule
  <2>2. QED
    BY <1>2, <1>25, <2>1 DEF Schedule
<1>26. CASE CleanupDone
  <2>1. GotoWith("patchDone", MarkCleanupComplete(w.st)) /\ UNCHANGED <<api, cache>>
    BY <1>26 DEF CleanupDone
  <2>2. /\ MarkCleanupComplete(w.st).namespace = w.st.namespace
        /\ MarkCleanupComplete(w.st).ready = w.st.ready
    BY <1>1, MarkFields
  <2>3. "patchDone" \notin Provisioned
    BY DEF Provisioned
  <2>4. QED
    BY <1>3, <2>1, <2>2, <2>3
<1>27. CASE CleanupDelete
  <2>1. w'.pc = "patch" /\ w'.obj = w.obj /\ w'.st = MarkCleaning(w.st)
    BY <1>27, CleanupDeleteFields
  <2>2. QED
    BY <1>1, <1>27, <2>1, MoveReady, MarkFields DEF CleanupDelete, Provisioned
<1>28. CASE CleanupBlocked
  BY <1>1, <1>2, <1>28, MarkFields DEF CleanupBlocked
<1>29. ASSUME w.pc \in {"patch", "patchDone"}, UNCHANGED cache, ReadyNamed(api'.status),
              IF w.pc = "patch" THEN Finish(w.result) ELSE Goto("removeFinalizer")
       PROVE  ReadyInv'
  <2>1. CASE w.pc = "patch"
    BY <1>29, <2>1, RestReady DEF Finish
  <2>2. CASE w.pc = "patchDone"
    <3>1. w'.pc = "removeFinalizer" /\ w'.st = w.st /\ w'.obj = w.obj
      BY <1>1, <1>29, <2>2, GotoFields
    <3>2. QED
      BY <1>29, <3>1 DEF ReadyInv, Provisioned
  <2>3. QED
    BY <1>29, <2>1, <2>2
<1>30. CASE PatchStatus
  <2>1. api'.status = w.st
    BY <1>1, <1>30, WriteFields DEF PatchStatus
  <2>2. QED
    BY <1>29, <1>30, <2>1 DEF PatchStatus, ReadyInv
<1>31. CASE PatchNothing
  BY <1>29, <1>31 DEF PatchNothing, ReadyInv
<1>32. CASE PatchFails \/ RemoveFinalizerFails
  BY <1>32, RestReady DEF PatchFails, RemoveFinalizerFails, Finish, ReadyInv
<1>33. CASE RemoveFinalizer
  <2>1. api'.status = api.status /\ UNCHANGED cache
    <3>1. [api EXCEPT !.finalizer = FALSE].status = api.status
      BY <1>1 DEF Lease
    <3>2. Removed([api EXCEPT !.finalizer = FALSE]).status = api.status
      BY <1>1 DEF Lease, Removed
    <3>3. QED
      BY <1>33, <3>1, <3>2 DEF RemoveFinalizer
  <2>2. CASE Finish(Nil)
    BY <2>1, <2>2, RestReady DEF Finish, ReadyInv
  <2>3. CASE Goto("deleteLease")
    <3>1. w'.pc = "deleteLease" /\ w'.st = w.st /\ w'.obj = w.obj
      BY <1>1, <2>3, GotoFields
    <3>2. QED
      BY <2>1, <3>1 DEF ReadyInv, Provisioned
  <2>4. QED
    BY <1>33, <2>2, <2>3 DEF RemoveFinalizer, AfterFinalizer
<1>34. CASE DeleteLease
  <2>1. api'.status = api.status
    BY <1>1, <1>34, WriteFields DEF DeleteLease
  <2>2. QED
    BY <1>34, <2>1, RestReady DEF DeleteLease, Finish, ReadyInv
<1>35. QED
  BY <1>7, <1>8, <1>9, <1>10, <1>11, <1>12, <1>13, <1>14, <1>16, <1>17, <1>19, <1>20,
     <1>21, <1>21b, <1>22, <1>23, <1>24, <1>25, <1>26, <1>27, <1>28, <1>30, <1>31, <1>32,
     <1>33, <1>34 DEF Reconcile

\* A lease that reports Ready says where its environment is: MarkReady comes
\* after the re-read of the persisted name, and nobody erases a name.
THEOREM ReadyIsNamed == ASSUME PromptReads PROVE Spec => []ReadyHasNamespace
<1>1. Init => ReadyInv
  <2> SUFFICES ASSUME Init PROVE ReadyInv
    OBVIOUS
  <2>1. w.pc = "idle" /\ ~w.st.ready /\ ~w.obj.status.ready
    BY DEF Init, AtRest, EmptyStatus
  <2>2. api.status = EmptyStatus /\ cache.status = EmptyStatus
    BY DEF Init
  <2>3. ~EmptyStatus.ready
    BY DEF EmptyStatus
  <2>4. QED
    BY <2>1, <2>2, <2>3 DEF ReadyInv, ReadyNamed, Provisioned
<1>2. IInv /\ ReadyInv /\ [Next]_vars => ReadyInv'
  <2> SUFFICES ASSUME IInv, ReadyInv, [Next]_vars PROVE ReadyInv'
    OBVIOUS
  <2>1. CASE Reconcile
    BY <2>1, ReconcileReady
  <2>2. CASE Crash
    BY <2>2, RestReady DEF Crash, ReadyInv
  <2>3. CASE Cluster /\ ~Crash
    <3>1. UNCHANGED <<w, api>> /\ cache' \in {cache, api}
      BY <2>3 DEF Cluster, CacheSync, NamespaceSync, Resync, Tick, TargetLost, TargetBack,
                  PolicyChange, NamespaceGone, NamespaceDrift
    <3>2. QED
      BY <3>1, OtherReady
  <2>4. CASE Client
    BY <2>4, ClientWrites, OtherReady
  <2>5. CASE UNCHANGED vars
    BY <2>5, OtherReady DEF vars
  <2>6. QED
    BY <2>1, <2>2, <2>3, <2>4, <2>5 DEF Next
<1>3. ReadyInv => ReadyHasNamespace
  BY DEF ReadyInv, ReadyNamed, ReadyHasNamespace
<1>4. QED
  BY <1>1, <1>2, <1>3, Invariant, PTL DEF Spec
=============================================================================
