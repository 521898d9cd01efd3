--------------------------- MODULE LeaseReconcile ---------------------------
(***************************************************************************)
(* The EnvironmentLease controller (internal/controller) working on one    *)
(* lease, beside the clients that write the same object: the CLI, the      *)
(* source webhook and kubectl.                                             *)
(*                                                                         *)
(* Shared state is the lease object in the API server (api), the managed   *)
(* Namespaces (ns), the copies of both in the manager's informers (cache,  *)
(* nsCache) and the clock.  The worker (w) runs Reconcile one API call or  *)
(* clock reading at a time; every other action may happen in between.      *)
(*                                                                         *)
(* resourceVersion is not a counter here.  An optimistic write conflicts   *)
(* exactly when the object it was prepared from differs from the stored    *)
(* one; a write that changes nothing does not change resourceVersion.      *)
(***************************************************************************)
EXTENDS PolicyResolve

CONSTANTS
    Names,              \* names a managed Namespace can get
    FixedName,          \* spec.namespace.name, or Nil for generateName
    Specs,              \* the lease specs users apply
    Policies,           \* the specs the EnvironmentLeasePolicy can have
    Warnings,           \* spec.warnings, as durations
    CreationTimestamp,  \* metadata.creationTimestamp
    Horizon,            \* bound: the clock stops here
    ExtendBy,           \* the duration "extend --for" is called with
    Remote,             \* the lease runs on a ClusterTarget, not locally
    RemoteDrift,        \* remoteDriftRequeue
    TargetUnavailable,  \* targetUnavailableAfter
    CleanupRequeue,     \* cleanupRequeueAfter
    BestEffort,         \* cleanupPolicy.mode = BestEffort
    Features,           \* the clients and faults of this instance
    MaxFaults           \* bound: crashes, failed calls and target outages

ASSUME ConstantsAssumption ==
    /\ FixedName \in Names \cup {Nil}
    /\ Nil \notin Names
    /\ Specs # {}
    /\ Specs \subseteq LeaseSpec
    /\ Policies # {}
    /\ Policies \subseteq Policy
    /\ Nil \notin Policies
    /\ Warnings \subseteq Nat \ {0}
    /\ {CreationTimestamp, Horizon, ExtendBy, MaxFaults} \subseteq Nat
    /\ {RemoteDrift, TargetUnavailable, CleanupRequeue} \subseteq Nat \ {0}
    /\ {Remote, BestEffort} \subseteq BOOLEAN

VARIABLES
    now,        \* the wall clock
    api,        \* the lease in the API server
    cache,      \* the lease in the controller's informer cache
    ns,         \* the life cycle of each Namespace
    nsCache,    \* the Namespaces in the manager's informer cache (local only)
    policy,     \* the EnvironmentLeasePolicy of policyRef, Nil if there is none
    targetUp,   \* can the ClusterTarget be resolved and reached
    w,          \* the controller's worker
    wake,       \* the time at which the work queue holds the lease, or Nil
    touchAt,    \* the time a running "touch" read at its start, or Nil
    extendTo,   \* the ttl a running "extend" is about to patch in, or Nil
    faults      \* faults so far

vars == <<now, api, cache, ns, nsCache, policy, targetUp, w, wake, touchAt, extendTo,
          faults>>

environment == <<nsCache, policy, targetUp, faults>>
clients == <<touchAt, extendTo>>

-----------------------------------------------------------------------------
(* Lease objects                                                           *)

Phases == {"", "Provisioning", "Active", "Expiring", "Cleaning", "Expired", "Failed"}

\* effective is status.effective, what the controller resolved last;
\* ready is the Ready condition.  observedGeneration and the other conditions
\* are written and never read back.
LeaseStatus ==
    [phase: Phases, ready: BOOLEAN, namespace: Names \cup {Nil},
     effective: Resolved \cup {Nil},
     createdAt: TimeOrNil, expiresAt: Int \cup {Nil},
     maximumExpiresAt: Int \cup {Nil}, lastActivityAt: TimeOrNil,
     idleExpiresAt: Int \cup {Nil}, effectiveExpiresAt: Int \cup {Nil},
     expirationReason: ExpirationReasons, warningsDelivered: SUBSET Warnings]

EmptyStatus ==
    [phase |-> "", ready |-> FALSE, namespace |-> Nil, effective |-> Nil,
     createdAt |-> Nil, expiresAt |-> Nil, maximumExpiresAt |-> Nil,
     lastActivityAt |-> Nil, idleExpiresAt |-> Nil, effectiveExpiresAt |-> Nil,
     expirationReason |-> "", warningsDelivered |-> {}]

Lease == [exists: BOOLEAN, deleting: BOOLEAN, finalizer: BOOLEAN,
          spec: LeaseSpec, status: LeaseStatus]

\* What remains of a lease that the API server has removed.
Removed(lease) == [lease EXCEPT !.exists = FALSE]

\* Delete: at once without a finalizer, else only the deletionTimestamp.
Deleted(lease) == IF lease.finalizer THEN [lease EXCEPT !.deleting = TRUE]
                  ELSE Removed(lease)

-----------------------------------------------------------------------------
(* lease/conditions.go, as far as phase and Ready go                       *)

MarkProvisioning(st) == [st EXCEPT !.phase = "Provisioning", !.ready = FALSE]
MarkReady(st, expiring) ==
    [st EXCEPT !.phase = IF expiring THEN "Expiring" ELSE "Active", !.ready = TRUE]
MarkFailed(st) == [st EXCEPT !.phase = "Failed", !.ready = FALSE]
MarkExpired(st, reason) ==
    [st EXCEPT !.expirationReason = IF reason = "" THEN "TTLExpired" ELSE reason,
               !.phase = "Expiring", !.ready = FALSE]
MarkCleaning(st) == [st EXCEPT !.phase = "Cleaning", !.ready = FALSE]
MarkCleanupFailed(st) == [st EXCEPT !.phase = "Cleaning"]
MarkCleanupComplete(st) == [st EXCEPT !.phase = "Expired"]

-----------------------------------------------------------------------------
(* The worker                                                              *)

PCs == {"idle", "addFinalizer", "sync", "check", "target", "persistCluster",
        "refreshCluster", "ensureNamespace", "createNamespace",
        "persistNamespace", "refreshNamespace", "constraints", "warn", "ready", "schedule",
        "cleanup", "patch", "patchDone", "removeFinalizer", "deleteLease"}

\* obj is the lease as last read (and the base of optimistic writes), st the
\* status under construction, before the status at the start of Reconcile,
\* resolved what policy.Resolve returned, if it got that far.
\* result is what Reconcile will return: Nil for no requeue, 0 for an error
\* or Requeue (rate limited), n > 0 for RequeueAfter n.
Worker == [pc: PCs, obj: Lease, st: LeaseStatus, before: LeaseStatus,
           resolved: Resolved, result: Nat \cup {Nil}]

AnySpec == CHOOSE s \in Specs : TRUE

Unresolved == [ttl |-> 0, maxTTL |-> 0, idleTTL |-> 0, renewable |-> TRUE,
               defaultDeny |-> FALSE]

\* A worker at rest carries nothing over to its next Reconcile.
AtRest ==
    [pc |-> "idle",
     obj |-> [exists |-> FALSE, deleting |-> FALSE, finalizer |-> FALSE,
              spec |-> AnySpec, status |-> EmptyStatus],
     st |-> EmptyStatus, before |-> EmptyStatus, resolved |-> Unresolved,
     result |-> Nil]

\* Whether a cached read may return an older object than the stored one.
CanRead == "stale" \in Features \/ cache = api

\* A Namespace as the session's client reads it: through the manager's cached
\* client for a local lease, from the target itself for a remote one.
SeenNs(n) == IF Remote THEN ns[n] ELSE nsCache[n]
CanReadNs == Remote \/ "stale" \in Features \/ nsCache = ns

\* Calls to the cluster the lease runs on get through.
Reachable == ~Remote \/ targetUp

-----------------------------------------------------------------------------
(* The work queue (controller-runtime's priority queue holds one entry per *)
(* key; the earliest time asked for wins, and taking the entry drops it).  *)

QueuedAt(t) == IF wake = Nil THEN t ELSE Lesser(wake, t)

\* A delay that ends past the horizon ends at the horizon.
After(d) == Lesser(now + d, Horizon)

\* Reconcile returns: nothing, or another round after the delay.
Requeue(result) ==
    wake' = IF result = Nil THEN wake ELSE QueuedAt(After(result))

Finish(result) == w' = AtRest /\ Requeue(result)

Goto(pc) == w' = [w EXCEPT !.pc = pc] /\ UNCHANGED wake
GotoWith(pc, st) == w' = [w EXCEPT !.pc = pc, !.st = st] /\ UNCHANGED wake
GotoPatch(st, result) ==
    w' = [w EXCEPT !.pc = "patch", !.st = st, !.result = result] /\ UNCHANGED wake

-----------------------------------------------------------------------------
(* What Reconcile derives from the spec and the policy                     *)

\* The policy is missing, or the spec is invalid or violates it.
Rejected(spec) == ~(policy # Nil /\ Accepted(spec, policy))

\* The status after EnsureTimestamps and SyncExpirationStatus.
Synced(status, resolved, t) ==
    SyncExpirationStatus(
        EnsureTimestamps([status EXCEPT !.effective = resolved], CreationTimestamp,
                         resolved.ttl, resolved.maxTTL, resolved.renewable),
        resolved.idleTTL, t)

-----------------------------------------------------------------------------
(* Reconcile: the start                                                    *)

\* Take the lease off the queue and Get it from the cache.
Begin(pc, st, resolved) ==
    /\ w.pc = "idle"
    /\ wake # Nil /\ wake <= now
    /\ CanRead
    /\ wake' = Nil
    /\ w' = [pc |-> pc, obj |-> cache, st |-> st, before |-> cache.status,
             resolved |-> resolved, result |-> Nil]
    /\ UNCHANGED <<now, api, cache, ns, environment, clients>>

BeginGone ==
    /\ w.pc = "idle"
    /\ wake # Nil /\ wake <= now
    /\ CanRead
    /\ ~cache.exists \/ (cache.deleting /\ ~cache.finalizer)
    /\ wake' = Nil
    /\ UNCHANGED <<now, api, cache, ns, w, environment, clients>>

\* reconcileDelete: SourceClosed is kept, every other reason is replaced.
BeginDelete ==
    /\ cache.exists /\ cache.deleting /\ cache.finalizer
    /\ Begin("cleanup",
             MarkCleaning([cache.status EXCEPT !.expirationReason =
                 IF @ = "SourceClosed" THEN @ ELSE "ManualExpiration"]),
             Unresolved)

BeginAddFinalizer ==
    /\ cache.exists /\ ~cache.deleting /\ ~cache.finalizer
    /\ Begin("addFinalizer", cache.status, Unresolved)

\* Invalid spec, missing policy or policy violation: Failed, no requeue.
BeginRejected ==
    /\ cache.exists /\ ~cache.deleting /\ cache.finalizer
    /\ Rejected(cache.spec)
    /\ Begin("patch", MarkFailed(cache.status), Unresolved)

\* Mutant: a deleted lease is still provisioned.
MutantBeginSyncDeleted ==
    /\ cache.exists /\ cache.finalizer
    /\ ~Rejected(cache.spec)
    /\ Begin("sync", cache.status, Resolve(cache.spec, policy))

\* Mutant: provisioning does not wait for the finalizer.
MutantBeginSyncUnprotected ==
    /\ cache.exists /\ ~cache.deleting
    /\ ~Rejected(cache.spec)
    /\ Begin("sync", cache.status, Resolve(cache.spec, policy))

BeginSync ==
    /\ cache.exists /\ ~cache.deleting /\ cache.finalizer
    /\ ~Rejected(cache.spec)
    /\ Begin("sync", cache.status, Resolve(cache.spec, policy))

\* Update with the finalizer; a conflict is an error.  Both requeue.
AddFinalizer ==
    /\ w.pc = "addFinalizer"
    /\ api' = IF w.obj = api THEN [api EXCEPT !.finalizer = TRUE] ELSE api
    /\ Finish(0)
    /\ UNCHANGED <<now, cache, ns, environment, clients>>

Sync ==
    /\ w.pc = "sync"
    /\ GotoWith("check", Synced(w.obj.status, w.resolved, now))
    /\ UNCHANGED <<now, api, cache, ns, environment, clients>>

\* Mutant: the deadline is compared one second early.
MutantCheckExpired ==
    /\ w.pc = "check"
    /\ IF IsExpired(w.st, now + 1)
       THEN GotoWith("cleanup", MarkExpired(w.st, w.st.expirationReason))
       ELSE Goto("target")
    /\ UNCHANGED <<now, api, cache, ns, environment, clients>>

\* IsExpired reads the clock again; so does the reason of reconcileExpired.
CheckExpired ==
    /\ w.pc = "check"
    /\ IF IsExpired(w.st, now)
       THEN GotoWith("cleanup", MarkExpired(w.st,
                IF w.st.expirationReason # "" THEN w.st.expirationReason
                ELSE ResolveExpirationReason(now, w.st.expiresAt, w.st.idleExpiresAt)))
       ELSE Goto("target")
    /\ UNCHANGED <<now, api, cache, ns, environment, clients>>

-----------------------------------------------------------------------------
(* reconcileActive                                                         *)

\* Avoid the Failed/Provisioning flap.
StartProvisioning(st) ==
    IF ~w.before.ready /\ st.phase # "Failed" THEN MarkProvisioning(st) ELSE st

\* The status is persisted before the first provisioning.
FirstProvision ==
    /\ w.before.phase \notin {"Active", "Expiring"}
    /\ w.st.namespace = Nil

\* A target whose identity is on record resolves also when it is down.
ResolveTarget ==
    /\ w.pc = "target"
    /\ IF FirstProvision THEN Goto("persistCluster")
       ELSE GotoWith("ensureNamespace", StartProvisioning(w.st))
    /\ UNCHANGED <<now, api, cache, ns, environment, clients>>

\* handleTargetError (the identity of the target is not known and cannot be
\* asked for), or its shared outage window, which leaves the phase alone.
TargetError ==
    /\ w.pc = "target"
    /\ Remote /\ ~targetUp
    /\ \E st \in {w.st, MarkFailed(w.st)} :
          GotoPatch(st, TargetUnavailable)
    /\ UNCHANGED <<now, api, cache, ns, environment, clients>>

\* Mutant: a conflict ends Reconcile at once.
MutantPersist(pc, next) ==
    /\ w.pc = pc
    /\ IF w.obj = api
       THEN /\ api' = [api EXCEPT !.status = w.st]
            /\ Goto(next)
       ELSE /\ Finish(0)
            /\ UNCHANGED api
    /\ UNCHANGED <<now, cache, ns, environment, clients>>

\* Status().Update of the whole working status; a conflict is an error that
\* still reaches patchStatusIfChanged.
Persist(pc, next) ==
    /\ w.pc = pc
    /\ IF w.obj = api
       THEN /\ api' = [api EXCEPT !.status = w.st]
            /\ Goto(next)
       ELSE /\ GotoPatch(w.st, 0)
            /\ UNCHANGED api
    /\ UNCHANGED <<now, cache, ns, environment, clients>>

\* The Get after it reads the cache and replaces the working object.  It finds
\* the lease: only this worker removes the finalizer of what it just wrote.
Refresh(pc, next, st) ==
    /\ w.pc = pc
    /\ CanRead
    /\ w' = [w EXCEPT !.pc = next, !.obj = cache, !.st = st]
    /\ UNCHANGED <<now, api, cache, ns, wake, environment, clients>>

PersistCluster == Persist("persistCluster", "refreshCluster")

RefreshCluster ==
    Refresh("refreshCluster", "ensureNamespace",
            StartProvisioning([cache.status EXCEPT !.effective = w.resolved]))

\* Mutant: the name recorded in the status is not looked at.
MutantNamespaceCandidates ==
    IF FixedName # Nil THEN {FixedName} ELSE {n \in Names : ns[n] = "none"}

\* The name ensureNamespace works with; generateName picks an unused one.
NamespaceCandidates ==
    IF w.st.namespace # Nil THEN {w.st.namespace}
    ELSE IF FixedName # Nil THEN {FixedName}
    ELSE {n \in Names : ns[n] = "none"}

NameIsKnown == w.st.namespace # Nil \/ FixedName # Nil

\* ensureNamespace returns the name; a new one is persisted at once.
UseNamespace(n) ==
    w' = [w EXCEPT !.st.namespace = n,
                   !.pc = IF w.st.namespace = n THEN "constraints" ELSE "persistNamespace"]

\* The Get finds the Namespace: keep it.
KeepNamespace ==
    /\ w.pc = "ensureNamespace"
    /\ Reachable /\ NameIsKnown /\ CanReadNs
    /\ \E n \in NamespaceCandidates : SeenNs(n) = "active" /\ UseNamespace(n)
    /\ UNCHANGED <<now, api, cache, ns, wake, environment, clients>>

\* The Get finds nothing; with generateName there is no Get.
NamespaceMissing ==
    /\ w.pc = "ensureNamespace"
    /\ Reachable
    /\ \/ ~NameIsKnown
       \/ CanReadNs /\ \E n \in NamespaceCandidates : SeenNs(n) = "none"
    /\ Goto("createNamespace")
    /\ UNCHANGED <<now, api, cache, ns, environment, clients>>

CreateNamespace ==
    /\ w.pc = "createNamespace"
    /\ Reachable
    /\ \E n \in NamespaceCandidates :
          /\ ns[n] = "none"
          /\ ns' = [ns EXCEPT ![n] = "active"]
          /\ UseNamespace(n)
    /\ UNCHANGED <<now, api, cache, wake, environment, clients>>

\* "namespace is terminating; waiting", a Create of a Namespace that the Get
\* did not see, or the target is down.
EnsureNamespaceFails ==
    /\ \/ w.pc \in {"ensureNamespace", "createNamespace"} /\ ~Reachable
       \/ /\ w.pc = "ensureNamespace"
          /\ NameIsKnown /\ CanReadNs
          /\ \E n \in NamespaceCandidates : SeenNs(n) = "terminating"
       \/ /\ w.pc = "createNamespace"
          /\ \E n \in NamespaceCandidates : ns[n] # "none"
    /\ GotoPatch(MarkFailed(w.st), 0)
    /\ UNCHANGED <<now, api, cache, ns, environment, clients>>

PersistNamespace == Persist("persistNamespace", "refreshNamespace")

\* Mutant: the status from the start of Reconcile is carried on.
MutantRefreshNamespace ==
    Refresh("refreshNamespace", "constraints",
            [w.before EXCEPT !.effective = w.resolved])

RefreshNamespace ==
    Refresh("refreshNamespace", "constraints",
            [cache.status EXCEPT !.effective = w.resolved])

\* ResourceQuota, LimitRange and NetworkPolicy.
EnsureConstraints ==
    /\ w.pc = "constraints"
    /\ Reachable
    /\ Goto("warn")
    /\ UNCHANGED <<now, api, cache, ns, environment, clients>>

\* One of the three calls fails, for instance in a terminating Namespace or
\* in one that only the informer still has.
EnsureConstraintsFails ==
    /\ w.pc = "constraints"
    /\ \/ /\ \/ ~Reachable
             \/ \E n \in Names : ns[n] = "terminating"
             \/ w.st.namespace # Nil /\ ns[w.st.namespace] = "none"
          /\ UNCHANGED faults
       \/ /\ "fail" \in Features /\ faults < MaxFaults
          /\ faults' = faults + 1
    /\ GotoPatch(MarkFailed(w.st), 0)
    /\ UNCHANGED <<now, api, cache, ns, nsCache, policy, targetUp, clients>>

EmitWarnings ==
    /\ w.pc = "warn"
    /\ LET deadline == EffectiveDeadline(w.st)
       IN  GotoWith("ready",
               IF deadline = Nil THEN w.st
               ELSE [w.st EXCEPT !.warningsDelivered =
                        @ \cup PendingWarnings(now, deadline, Warnings, @)])
    /\ UNCHANGED <<now, api, cache, ns, environment, clients>>

BecomeReady ==
    /\ w.pc = "ready"
    /\ GotoWith("schedule", MarkReady(w.st, IsExpiringWindow(w.st, Warnings, now)))
    /\ UNCHANGED <<now, api, cache, ns, environment, clients>>

\* Mutant: remote leases are not polled for drift.
MutantResultAfter(until) == IF until = 0 THEN Nil ELSE until

\* RequeueAfter: 0 is a Result that asks for no requeue.
ResultAfter(until) ==
    IF Remote /\ (until = 0 \/ until > RemoteDrift) THEN RemoteDrift
    ELSE IF until = 0 THEN Nil
    ELSE until

Schedule ==
    /\ w.pc = "schedule"
    /\ LET deadline == EffectiveDeadline(w.st)
           until == IF deadline = Nil THEN 0
                    ELSE NextReconcileAfter(now, deadline, Warnings,
                                            w.st.warningsDelivered)
       IN  GotoPatch(w.st, ResultAfter(until))
    /\ UNCHANGED <<now, api, cache, ns, environment, clients>>

-----------------------------------------------------------------------------
(* reconcileExpired and reconcileDelete                                    *)

\* Mutant: a terminating Namespace counts as gone.
MutantCleanupDone ==
    /\ w.pc = "cleanup"
    /\ \/ w.st.namespace = Nil
       \/ /\ w.st.namespace # Nil
          /\ Reachable /\ CanReadNs
          /\ SeenNs(w.st.namespace) # "active"
    /\ GotoWith("patchDone", MarkCleanupComplete(w.st))
    /\ UNCHANGED <<now, api, cache, ns, environment, clients>>

\* cleanupEnvironment has no Namespace to delete, the Get finds it gone, or
\* the target cannot be resolved or read and BestEffort gives up.
CleanupDone ==
    /\ w.pc = "cleanup"
    /\ \/ w.st.namespace = Nil
       \/ ~Reachable /\ BestEffort
       \/ /\ w.st.namespace # Nil
          /\ Reachable /\ CanReadNs
          /\ SeenNs(w.st.namespace) = "none"
    /\ GotoWith("patchDone", MarkCleanupComplete(w.st))
    /\ UNCHANGED <<now, api, cache, ns, environment, clients>>

\* The Delete after the Get: none for a Namespace that was seen terminating,
\* and NotFound is no error.
DeletedNs(n) ==
    IF SeenNs(n) = "active" /\ ns[n] = "active" THEN [ns EXCEPT ![n] = "terminating"]
    ELSE ns

\* Mutant: nobody comes back to see the Namespace gone.
MutantCleanupDelete ==
    /\ w.pc = "cleanup"
    /\ w.st.namespace # Nil
    /\ Reachable /\ CanReadNs
    /\ SeenNs(w.st.namespace) # "none"
    /\ ns' = DeletedNs(w.st.namespace)
    /\ GotoPatch(MarkCleaning(w.st), Nil)
    /\ UNCHANGED <<now, api, cache, environment, clients>>

\* The Get finds the Namespace: delete it and come back.
CleanupDelete ==
    /\ w.pc = "cleanup"
    /\ w.st.namespace # Nil
    /\ Reachable /\ CanReadNs
    /\ SeenNs(w.st.namespace) # "none"
    /\ ns' = DeletedNs(w.st.namespace)
    /\ GotoPatch(MarkCleaning(w.st), CleanupRequeue)
    /\ UNCHANGED <<now, api, cache, environment, clients>>

\* RemoteCleanupBlocked: the finalizer stays.  So it does under BestEffort when
\* only the identity probe or the Delete fails.
CleanupBlocked ==
    /\ w.pc = "cleanup"
    /\ w.st.namespace # Nil
    /\ ~Reachable
    /\ GotoPatch(MarkCleanupFailed(w.st), TargetUnavailable)
    /\ UNCHANGED <<now, api, cache, ns, environment, clients>>

-----------------------------------------------------------------------------
(* patchStatusIfChanged: Get the latest object from the cache and replace  *)
(* its whole status; retried on conflict until the retries run out.        *)

PatchSkipped == w.st = w.before

PatchStatus ==
    /\ w.pc \in {"patch", "patchDone"}
    /\ ~PatchSkipped
    /\ cache.exists /\ cache = api
    /\ api' = [api EXCEPT !.status = w.st]
    /\ IF w.pc = "patch" THEN Finish(w.result) ELSE Goto("removeFinalizer")
    /\ UNCHANGED <<now, cache, ns, environment, clients>>

PatchNothing ==
    /\ w.pc \in {"patch", "patchDone"}
    /\ PatchSkipped
    /\ IF w.pc = "patch" THEN Finish(w.result) ELSE Goto("removeFinalizer")
    /\ UNCHANGED <<now, api, cache, ns, environment, clients>>

\* The lease is gone, or the cache stays behind for every retry.
PatchFails ==
    /\ w.pc \in {"patch", "patchDone"}
    /\ ~PatchSkipped
    /\ ~cache.exists \/ (cache # api /\ "exhausted" \in Features)
    /\ Finish(0)
    /\ UNCHANGED <<now, api, cache, ns, environment, clients>>

\* removeLeaseFinalizer; an expired lease is then deleted.
AfterFinalizer == IF w.obj.deleting THEN Finish(Nil) ELSE Goto("deleteLease")

RemoveFinalizer ==
    /\ w.pc = "removeFinalizer"
    /\ CanRead
    /\ IF cache.exists /\ cache.finalizer
       THEN /\ cache = api
            /\ api' = IF api.deleting THEN Removed([api EXCEPT !.finalizer = FALSE])
                      ELSE [api EXCEPT !.finalizer = FALSE]
       ELSE UNCHANGED api
    /\ AfterFinalizer
    /\ UNCHANGED <<now, cache, ns, environment, clients>>

RemoveFinalizerFails ==
    /\ w.pc = "removeFinalizer"
    /\ cache.exists /\ cache.finalizer
    /\ cache # api /\ "exhausted" \in Features
    /\ Finish(0)
    /\ UNCHANGED <<now, api, cache, ns, environment, clients>>

DeleteLease ==
    /\ w.pc = "deleteLease"
    /\ api' = IF api.exists THEN Deleted(api) ELSE api
    /\ Finish(Nil)
    /\ UNCHANGED <<now, cache, ns, environment, clients>>

-----------------------------------------------------------------------------
(* The API server, the clusters and the clock                              *)

\* The informer catches up and its event queues the lease.
CacheSync ==
    /\ cache # api
    /\ cache' = api
    /\ wake' = QueuedAt(now)
    /\ UNCHANGED <<now, api, ns, w, environment, clients>>

\* The periodic resync of the informer queues every lease.
Resync ==
    /\ "resync" \in Features
    /\ cache.exists
    /\ wake' = QueuedAt(now)
    /\ UNCHANGED <<now, api, cache, ns, w, environment, clients>>

\* The Namespace informer catches up and mapNamespace queues the lease.  Only
\* the manager's own cluster is watched.
NamespaceSync ==
    /\ ~Remote
    /\ nsCache # ns
    /\ nsCache' = ns
    /\ wake' = QueuedAt(now)
    /\ UNCHANGED <<now, api, cache, ns, w, policy, targetUp, faults, clients>>

NamespaceGone(n) ==
    /\ ns[n] = "terminating"
    /\ ns' = [ns EXCEPT ![n] = "none"]
    /\ UNCHANGED <<now, api, cache, w, wake, environment, clients>>

\* Someone deletes the Namespace behind the controller's back.
NamespaceDrift(n) ==
    /\ "drift" \in Features /\ faults < MaxFaults
    /\ ns[n] = "active"
    /\ ns' = [ns EXCEPT ![n] = "terminating"]
    /\ faults' = faults + 1
    /\ UNCHANGED <<now, api, cache, nsCache, w, wake, policy, targetUp, clients>>

Tick ==
    /\ now < Horizon
    /\ now' = now + 1
    /\ UNCHANGED <<api, cache, ns, w, wake, environment, clients>>

\* The process stops between two calls; its successor lists all leases (and
\* Namespaces) before it starts.
Crash ==
    /\ "crash" \in Features /\ faults < MaxFaults
    /\ w.pc # "idle"
    /\ faults' = faults + 1
    /\ w' = AtRest
    /\ cache' = api
    /\ nsCache' = IF Remote THEN nsCache ELSE ns
    /\ wake' = now
    /\ UNCHANGED <<now, api, ns, policy, targetUp, clients>>

\* The target becomes unreachable ...
TargetLost ==
    /\ "outage" \in Features /\ faults < MaxFaults
    /\ targetUp
    /\ targetUp' = FALSE
    /\ faults' = faults + 1
    /\ UNCHANGED <<now, api, cache, ns, nsCache, w, wake, policy, clients>>

\* ... and reachable again.
TargetBack ==
    /\ ~targetUp
    /\ targetUp' = TRUE
    /\ UNCHANGED <<now, api, cache, ns, nsCache, w, wake, policy, faults, clients>>

\* Mutant: the leases of the policy are not queued.
MutantPolicyChange(p) ==
    /\ "policy" \in Features
    /\ p # policy
    /\ policy # Nil => faults < MaxFaults
    /\ faults' = IF policy # Nil THEN faults + 1 ELSE faults
    /\ policy' = p
    /\ UNCHANGED <<now, api, cache, ns, nsCache, w, wake, targetUp, clients>>

\* The policy is deleted, created or edited; its leases are queued (mapPolicy).
PolicyChange(p) ==
    /\ "policy" \in Features
    /\ p # policy
    /\ policy # Nil => faults < MaxFaults
    /\ faults' = IF policy # Nil THEN faults + 1 ELSE faults
    /\ policy' = p
    /\ wake' = IF cache.exists THEN QueuedAt(now) ELSE wake
    /\ UNCHANGED <<now, api, cache, ns, nsCache, w, targetUp, clients>>

-----------------------------------------------------------------------------
(* The clients                                                             *)

\* kubectl apply of another spec.
EditSpec(s) ==
    /\ "edit" \in Features
    /\ api.exists /\ api.spec # s
    /\ api' = [api EXCEPT !.spec = s]
    /\ UNCHANGED <<now, cache, ns, w, wake, environment, clients>>

\* "expire", or kubectl delete.
Expire ==
    /\ "expire" \in Features
    /\ api.exists /\ ~api.deleting
    /\ api' = Deleted(api)
    /\ UNCHANGED <<now, cache, ns, w, wake, environment, clients>>

\* "touch" reads the clock once, then reads and writes the status until no
\* conflict is left.
TouchStart ==
    /\ "touch" \in Features
    /\ touchAt = Nil /\ api.exists
    /\ touchAt' = now
    /\ UNCHANGED <<now, api, cache, ns, w, wake, environment, extendTo>>

\* The idleTTL touch works with: the resolved one when there is one.
IdleTTLFromLease(lease) ==
    IF lease.status.effective # Nil /\ lease.status.effective.idleTTL > 0
    THEN lease.status.effective.idleTTL
    ELSE OrElse(lease.spec.idleTTL, 0)

TouchWrite ==
    /\ touchAt # Nil
    /\ touchAt' = Nil
    /\ LET idleTTL == IdleTTLFromLease(api)
       IN  api' = IF api.exists /\ CanRecordActivity(api.status, touchAt, idleTTL)
                  THEN [api EXCEPT !.status = RecordActivity(@, touchAt, idleTTL)]
                  ELSE api
    /\ UNCHANGED <<now, cache, ns, w, wake, environment, extendTo>>

\* "extend" computes a ttl from the status it read ...
ExtendRead ==
    /\ "extend" \in Features
    /\ extendTo = Nil /\ api.exists
    /\ LET st == api.status
       IN  /\ st.createdAt # Nil /\ st.expiresAt # Nil /\ st.maximumExpiresAt # Nil
           /\ CanExtend(st, ExtendBy, OrElse(api.spec.renewable, TRUE))
           /\ extendTo' = ComputeExtendedTTL(st, ExtendBy)
    /\ UNCHANGED <<now, api, cache, ns, w, wake, environment, touchAt>>

\* ... and merges it into the spec without an optimistic lock.
ExtendWrite ==
    /\ extendTo # Nil
    /\ extendTo' = Nil
    /\ api' = IF api.exists THEN [api EXCEPT !.spec.ttl = extendTo] ELSE api
    /\ UNCHANGED <<now, cache, ns, w, wake, environment, touchAt>>

-----------------------------------------------------------------------------

Init ==
    /\ now = CreationTimestamp
    /\ \E s \in Specs :
          api = [exists |-> TRUE, deleting |-> FALSE, finalizer |-> FALSE,
                 spec |-> s, status |-> EmptyStatus]
    /\ cache = api
    /\ ns = [n \in Names |-> "none"]
    /\ nsCache = ns
    /\ policy \in Policies
    /\ targetUp = TRUE
    /\ w = AtRest
    /\ wake = now
    /\ touchAt = Nil
    /\ extendTo = Nil
    /\ faults = 0

Reconcile ==
    \/ BeginGone \/ BeginDelete \/ BeginAddFinalizer \/ BeginRejected \/ BeginSync
    \/ AddFinalizer \/ Sync \/ CheckExpired
    \/ ResolveTarget \/ TargetError
    \/ PersistCluster \/ RefreshCluster
    \/ KeepNamespace \/ NamespaceMissing \/ CreateNamespace \/ EnsureNamespaceFails
    \/ PersistNamespace \/ RefreshNamespace
    \/ EnsureConstraints \/ EnsureConstraintsFails
    \/ EmitWarnings \/ BecomeReady \/ Schedule
    \/ CleanupDone \/ CleanupDelete \/ CleanupBlocked
    \/ PatchStatus \/ PatchNothing \/ PatchFails
    \/ RemoveFinalizer \/ RemoveFinalizerFails
    \/ DeleteLease

Cluster ==
    \/ CacheSync \/ NamespaceSync \/ Resync \/ Tick \/ Crash \/ TargetLost \/ TargetBack
    \/ \E p \in Policies \cup {Nil} : PolicyChange(p)
    \/ \E n \in Names : NamespaceGone(n) \/ NamespaceDrift(n)

Client ==
    \/ Expire \/ TouchStart \/ TouchWrite \/ ExtendRead \/ ExtendWrite
    \/ \E s \in Specs : EditSpec(s)

Next == Reconcile \/ Cluster \/ Client

Spec == Init /\ [][Next]_vars

\* The worker keeps running, the informers catch up, the clock advances,
\* terminating Namespaces end, resyncs come and an unreachable target comes
\* back.  No client, crash, failed call or policy change is ever forced.
Fairness ==
    /\ WF_vars(Reconcile)
    /\ WF_vars(CacheSync)
    /\ WF_vars(NamespaceSync)
    /\ WF_vars(Resync)
    /\ WF_vars(Tick)
    /\ WF_vars(TargetBack)
    /\ \A n \in Names : WF_vars(NamespaceGone(n))

FairSpec == Spec /\ Fairness

-----------------------------------------------------------------------------
(* Properties                                                              *)

\* Every variable has its type; in particular a delay that Reconcile returns
\* (NextReconcileAfter) is never negative.
TypeOK ==
    /\ now \in Nat
    /\ api \in Lease
    /\ cache \in Lease
    /\ ns \in [Names -> {"none", "active", "terminating"}]
    /\ nsCache \in [Names -> {"none", "active", "terminating"}]
    /\ policy \in Policies \cup {Nil}
    /\ targetUp \in BOOLEAN
    /\ w \in Worker
    /\ wake \in TimeOrNil
    /\ touchAt \in TimeOrNil
    /\ extendTo \in Int \cup {Nil}
    /\ faults \in Nat

\* The deadlines of one status: set together, and effective <= hard <= maximum.
DeadlinesOrderedIn(st) ==
    /\ st.expiresAt # Nil => /\ st.createdAt # Nil
                             /\ st.maximumExpiresAt # Nil
                             /\ st.expiresAt <= st.maximumExpiresAt
    /\ st.effectiveExpiresAt # Nil => /\ st.expiresAt # Nil
                                      /\ st.effectiveExpiresAt <= st.expiresAt
    /\ st.idleExpiresAt # Nil => /\ st.effectiveExpiresAt # Nil
                                 /\ st.effectiveExpiresAt <= st.idleExpiresAt

\* In every copy of the lease (stored, cached, being worked on) activity and
\* renewal stay under the hard caps: effectiveExpiresAt <= expiresAt <=
\* maximumExpiresAt, whatever writes raced (EnsureTimestamps,
\* SyncExpirationStatus, RecordActivity, patchStatusIfChanged).
DeadlinesOrdered ==
    \A st \in {api.status, cache.status, w.obj.status, w.st, w.before} :
        DeadlinesOrderedIn(st)

\* The lease's finalizer goes only once the Namespace that the worker knows
\* of is gone (cleanupEnvironment and removeLeaseFinalizer, in the default
\* RequireRemoteCleanup mode), whatever the lease informer, an outage, a crash
\* or a failed write did in between.  It needs a Namespace Get that is up to
\* date: a remote one is, a local one reads the informer, and one that lags
\* behind the creation reports NotFound for a live Namespace.
FinalizerHeldUntilNamespaceGone ==
    [][~BestEffort /\ api.finalizer /\ ~api'.finalizer =>
         w.st.namespace = Nil \/ ns[w.st.namespace] = "none"]_vars

\* The lease, its finalizer and its Namespaces as LeaseLifecycle sees them.
Lifecycle == INSTANCE LeaseLifecycle WITH
    lease <- IF ~api.exists THEN "gone" ELSE IF api.finalizer THEN "held" ELSE "new",
    ns <- ns

\* The controller implements LeaseLifecycle: every Namespace is created under
\* the finalizer and while no other is left, and the finalizer is taken off
\* only when nothing is left (Reconcile adds it before it provisions,
\* reconcileActive records the name, removeLeaseFinalizer comes last).
ImplementsLifecycle == Lifecycle!LSpec

\* Once a deleted lease has been seen cleaning up, no write that was under
\* way takes it back to a live phase (reconcileDelete, patchStatusIfChanged).
CleanupIsFinal ==
    [][api.deleting /\ api.status.phase \in {"Cleaning", "Expired"}
         /\ api.status.expirationReason = "ManualExpiration" =>
         api'.status.phase \in {"Cleaning", "Expired"}]_vars

\* cleanupEnvironment deletes a live Namespace only for a lease that was
\* deleted, or whose deadline, derived anew from the object Reconcile read,
\* has passed: a reason or a phase left in the status is not enough.
TeardownJustified ==
    [][\A n \in Names :
         w.pc = "cleanup" /\ ns[n] = "active" /\ ns'[n] = "terminating" =>
           api.deleting \/ IsExpired(Synced(w.obj.status, w.resolved, now), now)]_vars

\* No Namespace outlives its lease: when the API server has let the lease
\* go, everything ensureNamespace ever created for it is gone, also when the
\* deletion, an edit or a policy change fell between the creation and the
\* status write.  A crash there is another matter: cleanupEnvironment is done
\* at once when status.namespace is empty, and the Namespace stays.
NoOrphan == ~api.exists => \A n \in Names : ns[n] = "none"

\* At most one Namespace of the lease is alive: with generateName a second
\* ensureNamespace must find the name that the first one persisted
\* (reconcileActive, "to avoid generateName leaks").
OneNamespace == \A m, n \in Names : ns[m] = "active" /\ ns[n] = "active" => m = n

\* A lease that reports Ready says where its environment is: MarkReady comes
\* after the re-read that follows the persisted namespace.
ReadyHasNamespace == api.status.ready => api.status.namespace # Nil

\* A Reconcile that resolved the lease as not renewable never moves its
\* hard deadline later (EnsureTimestamps), whatever else it raced with.
NonRenewableNeverLater ==
    [][~w.resolved.renewable /\ api.status.expiresAt # Nil =>
         api'.status.expiresAt # Nil /\ api'.status.expiresAt <= api.status.expiresAt]_vars

\* Once the work for a lease has settled, a lease that reports Ready obeys the
\* policy in force now: it is accepted, its status shows what Resolve makes of
\* the current spec and policy, and its cap follows from that.  A policy or a
\* spec that changed at any point of a Reconcile, a write that failed or an
\* old status written back must not stay unnoticed (Reconcile, mapPolicy).
SettledObeysPolicy ==
    /\ w.pc = "idle" /\ cache = api /\ (wake = Nil \/ wake > now)
    /\ api.exists /\ api.status.ready
    => /\ ~Rejected(api.spec)
       /\ api.status.effective = Resolve(api.spec, policy)
       /\ api.status.maximumExpiresAt = api.status.createdAt + api.status.effective.maxTTL

\* No heartbeat is taken back: once "touch" has stored lastActivityAt, no
\* status write of the controller (patchStatusIfChanged) moves it back.
HeartbeatNotLost ==
    [][api.status.lastActivityAt # Nil =>
         api'.status.lastActivityAt # Nil
         /\ api'.status.lastActivityAt >= api.status.lastActivityAt]_vars

\* A provisioned lease at rest has a wake-up in the queue: the RequeueAfter
\* that ends reconcileActive is what brings the deadline about.
NeverUnscheduled ==
    w.pc = "idle" /\ cache = api /\ api.exists /\ api.status.ready => wake # Nil

\* A lease past its effective deadline is eventually removed, or renewed:
\* Reconcile comes to reconcileExpired, and that to removeLeaseFinalizer.
ExpiredIsCleaned ==
    (api.exists /\ IsExpired(api.status, now)) ~>
        (~api.exists \/ ~IsExpired(api.status, now))
=============================================================================
