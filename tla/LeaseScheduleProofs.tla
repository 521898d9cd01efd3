------------------------ MODULE LeaseScheduleProofs ------------------------
(***************************************************************************)
(* Machine-checked proofs about what a Reconcile leaves behind, for every  *)
(* value of the constants.  A provisioned lease on a remote cluster is     *)
(* never left without a wake-up (locally it can be: NextReconcileAfter may *)
(* return 0, which RequeueAfter takes for "no requeue"); a lease at rest   *)
(* obeys the policy of the moment, lagging reads and crashes included; and *)
(* with prompt reads a lease that is not renewable is never renewed.       *)
(***************************************************************************)
EXTENDS LeaseTeardownProofs

-----------------------------------------------------------------------------
(* A wake-up is left: the inductive invariant                              *)

\* The stored and the cached lease.
StoredInOrder ==
    /\ Pending(api) /\ Pending(cache)
    /\ api.exists => cache.exists

\* While no event has come, the cache is what Reconcile started from.
SameStart == wake = Nil /\ w.pc # "idle" => w.before = cache.status

\* What Reconcile returns, or goes on to, without asking to come back.
NotReadyOnward ==
    /\ w.pc = "patch" /\ w.result = Nil => ~w.st.ready
    /\ w.pc \in {"cleanup", "patchDone", "removeFinalizer", "deleteLease"} => ~w.st.ready

\* A lease without a wake-up is not Ready, or an event is on its way.
AtRestScheduled ==
    /\ wake = Nil /\ api.exists
    /\ w.pc \in {"idle", "removeFinalizer", "deleteLease"}
    => ~(api.status.ready /\ cache.status.ready)

SInv == StoredInOrder /\ SameStart /\ NotReadyOnward /\ AtRestScheduled

-----------------------------------------------------------------------------
(* It is preserved                                                         *)

\* Neither copy of the lease comes back, and none is deleted without its
\* finalizer.
LEMMA StaysInOrder ==
    ASSUME IInv, StoredInOrder, [Next]_vars
    PROVE  StoredInOrder'
<1>1. CASE Reconcile
  <2>1. cache' = cache /\ (api'.exists => api.exists) /\ (Pending(api) => Pending(api'))
    BY <1>1, ReconcileSteps DEF Starts, Rereads, Advances, Writes, Returns
  <2>2. QED
    BY <2>1 DEF StoredInOrder, Pending
<1>2. CASE Cluster \/ Client \/ UNCHANGED vars
  <2>1. /\ cache' = cache \/ (cache' = api /\ api' = api)
        /\ api'.exists => api.exists
        /\ Pending(api) => Pending(api')
    BY <1>2, OtherSteps DEF Elsewhere, OthersWrite
  <2>2. QED
    BY <2>1 DEF StoredInOrder, Pending
<1>3. QED
  BY <1>1, <1>2 DEF Next

\* Every event of the informer leaves a wake-up behind.
LEMMA SameStartStays ==
    ASSUME IInv, SameStart, [Next]_vars
    PROVE  SameStart'
<1>1. CASE Starts
  BY <1>1 DEF Starts, SameStart
<1>2. CASE Rereads
  BY <1>2 DEF Rereads, SameStart
<1>3. CASE Advances
  <2>1. w.pc # "idle" /\ w'.before = w.before /\ cache' = cache /\ (wake' = Nil => wake = Nil)
    BY <1>3 DEF Advances, Flows
  <2>2. QED
    BY <2>1 DEF SameStart
<1>4. CASE Returns
  BY <1>4, AtRestFields DEF Returns, SameStart
<1>5. CASE Elsewhere
  BY <1>5, AtRestFields DEF Elsewhere, SameStart
<1>6. QED
  BY <1>1, <1>2, <1>3, <1>4, <1>5, ReconcileSteps, OtherSteps DEF Next

\* Only a lease that was rejected is left without a requeue, and it is Failed.
LEMMA NotReadyOnwardStays ==
    ASSUME Remote = TRUE, IInv, NotReadyOnward, [Next]_vars
    PROVE  NotReadyOnward'
<1>1. CASE Starts
  BY <1>1 DEF Starts, NotReadyOnward
<1>2. CASE Rereads
  BY <1>2 DEF Rereads, NotReadyOnward
<1>3. CASE Advances
  <2>1. Flows(w.pc, w'.pc) /\ StatusFlows
    BY <1>3 DEF Advances
  <2>2. w'.pc = "patch" => w'.result # Nil
    BY <2>1 DEF StatusFlows
  <2>3. w'.pc = "cleanup" => ~w'.st.ready
    BY <2>1 DEF StatusFlows
  <2>4. w'.pc = "patchDone" => ~w'.st.ready
    BY <2>1 DEF Flows, StatusFlows, NotReadyOnward
  <2>5. w'.pc \in {"removeFinalizer", "deleteLease"} => ~w'.st.ready
    BY <2>1 DEF Flows, StatusFlows, NotReadyOnward
  <2>6. QED
    BY <2>2, <2>3, <2>4, <2>5 DEF NotReadyOnward
<1>4. CASE Returns
  BY <1>4, AtRestFields DEF Returns, NotReadyOnward
<1>5. CASE Elsewhere
  BY <1>5, AtRestFields DEF Elsewhere, NotReadyOnward
<1>6. QED
  BY <1>1, <1>2, <1>3, <1>4, <1>5, ReconcileSteps, OtherSteps DEF Next

\* What Reconcile leaves at rest without a wake-up it has just stored as not
\* Ready, or found so in the cache.
LEMMA AtRestScheduledStays ==
    ASSUME IInv, SInv, [Next]_vars
    PROVE  AtRestScheduled'
<1> SUFFICES ASSUME wake' = Nil, api'.exists,
                    w'.pc \in {"idle", "removeFinalizer", "deleteLease"}
             PROVE  ~(api'.status.ready /\ cache'.status.ready)
  BY DEF AtRestScheduled
<1> USE DEF SInv
<1>1. CASE Starts
  <2>1. api.exists /\ (~cache.exists \/ (cache.deleting /\ ~cache.finalizer))
    BY <1>1 DEF Starts
  <2>2. QED
    BY <2>1 DEF StoredInOrder, Pending
<1>2. CASE Rereads
  BY <1>2 DEF Rereads
<1>3. CASE Advances
  <2>1. /\ wake = Nil /\ api.exists /\ cache' = cache
        /\ \/ w.pc = "patchDone" /\ w'.pc = "removeFinalizer"
           \/ w.pc = "removeFinalizer" /\ w'.pc = "deleteLease"
    BY <1>3 DEF Advances, Writes, Flows
  <2>2. CASE w.pc = "patchDone"
    <3>1. w.before = cache.status /\ ~w.st.ready
      BY <2>1, <2>2 DEF SameStart, NotReadyOnward
    <3>2. api'.status = w.st \/ w.st = w.before
      BY <1>3, <2>2 DEF Advances, Writes
    <3>3. QED
      BY <2>1, <3>1, <3>2
  <2>3. CASE w.pc = "removeFinalizer"
    <3>1. api'.status = api.status
      BY <1>3, <2>3 DEF Advances, Writes
    <3>2. QED
      BY <2>1, <2>3, <3>1 DEF AtRestScheduled
  <2>4. QED
    BY <2>1, <2>2, <2>3
<1>4. CASE Returns
  <2>1. /\ wake = Nil /\ api.exists /\ cache' = cache /\ w.pc # "idle"
        /\ \/ /\ w.pc = "patch" /\ w.result = Nil
              /\ api'.status = w.st \/ w.st = w.before
           \/ w.pc \in {"removeFinalizer", "deleteLease"}
    BY <1>4 DEF Returns
  <2>2. CASE w.pc = "patch"
    <3>1. w.before = cache.status /\ ~w.st.ready
      BY <2>1, <2>2 DEF SameStart, NotReadyOnward
    <3>2. QED
      BY <2>1, <2>2, <3>1
  <2>3. CASE w.pc \in {"removeFinalizer", "deleteLease"}
    <3>1. api'.status = api.status
      BY <1>4, <2>3 DEF Returns
    <3>2. QED
      BY <2>1, <2>3, <3>1 DEF AtRestScheduled
  <2>4. QED
    BY <2>1, <2>2, <2>3
<1>5. CASE Elsewhere
  <2>1. /\ wake = Nil /\ cache' = cache /\ api.exists
        /\ api'.status.ready = api.status.ready
        /\ w' = w
    BY <1>5 DEF Elsewhere, OthersWrite
  <2>2. QED
    BY <2>1 DEF AtRestScheduled
<1>6. QED
  BY <1>1, <1>2, <1>3, <1>4, <1>5, ReconcileSteps, OtherSteps DEF Next

-----------------------------------------------------------------------------
(* The wake-up theorems                                                    *)

\* The inductive invariant holds in every reachable state of a lease on a
\* remote cluster.
THEOREM ScheduleInvariant ==
    ASSUME Remote = TRUE
    PROVE  Spec => []SInv
<1>1. Init => SInv
  <2> SUFFICES ASSUME Init PROVE SInv
    OBVIOUS
  <2>1. /\ w = AtRest /\ cache = api /\ ~api.deleting /\ wake = CreationTimestamp
    BY DEF Init
  <2>2. wake # Nil
    BY <2>1, ConstantsAssumption, NilAssumption
  <2>3. QED
    BY <2>1, <2>2, AtRestFields
       DEF SInv, StoredInOrder, Pending, SameStart, NotReadyOnward, AtRestScheduled
<1>2. IInv /\ SInv /\ [Next]_vars => SInv'
  BY StaysInOrder, SameStartStays, NotReadyOnwardStays, AtRestScheduledStays DEF SInv
<1>3. QED
  BY <1>1, <1>2, Invariant, PTL DEF Spec

\* A provisioned lease at rest on a remote cluster has a wake-up in the queue:
\* remoteDriftRequeue caps whatever NextReconcileAfter returns, and every
\* other return that asks for none has left the lease not Ready.
THEOREM AlwaysScheduled ==
    ASSUME Remote = TRUE
    PROVE  Spec => []NeverUnscheduled
<1>1. SInv => NeverUnscheduled
  BY DEF SInv, AtRestScheduled, NeverUnscheduled
<1>2. QED
  BY <1>1, ScheduleInvariant, PTL

-----------------------------------------------------------------------------
(* What Reconcile carries along                                            *)

\* The terms of a lease: what was resolved, and the hard deadlines from it.
SameTerms(a, b) ==
    /\ a.effective = b.effective
    /\ a.createdAt = b.createdAt
    /\ a.expiresAt = b.expiresAt
    /\ a.maximumExpiresAt = b.maximumExpiresAt

\* Marking a status leaves them alone ...
LEMMA MarkTerms ==
    ASSUME NEW st \in LeaseStatus
    PROVE  /\ SameTerms(MarkProvisioning(st), st)
           /\ \A e : SameTerms(MarkReady(st, e), st)
           /\ SameTerms(MarkFailed(st), st)
           /\ \A r : SameTerms(MarkExpired(st, r), st)
           /\ SameTerms(MarkCleaning(st), st)
           /\ SameTerms(MarkCleanupFailed(st), st)
           /\ SameTerms(MarkCleanupComplete(st), st)
           /\ \A d : SameTerms([st EXCEPT !.warningsDelivered = d], st)
           /\ \A n : SameTerms([st EXCEPT !.namespace = n], st)
BY DEF LeaseStatus, SameTerms, MarkProvisioning, MarkReady, MarkFailed, MarkExpired,
       MarkCleaning, MarkCleanupFailed, MarkCleanupComplete

\* ... and so does deriving the effective deadline from them,
LEMMA SyncTerms ==
    ASSUME NEW st \in LeaseStatus, NEW idleTTL, NEW t
    PROVE  SameTerms(SyncExpirationStatus(st, idleTTL, t), st)
<1> DEFINE last == IF st.lastActivityAt = Nil THEN st.createdAt ELSE st.lastActivityAt
           hard == HardDeadline(st)
           idle == IdleDeadline(hard, last, idleTTL)
           eff  == EffectiveOf(hard, idle)
           reason == IF st.expirationReason \in {"ManualExpiration", "SourceClosed"}
                     THEN st.expirationReason
                     ELSE IF t < eff THEN ""
                     ELSE ResolveExpirationReason(t, hard, idle)
           r == [st EXCEPT !.lastActivityAt = last, !.idleExpiresAt = idle,
                           !.effectiveExpiresAt = eff, !.expirationReason = reason]
<1>1. SyncExpirationStatus(st, idleTTL, t) \in {st, r}
  BY Zenon DEF SyncExpirationStatus, last, hard, idle, eff, reason, r
<1> HIDE DEF last, idle, eff, reason
<1>2. SameTerms(r, st) /\ SameTerms(st, st)
  BY DEF LeaseStatus, SameTerms
<1> HIDE DEF r
<1>3. QED
  BY <1>1, <1>2

\* ... in a heartbeat too.
LEMMA RecordTerms ==
    ASSUME NEW st \in LeaseStatus, NEW t \in Nat, NEW idleTTL
    PROVE  SameTerms(RecordActivity(st, t, idleTTL), st)
<1> DEFINE a == [st EXCEPT !.lastActivityAt = t]
<1>1. a \in LeaseStatus /\ SameTerms(a, st)
  BY DEF LeaseStatus, TimeOrNil, SameTerms
<1>2. RecordActivity(st, t, idleTTL) = SyncExpirationStatus(a, idleTTL, t)
  BY DEF RecordActivity
<1> HIDE DEF a
<1>3. SameTerms(SyncExpirationStatus(a, idleTTL, t), a)
  BY <1>1, SyncTerms
<1>4. QED
  BY <1>1, <1>2, <1>3 DEF SameTerms

\* EnsureTimestamps sets them: the cap follows from what was resolved, and a
\* lease that is not renewable keeps its deadline or gets an earlier one.
LEMMA SyncedTerms ==
    ASSUME NEW st \in LeaseStatus, NEW resolved \in Resolved, NEW t
    PROVE  LET r == Synced(st, resolved, t)
           IN  /\ r.effective = resolved
               /\ r.maximumExpiresAt = r.createdAt + resolved.maxTTL
               /\ ~resolved.renewable /\ st.expiresAt # Nil =>
                     r.expiresAt \in Int /\ r.expiresAt <= st.expiresAt
<1> DEFINE e == [st EXCEPT !.effective = resolved]
           c == IF e.createdAt = Nil THEN CreationTimestamp ELSE e.createdAt
           x == IF RenewalRejected(e, c, resolved.ttl, resolved.renewable)
                THEN e.expiresAt ELSE c + resolved.ttl
           m == c + resolved.maxTTL
           f == [e EXCEPT !.createdAt = c, !.maximumExpiresAt = m, !.expiresAt = x]
<1>1. e \in LeaseStatus /\ e.effective = resolved /\ e.expiresAt = st.expiresAt
  BY DEF LeaseStatus
<1>2. Synced(st, resolved, t) = SyncExpirationStatus(f, resolved.idleTTL, t)
  BY Zenon DEF Synced, EnsureTimestamps, e, c, x, m, f
<1> HIDE DEF e
<1>3. c \in Nat /\ resolved.ttl \in Int /\ resolved.maxTTL \in Int
  BY <1>1, ConstantsAssumption DEF LeaseStatus, TimeOrNil, Resolved
<1>4. e.expiresAt \in Int \cup {Nil}
  BY <1>1 DEF LeaseStatus
<1> HIDE DEF c
<1>5. /\ x \in Int \cup {Nil} /\ m \in Int
      /\ ~resolved.renewable /\ e.expiresAt # Nil => x \in Int /\ x <= e.expiresAt
  BY <1>3, <1>4 DEF RenewalRejected
<1>6. m = c + resolved.maxTTL
  OBVIOUS
<1> HIDE DEF x, m
<1>7. /\ f \in LeaseStatus
      /\ f.effective = e.effective /\ f.createdAt = c /\ f.maximumExpiresAt = m
      /\ f.expiresAt = x
  BY <1>1, <1>3, <1>5 DEF LeaseStatus, TimeOrNil
<1> HIDE DEF f
<1>8. SameTerms(SyncExpirationStatus(f, resolved.idleTTL, t), f)
  BY <1>7, SyncTerms
<1>9. QED
  BY <1>1, <1>2, <1>5, <1>6, <1>7, <1>8 DEF SameTerms

\* Where Reconcile reads the lease again.
Refreshing == {"refreshCluster", "refreshNamespace"}

\* The start: the policy is resolved once, from the cached lease.
LEMMA StartTerms ==
    ASSUME IInv, Reconcile, w.pc = "idle", w'.pc # "idle"
    PROVE  /\ CanRead /\ cache.exists /\ policy' = policy
           /\ \/ /\ w'.pc = "sync" /\ ~Rejected(cache.spec)
                 /\ w'.resolved = Resolve(cache.spec, policy)
              \/ /\ w'.pc \in {"cleanup", "addFinalizer", "patch"}
                 /\ w'.resolved = Unresolved
<1>1. CASE BeginDelete
  BY <1>1, BeginFields DEF BeginDelete, environment
<1>2. CASE BeginAddFinalizer
  BY <1>2, BeginFields DEF BeginAddFinalizer, environment
<1>3. CASE BeginRejected
  BY <1>3, BeginFields DEF BeginRejected, environment
<1>4. CASE BeginSync
  BY <1>4, BeginFields DEF BeginSync, environment
<1>5. CASE BeginGone
  BY <1>5 DEF BeginGone
<1>6. QED
  BY <1>1, <1>2, <1>3, <1>4, <1>5
     DEF Reconcile, AddFinalizer, Sync, CheckExpired, ResolveTarget, TargetError,
         PersistCluster, PersistNamespace, Persist, RefreshCluster, RefreshNamespace,
         Refresh, KeepNamespace, NamespaceMissing, CreateNamespace,
         EnsureNamespaceFails, EnsureConstraints,
         EnsureConstraintsFails, EmitWarnings, BecomeReady, Schedule, CleanupDone,
         CleanupDelete, CleanupBlocked, PatchStatus, PatchNothing, PatchFails,
         RemoveFinalizer, RemoveFinalizerFails, DeleteLease

\* The re-read: the deadlines are those of the cached lease.
LEMMA RereadTerms ==
    ASSUME IInv, Reconcile, w.pc \in Refreshing
    PROVE  /\ CanRead /\ policy' = policy
           /\ w'.resolved = w.resolved
           /\ w'.st.effective = w.resolved
           /\ w'.st.createdAt = cache.status.createdAt
           /\ w'.st.expiresAt = cache.status.expiresAt
           /\ w'.st.maximumExpiresAt = cache.status.maximumExpiresAt
<1> DEFINE s == [cache.status EXCEPT !.effective = w.resolved]
<1>1. w \in Worker /\ cache.status \in LeaseStatus /\ w.resolved \in Resolved
  BY DEF IInv, WorkerOK, LeaseOK, StatusOK, Worker
<1>2. /\ s \in LeaseStatus /\ s.effective = w.resolved
      /\ s.createdAt = cache.status.createdAt /\ s.expiresAt = cache.status.expiresAt
      /\ s.maximumExpiresAt = cache.status.maximumExpiresAt
  BY <1>1 DEF LeaseStatus
<1>3. RefreshCluster \/ RefreshNamespace
  BY DEF Refreshing, Reconcile, BeginGone, BeginDelete, BeginAddFinalizer,
         BeginRejected, BeginSync, Begin, AddFinalizer, Sync, CheckExpired,
         ResolveTarget, TargetError, PersistCluster, PersistNamespace, Persist,
         KeepNamespace, NamespaceMissing, CreateNamespace, EnsureNamespaceFails,
         EnsureConstraints,
         EnsureConstraintsFails, EmitWarnings, BecomeReady, Schedule, CleanupDone,
         CleanupDelete, CleanupBlocked, PatchStatus, PatchNothing, PatchFails,
         RemoveFinalizer, RemoveFinalizerFails, DeleteLease
<1>4. PICK pc, next, st : /\ Refresh(pc, next, st)
                          /\ st = s \/ st = StartProvisioning(s)
  BY <1>3 DEF RefreshCluster, RefreshNamespace
<1> HIDE DEF s
<1>5. SameTerms(st, s)
  BY <1>2, <1>4, MarkTerms DEF StartProvisioning, SameTerms
<1>6. CanRead /\ policy' = policy /\ w'.st = st /\ w'.resolved = w.resolved
  BY <1>1, <1>4, RefreshFields DEF Refresh, environment
<1>7. QED
  BY <1>2, <1>5, <1>6 DEF SameTerms

\* In between, nothing but EnsureTimestamps touches the terms, what is
\* persisted is what Reconcile has, and an event of its own making is due now.
Carries ==
    /\ policy' = policy
    /\ wake' = wake \/ wake' = QueuedAt(now)
    /\ w.pc # "sync" => SameTerms(w'.st, w.st)
    /\ w'.pc \in Refreshing => w.obj = api /\ api'.status = w.st /\ w'.st = w.st
    /\ w'.pc \notin Refreshing => api'.status = api.status \/ w.pc = "patchDone"

\* Every step inside Reconcile but the re-reads is of this kind.
LEMMA WorkTerms ==
    ASSUME IInv, Reconcile, w.pc # "idle", w.pc \notin Refreshing, w'.pc # "idle"
    PROVE  Carries
<1>1. w \in Worker /\ w.st \in LeaseStatus /\ api \in Lease
  BY DEF IInv, WorkerOK, LeaseOK, StatusOK
<1>2. ASSUME NEW pc, NEW st, SameTerms(st, w.st) \/ w.pc = "sync", policy' = policy,
             \/ Goto(pc) /\ st = w.st
             \/ GotoWith(pc, st)
             \/ pc = "patch" /\ \E result : GotoPatch(st, result),
             \/ api' = api /\ pc \notin Refreshing
             \/ w.pc = "patchDone" /\ pc \notin Refreshing
             \/ w.obj = api /\ api'.status = w.st /\ st = w.st /\ pc \in Refreshing
      PROVE  Carries
  <2>1. w'.pc = pc /\ w'.st = st /\ wake' = wake
    BY <1>1, <1>2, GotoFields, GotoWithFields, GotoPatchFields
  <2>2. QED
    BY <1>2, <2>1 DEF Carries
<1>3. SameTerms(w.st, w.st)
  BY DEF SameTerms
<1>4. CASE Sync
  BY <1>2, <1>4 DEF Sync, Refreshing, environment
<1>5. CASE CheckExpired
  <2>1. PICK r : GotoWith("cleanup", MarkExpired(w.st, r)) \/ Goto("target")
    BY <1>5 DEF CheckExpired
  <2>2. api' = api /\ policy' = policy
    BY <1>5 DEF CheckExpired, environment
  <2>3. CASE GotoWith("cleanup", MarkExpired(w.st, r))
    BY <1>1, <1>2, <2>2, <2>3, MarkTerms DEF Refreshing
  <2>4. CASE Goto("target")
    BY <1>2, <1>3, <2>2, <2>4 DEF Refreshing
  <2>5. QED
    BY <2>1, <2>3, <2>4
<1>6. CASE ResolveTarget
  <2>1. SameTerms(StartProvisioning(w.st), w.st)
    BY <1>1, <1>3, MarkTerms DEF StartProvisioning
  <2>2. /\ Goto("persistCluster") \/ GotoWith("ensureNamespace", StartProvisioning(w.st))
        /\ api' = api /\ policy' = policy
    BY <1>6 DEF ResolveTarget, environment
  <2>3. CASE Goto("persistCluster")
    BY <1>2, <1>3, <2>2, <2>3 DEF Refreshing
  <2>4. CASE GotoWith("ensureNamespace", StartProvisioning(w.st))
    BY <1>2, <2>1, <2>2, <2>4 DEF Refreshing
  <2>5. QED
    BY <2>2, <2>3, <2>4
<1>7. ASSUME NEW st \in {w.st, MarkFailed(w.st)}, NEW result, GotoPatch(st, result),
             api' = api, policy' = policy
      PROVE  Carries
  <2>1. SameTerms(st, w.st) /\ "patch" \notin Refreshing
    BY <1>1, <1>3, MarkTerms DEF Refreshing
  <2>2. QED
    BY <1>2, <1>7, <2>1
<1>8. CASE TargetError
  BY <1>7, <1>8 DEF TargetError, environment
<1>9. CASE EnsureNamespaceFails
  BY <1>7, <1>9 DEF EnsureNamespaceFails, environment
<1>10. CASE EnsureConstraintsFails
  BY <1>7, <1>10 DEF EnsureConstraintsFails
<1>11. CASE Schedule
  <2>1. (\E result : GotoPatch(w.st, result)) /\ api' = api /\ policy' = policy
    BY <1>11, ScheduleDelay DEF Schedule, environment
  <2>2. QED
    BY <1>7, <2>1
<1>12. CASE EnsureConstraints
  BY <1>2, <1>3, <1>12 DEF EnsureConstraints, Refreshing, environment
<1>13. CASE EmitWarnings
  <2>1. PICK st : /\ GotoWith("ready", st)
                  /\ st = w.st \/ \E d : st = [w.st EXCEPT !.warningsDelivered = d]
    BY <1>13 DEF EmitWarnings
  <2>2. SameTerms(st, w.st)
    BY <1>1, <1>3, <2>1, MarkTerms
  <2>3. api' = api /\ policy' = policy
    BY <1>13 DEF EmitWarnings, environment
  <2>4. QED
    BY <1>2, <2>1, <2>2, <2>3 DEF Refreshing
<1>14. CASE BecomeReady
  <2>1. PICK e : GotoWith("schedule", MarkReady(w.st, e))
    BY <1>14 DEF BecomeReady
  <2>2. api' = api /\ policy' = policy
    BY <1>14 DEF BecomeReady, environment
  <2>3. QED
    BY <1>1, <1>2, <2>1, <2>2, MarkTerms DEF Refreshing
<1>15. CASE KeepNamespace \/ CreateNamespace
  <2>1. PICK n \in Names :
           /\ w'.st = [w.st EXCEPT !.namespace = n]
           /\ w'.pc \in {"constraints", "persistNamespace"}
    BY <1>15, UseFields
  <2>2. api' = api /\ policy' = policy /\ wake' = wake
    BY <1>15, UseFields DEF environment
  <2>3. SameTerms(w'.st, w.st)
    BY <1>1, <2>1, MarkTerms
  <2>4. QED
    BY <2>1, <2>2, <2>3 DEF Carries, Refreshing
<1>15b. CASE NamespaceMissing
  BY <1>2, <1>3, <1>15b DEF NamespaceMissing, Refreshing, environment
<1>16. ASSUME NEW pc, NEW next \in Refreshing, Persist(pc, next)
       PROVE  Carries
  <2>1. policy' = policy
    BY <1>16 DEF Persist, environment
  <2>2. CASE w.obj = api
    <3>1. api' = [api EXCEPT !.status = w.st] /\ Goto(next)
      BY <1>16, <2>2 DEF Persist
    <3>2. api'.status = w.st
      BY <1>1, <3>1, WriteFields
    <3>3. QED
      BY <1>2, <1>3, <2>1, <2>2, <3>1, <3>2
  <2>3. CASE w.obj # api
    BY <1>7, <1>16, <2>1, <2>3 DEF Persist
  <2>4. QED
    BY <2>2, <2>3
<1>17. CASE PersistCluster \/ PersistNamespace
  BY <1>16, <1>17 DEF PersistCluster, PersistNamespace, Refreshing
<1>18. CASE CleanupDone
  BY <1>1, <1>2, <1>18, MarkTerms DEF CleanupDone, Refreshing, environment
<1>19. CASE CleanupDelete
  <2>1. /\ w'.st = MarkCleaning(w.st) /\ w'.pc = "patch"
        /\ api' = api /\ policy' = policy /\ wake' = wake
    BY <1>19, CleanupDeleteFields DEF environment
  <2>2. QED
    BY <1>1, <2>1, MarkTerms DEF Carries, Refreshing
<1>20. CASE CleanupBlocked
  BY <1>1, <1>2, <1>20, MarkTerms DEF CleanupBlocked, Refreshing, environment
<1>21. CASE (PatchStatus \/ PatchNothing) /\ w.pc = "patchDone"
  BY <1>2, <1>3, <1>21 DEF PatchStatus, PatchNothing, Refreshing, environment
<1>22. CASE RemoveFinalizer /\ Goto("deleteLease")
  <2>1. api'.status = api.status
    BY <1>1, <1>22 DEF RemoveFinalizer, Removed, Lease
  <2>2. policy' = policy /\ w'.pc = "deleteLease" /\ w'.st = w.st /\ wake' = wake
    BY <1>1, <1>22, GotoFields DEF RemoveFinalizer, environment
  <2>3. QED
    BY <1>3, <2>1, <2>2 DEF Carries, Refreshing
<1>23. AtRest.pc = "idle"
  BY AtRestFields
<1>24. ~AddFinalizer /\ ~DeleteLease /\ ~PatchFails /\ ~RemoveFinalizerFails
  BY <1>23 DEF AddFinalizer, DeleteLease, PatchFails, RemoveFinalizerFails, Finish
<1>25. PatchStatus \/ PatchNothing => w.pc = "patchDone"
  BY <1>23 DEF PatchStatus, PatchNothing, Finish
<1>26. RemoveFinalizer => Goto("deleteLease")
  BY <1>23 DEF RemoveFinalizer, AfterFinalizer, Finish
<1>27. /\ ~BeginGone /\ ~BeginDelete /\ ~BeginAddFinalizer /\ ~BeginRejected /\ ~BeginSync
       /\ ~RefreshCluster /\ ~RefreshNamespace
  BY DEF BeginGone, BeginDelete, BeginAddFinalizer, BeginRejected, BeginSync, Begin,
         RefreshCluster, RefreshNamespace, Refresh, Refreshing
<1>28. QED
  BY <1>4, <1>5, <1>6, <1>8, <1>9, <1>10, <1>11, <1>12, <1>13, <1>14, <1>15, <1>15b, <1>17,
     <1>18, <1>19, <1>20, <1>21, <1>22, <1>24, <1>25, <1>26, <1>27 DEF Reconcile

\* The queue holds the lease and it is due.
Due == wake # Nil /\ wake <= now

\* What is due stays due, and what is queued for now is.
LEMMA DueTimes ==
    ASSUME IInv
    PROVE  /\ \A t \in Nat : Due => QueuedAt(t) # Nil /\ QueuedAt(t) <= now
           /\ QueuedAt(now) # Nil /\ QueuedAt(now) <= now
           /\ QueuedAt(After(0)) # Nil /\ QueuedAt(After(0)) <= now
           /\ \A d \in Nat : After(d) \in Nat
<1>1. Horizon \in Nat /\ now \in Nat /\ wake \in Nat \cup {Nil} /\ Nil \notin Int
  BY ConstantsAssumption, NilAssumption DEF IInv, TimeOrNil
<1>2. \A d \in Nat : After(d) \in Nat
  BY <1>1 DEF After, Lesser
<1>3. After(0) \in Nat /\ After(0) <= now
  BY <1>1 DEF After, Lesser
<1>4. \A t \in Nat : Due => QueuedAt(t) # Nil /\ QueuedAt(t) <= now
  BY <1>1 DEF Due, QueuedAt, Lesser
<1>5. \A t \in Nat : t <= now => QueuedAt(t) # Nil /\ QueuedAt(t) <= now
  BY <1>1 DEF QueuedAt, Lesser
<1>6. QED
  BY <1>1, <1>2, <1>3, <1>4, <1>5

\* A return with a result.
LEMMA FinishDue ==
    ASSUME IInv, now' = now, NEW result \in Nat \cup {Nil}, Finish(result)
    PROVE  /\ w' = AtRest
           /\ Due => Due'
           /\ result = 0 => Due'
<1>1. now \in Nat
  BY DEF IInv
<1>2. wake' = IF result = Nil THEN wake ELSE QueuedAt(After(result))
  BY DEF Finish, Requeue
<1>3. result # Nil => After(result) \in Nat
  BY DueTimes
<1>4. 0 # Nil
  BY NilAssumption
<1>5. QED
  BY <1>2, <1>3, <1>4, DueTimes DEF Finish, Due

\* How Reconcile ends when nothing is due: with the status it worked out, or
\* with the one it found, or with the end of the lease.
LEMMA ReturnTerms ==
    ASSUME IInv, Reconcile, w.pc # "idle", w'.pc = "idle"
    PROVE  /\ policy' = policy
           /\ Due => Due'
           /\ \/ Due'
              \/ w.pc = "patch" /\ cache = api /\ api'.status = w.st
              \/ w.pc = "patch" /\ api' = api /\ w.st = w.before
              \/ w.pc \in {"removeFinalizer", "deleteLease"} /\ api'.status = api.status
<1>1. /\ w \in Worker /\ api \in Lease /\ w.result \in Nat \cup {Nil}
      /\ 0 \in Nat \cup {Nil} /\ Nil \in Nat \cup {Nil}
  BY DEF IInv, WorkerOK, LeaseOK, Worker
<1>2. CASE AddFinalizer \/ PatchFails \/ RemoveFinalizerFails
  <2>1. Finish(0) /\ now' = now /\ policy' = policy
    BY <1>2 DEF AddFinalizer, PatchFails, RemoveFinalizerFails, environment
  <2>2. QED
    BY <1>1, <2>1, FinishDue
<1>3. CASE PatchStatus
  <2>1. now' = now /\ policy' = policy /\ cache = api /\ api' = [api EXCEPT !.status = w.st]
    BY <1>3 DEF PatchStatus, environment
  <2>2. w.pc = "patch" /\ Finish(w.result)
    BY <1>1, <1>3, GotoFields DEF PatchStatus
  <2>3. QED
    BY <1>1, <2>1, <2>2, FinishDue, WriteFields
<1>4. CASE PatchNothing
  <2>1. now' = now /\ policy' = policy /\ w.st = w.before /\ api' = api
    BY <1>4 DEF PatchNothing, PatchSkipped, environment
  <2>2. w.pc = "patch" /\ Finish(w.result)
    BY <1>1, <1>4, GotoFields DEF PatchNothing
  <2>3. QED
    BY <1>1, <2>1, <2>2, FinishDue
<1>5. CASE RemoveFinalizer
  <2>1. /\ now' = now /\ policy' = policy /\ w.pc = "removeFinalizer"
        /\ api'.status = api.status
    BY <1>1, <1>5 DEF RemoveFinalizer, Removed, Lease, environment
  <2>2. Finish(Nil)
    BY <1>1, <1>5, GotoFields DEF RemoveFinalizer, AfterFinalizer
  <2>3. QED
    BY <1>1, <2>1, <2>2, FinishDue
<1>6. CASE DeleteLease
  <2>1. now' = now /\ policy' = policy /\ w.pc = "deleteLease" /\ Finish(Nil)
    BY <1>6 DEF DeleteLease, environment
  <2>2. api'.status = api.status
    BY <1>1, <1>6, WriteFields DEF DeleteLease
  <2>3. QED
    BY <1>1, <2>1, <2>2, FinishDue
<1>7. /\ ~BeginGone /\ ~BeginDelete /\ ~BeginAddFinalizer /\ ~BeginRejected /\ ~BeginSync
      /\ ~RefreshCluster /\ ~RefreshNamespace
  BY <1>1, RefreshFields
     DEF BeginGone, BeginDelete, BeginAddFinalizer, BeginRejected, BeginSync, Begin,
         RefreshCluster, RefreshNamespace
<1>8. /\ ~Sync /\ ~CheckExpired /\ ~ResolveTarget /\ ~EnsureConstraints /\ ~EmitWarnings
      /\ ~BecomeReady /\ ~CleanupDone /\ ~NamespaceMissing
  <2>1. ASSUME NEW pc, pc # "idle", Goto(pc) \/ \E st : GotoWith(pc, st)
        PROVE  FALSE
    BY <1>1, <2>1, GotoFields, GotoWithFields
  <2>2. QED
    BY <2>1 DEF Sync, CheckExpired, ResolveTarget, EnsureConstraints, EmitWarnings,
                BecomeReady, CleanupDone, NamespaceMissing
<1>9. ASSUME NEW st, NEW result, GotoPatch(st, result)
      PROVE  FALSE
  BY <1>1, <1>9, GotoPatchFields
<1>10. ~PersistCluster /\ ~PersistNamespace
  BY <1>1, GotoFields, GotoPatchFields DEF PersistCluster, PersistNamespace, Persist
<1>11. ~KeepNamespace /\ ~CreateNamespace
  BY <1>1, UseFields
<1>12. ~CleanupDelete
  BY <1>1, CleanupDeleteFields
<1>13. ~TargetError /\ ~EnsureNamespaceFails /\ ~EnsureConstraintsFails /\ ~CleanupBlocked
  BY <1>9 DEF TargetError, EnsureNamespaceFails, EnsureConstraintsFails, CleanupBlocked
<1>14. ~Schedule
  BY <1>9, ScheduleDelay
<1>15. QED
  BY <1>2, <1>3, <1>4, <1>5, <1>6, <1>7, <1>8, <1>10, <1>11, <1>12, <1>13, <1>14
     DEF Reconcile

\* What others do: heartbeats leave the terms alone, and whoever changes the
\* cached lease or the policy queues the lease.
LEMMA OtherTerms ==
    ASSUME IInv, Cluster \/ Client \/ UNCHANGED vars
    PROVE  /\ SameTerms(api'.status, api.status)
           /\ Due => Due'
           /\ \/ Due'
              \/ w' = w /\ UNCHANGED <<cache, wake>> /\ (policy' = policy \/ ~cache.exists)
<1>1. api \in Lease /\ api.status \in LeaseStatus /\ now \in Nat /\ wake \in Nat \cup {Nil}
  BY DEF IInv, LeaseOK, StatusOK, TimeOrNil
<1>2. now # Nil /\ now <= now
  BY <1>1, NilAssumption
<1>3. api' = api => SameTerms(api'.status, api.status)
  BY DEF SameTerms
<1>4. CASE CacheSync \/ NamespaceSync \/ Crash \/ Resync
  <2>1. now' = now /\ api' = api /\ (wake' = QueuedAt(now) \/ wake' = now)
    BY <1>4 DEF CacheSync, NamespaceSync, Crash, Resync
  <2>2. QED
    BY <1>2, <1>3, <2>1, DueTimes DEF Due
<1>5. CASE Tick
  <2>1. /\ now' = now + 1 /\ wake' = wake
        /\ UNCHANGED <<api, cache, w, policy>>
    BY <1>5 DEF Tick, environment
  <2>2. Due => Due'
    BY <1>1, <2>1 DEF Due
  <2>3. QED
    BY <1>3, <2>1, <2>2
<1>6. CASE TargetLost \/ TargetBack \/ UNCHANGED vars
  BY <1>3, <1>6 DEF TargetLost, TargetBack, vars, Due
<1>7. CASE \E p \in Policies \cup {Nil} : PolicyChange(p)
  BY <1>3, <1>7, DueTimes DEF PolicyChange, Due
<1>8. CASE \E n \in Names : NamespaceGone(n) \/ NamespaceDrift(n)
  <2>1. UNCHANGED <<now, api, cache, w, wake, policy>>
    BY <1>8 DEF NamespaceGone, NamespaceDrift, environment
  <2>2. QED
    BY <1>3, <2>1 DEF Due
<1>9. CASE Client
  <2>1. UNCHANGED <<now, cache, w, wake, policy>>
    BY <1>9 DEF Client, EditSpec, Expire, TouchStart, TouchWrite, ExtendRead,
                ExtendWrite, environment
  <2>2. SameTerms(api'.status, api.status)
    <3>1. CASE TouchWrite
      <4> DEFINE st == RecordActivity(api.status, touchAt, IdleTTLFromLease(api))
      <4>1. touchAt \in Nat
        BY <3>1 DEF TouchWrite, IInv, TimeOrNil
      <4>2. api' = api \/ api' = [api EXCEPT !.status = st]
        BY <3>1 DEF TouchWrite
      <4>3. SameTerms(st, api.status)
        BY <1>1, <4>1, RecordTerms
      <4> HIDE DEF st
      <4>4. QED
        <5>1. CASE api' = api
          BY <1>3, <5>1
        <5>2. CASE api' = [api EXCEPT !.status = st]
          <6>1. api'.status = st
            BY <1>1, <5>2, WriteFields
          <6>2. QED
            BY <4>3, <6>1
        <5>3. QED
          BY <4>2, <5>1, <5>2
    <3>2. CASE Expire \/ TouchStart \/ ExtendRead \/ ExtendWrite
               \/ \E s \in Specs : EditSpec(s)
      <4>1. CASE TouchStart \/ ExtendRead
        BY <1>3, <4>1 DEF TouchStart, ExtendRead
      <4>2. CASE Expire
        BY <1>1, <4>2, WriteFields DEF Expire, SameTerms
      <4>3. CASE ExtendWrite
        <5>1. CASE api' = api
          BY <1>3, <5>1
        <5>2. CASE api' = [api EXCEPT !.spec.ttl = extendTo]
          BY <1>1, <5>2, WriteFields DEF SameTerms
        <5>3. QED
          BY <4>3, <5>1, <5>2 DEF ExtendWrite
      <4>4. CASE \E s \in Specs : EditSpec(s)
        <5>1. PICK s \in Specs : EditSpec(s)
          BY <4>4
        <5>2. api'.status = api.status
          BY <1>1, <5>1, WriteFields DEF EditSpec
        <5>3. QED
          BY <5>2 DEF SameTerms
      <4>5. QED
        BY <3>2, <4>1, <4>2, <4>3, <4>4
    <3>3. QED
      BY <1>9, <3>1, <3>2 DEF Client
  <2>3. QED
    BY <2>1, <2>2 DEF Due
<1>10. QED
  BY <1>4, <1>5, <1>6, <1>7, <1>8, <1>9 DEF Cluster

\* The five kinds of steps.
LEMMA StepKinds ==
    ASSUME IInv, [Next]_vars
    PROVE  \/ Reconcile /\ Starts /\ w.pc = "idle"
           \/ Reconcile /\ Rereads /\ w.pc \in Refreshing
           \/ /\ Reconcile /\ Advances
              /\ w.pc # "idle" /\ w.pc \notin Refreshing /\ w'.pc # "idle"
           \/ Reconcile /\ Returns /\ w.pc # "idle" /\ w'.pc = "idle"
           \/ Elsewhere /\ (Cluster \/ Client \/ UNCHANGED vars)
<1>1. ASSUME Flows(w.pc, w'.pc)
      PROVE  w.pc # "idle" /\ w.pc \notin Refreshing /\ w'.pc # "idle"
  BY <1>1 DEF Flows, Refreshing
<1>2. QED
  BY <1>1, ReconcileSteps, OtherSteps, AtRestFields
     DEF Next, Starts, Rereads, Advances, Returns, Refreshing

-----------------------------------------------------------------------------
(* A lease at rest obeys the policy of the moment                          *)

\* The status shows what the spec resolves to, and its cap follows from that.
Obeys(spec, st) ==
    /\ ~Rejected(spec)
    /\ st.effective = Resolve(spec, policy)
    /\ st.maximumExpiresAt = st.createdAt + st.effective.maxTTL

\* Reconcile, from EnsureTimestamps to the last decision of reconcileActive.
Deriving == {"check", "target", "persistCluster", "refreshCluster", "ensureNamespace",
             "createNamespace", "persistNamespace", "refreshNamespace", "constraints", "warn", "ready",
             "schedule"}

\* While Reconcile runs, an event is either due or has not come.
BusyIsDue == w.pc # "idle" => wake = Nil \/ Due

\* As long as none has come, Reconcile works on the cached lease, and with
\* what this resolves to now.
SameObject ==
    w.pc # "idle" /\ wake = Nil => cache.exists /\ w.obj = cache /\ w.before = cache.status

StillResolved ==
    w.pc \in Deriving \cup {"sync"} /\ wake = Nil =>
        ~Rejected(cache.spec) /\ w.resolved = Resolve(cache.spec, policy)

\* What is to be read again is what was written.
Persisted == w.pc \in Refreshing => SameTerms(api.status, w.st)

\* The terms that Reconcile works with are the right ones, unless an event
\* with the terms that it stored is on its way.
TermsRight ==
    /\ w.pc \in Deriving \/ (w.pc = "patch" /\ w.st.ready)
    /\ wake = Nil /\ SameTerms(api.status, cache.status)
    => Obeys(cache.spec, w.st)

\* The end of a lease is not Ready.
EndingNotReady ==
    /\ w.pc \in {"cleanup", "patchDone"} => ~w.st.ready
    /\ w.pc \in {"removeFinalizer", "deleteLease"} /\ wake = Nil =>
          ~(api.status.ready /\ cache.status.ready)

\* And so is what Reconcile leaves behind.
RestObeys ==
    /\ w.pc = "idle" /\ ~Due
    /\ cache.exists /\ cache.status.ready /\ api.status.ready
    /\ SameTerms(api.status, cache.status)
    => Obeys(cache.spec, cache.status)

PolicyInv ==
    /\ StoredInOrder /\ BusyIsDue /\ SameObject /\ StillResolved /\ Persisted
    /\ TermsRight /\ EndingNotReady /\ RestObeys

\* A new Reconcile takes the entry off the queue and resolves afresh.
LEMMA StartObeys ==
    ASSUME IInv, PolicyInv, Reconcile, Starts, w.pc = "idle", StoredInOrder'
    PROVE  PolicyInv'
<1>1. wake' = Nil /\ UNCHANGED <<now, api, cache>>
  BY DEF Starts
<1>2. CASE w'.pc = "idle"
  <2>1. ~cache'.exists
    BY <1>1, <1>2 DEF Starts, PolicyInv, StoredInOrder, Pending
  <2>2. QED
    BY <1>2, <2>1 DEF PolicyInv, BusyIsDue, SameObject, StillResolved, Persisted,
                      TermsRight, EndingNotReady, RestObeys, Deriving, Refreshing
<1>3. CASE w'.pc # "idle"
  <2>1. /\ cache.exists /\ policy' = policy
        /\ w'.obj = cache /\ w'.before = cache.status
        /\ \/ /\ w'.pc = "sync" /\ ~Rejected(cache.spec)
              /\ w'.resolved = Resolve(cache.spec, policy)
           \/ w'.pc \in {"cleanup", "addFinalizer", "patch"}
        /\ w'.pc \in {"cleanup", "patch"} => ~w'.st.ready
    BY <1>3, StartTerms DEF Starts
  <2>2. BusyIsDue' /\ SameObject'
    BY <1>1, <2>1 DEF BusyIsDue, SameObject
  <2>3. StillResolved'
    BY <1>1, <2>1 DEF StillResolved, Deriving, Rejected
  <2>4. Persisted' /\ TermsRight' /\ EndingNotReady' /\ RestObeys'
    BY <2>1 DEF Persisted, TermsRight, EndingNotReady, RestObeys, Deriving, Refreshing
  <2>5. QED
    BY <2>2, <2>3, <2>4 DEF PolicyInv
<1>4. QED
  BY <1>2, <1>3

\* A re-read without an event finds what was there before: if that has the
\* terms that were stored, they are the right ones.
LEMMA RereadObeys ==
    ASSUME IInv, PolicyInv, Reconcile, Rereads, w.pc \in Refreshing, StoredInOrder'
    PROVE  PolicyInv'
<1>1. /\ w'.pc \in {"ensureNamespace", "constraints"} /\ w.pc # "idle" /\ w.pc \in Deriving
      /\ UNCHANGED <<now, api, cache, wake, policy>>
      /\ w'.obj = cache /\ w'.before = w.before /\ w'.resolved = w.resolved
      /\ w'.st.effective = w.resolved
      /\ w'.st.createdAt = cache.status.createdAt
      /\ w'.st.maximumExpiresAt = cache.status.maximumExpiresAt
  BY RereadTerms DEF Rereads, Refreshing, Deriving
<1>2. BusyIsDue' /\ SameObject'
  BY <1>1 DEF PolicyInv, BusyIsDue, SameObject, Due
<1>3. StillResolved'
  BY <1>1 DEF PolicyInv, StillResolved, Rejected
<1>4. TermsRight'
  <2> SUFFICES ASSUME wake = Nil, SameTerms(api.status, cache.status)
               PROVE  Obeys(cache.spec, w'.st)
    BY <1>1 DEF TermsRight, Obeys, Rejected
  <2>1. Obeys(cache.spec, w.st) /\ SameTerms(api.status, w.st)
    BY <1>1 DEF PolicyInv, TermsRight, Persisted
  <2>2. w.resolved = Resolve(cache.spec, policy)
    BY <1>1 DEF PolicyInv, StillResolved
  <2>3. QED
    BY <1>1, <2>1, <2>2 DEF Obeys, SameTerms
<1>5. Persisted' /\ EndingNotReady' /\ RestObeys'
  BY <1>1 DEF Persisted, EndingNotReady, RestObeys, Refreshing
<1>6. QED
  BY <1>2, <1>3, <1>4, <1>5 DEF PolicyInv

\* The steps in between.
LEMMA WorkObeys ==
    ASSUME IInv, PolicyInv, Reconcile, Advances,
           w.pc # "idle", w.pc \notin Refreshing, w'.pc # "idle", StoredInOrder'
    PROVE  PolicyInv'
<1>1. Carries
  BY WorkTerms
<1>2. /\ UNCHANGED <<now, cache, policy>>
      /\ w'.obj = w.obj /\ w'.before = w.before /\ w'.resolved = w.resolved
      /\ Flows(w.pc, w'.pc) /\ StatusFlows /\ Writes
  BY <1>1 DEF Advances, Carries
<1>3. /\ wake' = Nil => wake = Nil
      /\ wake' = Nil \/ Due'
  <2>1. CASE wake' = wake
    BY <1>2, <2>1 DEF PolicyInv, BusyIsDue, Due
  <2>2. CASE wake' = QueuedAt(now)
    BY <1>2, <2>2, DueTimes DEF Due
  <2>3. QED
    BY <1>1, <2>1, <2>2 DEF Carries
<1>4. BusyIsDue' /\ SameObject'
  BY <1>2, <1>3 DEF PolicyInv, BusyIsDue, SameObject
<1>5. w'.pc \in Deriving => w.pc \in Deriving \cup {"sync"}
  BY <1>2 DEF Flows, Deriving
<1>6. StillResolved'
  BY <1>2, <1>3, <1>5 DEF PolicyInv, StillResolved, Rejected, Flows
<1>7. Persisted'
  BY <1>1 DEF Persisted, Carries, SameTerms
<1>8. TermsRight'
  <2> SUFFICES ASSUME w'.pc \in Deriving \/ (w'.pc = "patch" /\ w'.st.ready),
                      wake' = Nil, SameTerms(api'.status, cache.status)
               PROVE  Obeys(cache.spec, w'.st)
    BY <1>2 DEF TermsRight, Obeys, Rejected
  <2>1. wake = Nil /\ w.obj = cache
    BY <1>3 DEF PolicyInv, SameObject
  <2>2. CASE w.pc = "sync"
    <3>1. w'.st = Synced(w.obj.status, w.resolved, now)
      BY <1>2, <2>2 DEF StatusFlows
    <3>2. w.obj.status \in LeaseStatus /\ w.resolved \in Resolved
      BY DEF IInv, WorkerOK, LeaseOK, StatusOK, Worker
    <3>3. /\ w'.st.effective = w.resolved
          /\ w'.st.maximumExpiresAt = w'.st.createdAt + w.resolved.maxTTL
      BY <3>1, <3>2, SyncedTerms
    <3>4. ~Rejected(cache.spec) /\ w.resolved = Resolve(cache.spec, policy)
      BY <2>1, <2>2 DEF PolicyInv, StillResolved
    <3>5. QED
      BY <3>3, <3>4 DEF Obeys
  <2>3. CASE w.pc \in Deriving
    <3>1. SameTerms(api.status, cache.status)
      <4>1. CASE w'.pc \in Refreshing
        BY <1>1, <2>1, <4>1 DEF Carries, SameTerms
      <4>2. CASE w'.pc \notin Refreshing
        BY <1>1, <2>3, <4>2 DEF Carries, Deriving
      <4>3. QED
        BY <4>1, <4>2
    <3>2. Obeys(cache.spec, w.st)
      BY <2>1, <2>3, <3>1 DEF PolicyInv, TermsRight
    <3>3. SameTerms(w'.st, w.st)
      BY <1>1, <2>3 DEF Carries, Deriving
    <3>4. QED
      BY <3>2, <3>3 DEF Obeys, SameTerms
  <2>4. CASE w.pc \notin Deriving \cup {"sync"}
    <3>1. w.pc = "cleanup" /\ w'.st.ready
      BY <1>2, <1>5, <2>4 DEF Flows, Deriving
    <3>2. QED
      BY <1>2, <3>1 DEF StatusFlows, PolicyInv, EndingNotReady
  <2>5. QED
    BY <2>2, <2>3, <2>4
<1>9. EndingNotReady'
  <2>1. w'.pc = "cleanup" => ~w'.st.ready
    BY <1>2 DEF StatusFlows
  <2>2. w'.pc = "patchDone" => ~w'.st.ready
    BY <1>2 DEF Flows, StatusFlows, PolicyInv, EndingNotReady
  <2>3. ASSUME w'.pc = "removeFinalizer", wake' = Nil
        PROVE  ~(api'.status.ready /\ cache'.status.ready)
    <3>1. w.pc = "patchDone" /\ ~w.st.ready /\ w.before = cache.status
      BY <1>2, <1>3, <2>3 DEF Flows, PolicyInv, EndingNotReady, SameObject
    <3>2. api'.status = w.st \/ w.st = w.before
      BY <1>2, <3>1 DEF Writes
    <3>3. QED
      BY <1>2, <3>1, <3>2
  <2>4. ASSUME w'.pc = "deleteLease", wake' = Nil
        PROVE  ~(api'.status.ready /\ cache'.status.ready)
    <3>1. w.pc = "removeFinalizer"
      BY <1>2, <2>4 DEF Flows
    <3>2. api'.status = api.status
      BY <1>2, <3>1 DEF Writes
    <3>3. QED
      BY <1>2, <1>3, <2>4, <3>1, <3>2 DEF PolicyInv, EndingNotReady
  <2>5. QED
    BY <2>1, <2>2, <2>3, <2>4 DEF EndingNotReady
<1>10. RestObeys'
  BY DEF RestObeys
<1>11. QED
  BY <1>4, <1>6, <1>7, <1>8, <1>9, <1>10 DEF PolicyInv

\* The end of a Reconcile during which no event came.
LEMMA ReturnObeys ==
    ASSUME IInv, PolicyInv, Reconcile, Returns, w.pc # "idle", w'.pc = "idle", StoredInOrder'
    PROVE  PolicyInv'
<1>1. cache' = cache /\ policy' = policy
  BY ReturnTerms DEF Returns
<1>2. RestObeys'
  <2> SUFFICES ASSUME ~Due', cache.status.ready, api'.status.ready,
                      SameTerms(api'.status, cache.status)
               PROVE  Obeys(cache.spec, cache.status)
    BY <1>1 DEF RestObeys, Obeys, Rejected
  <2>1. wake = Nil /\ w.before = cache.status
    BY ReturnTerms DEF PolicyInv, BusyIsDue, SameObject
  <2>2. CASE w.pc = "patch" /\ cache = api /\ api'.status = w.st
    <3>1. Obeys(cache.spec, w.st)
      BY <2>1, <2>2 DEF PolicyInv, TermsRight, SameTerms
    <3>2. QED
      BY <2>2, <3>1 DEF Obeys, SameTerms
  <2>3. CASE w.pc = "patch" /\ api' = api /\ w.st = w.before
    BY <2>1, <2>3 DEF PolicyInv, TermsRight
  <2>4. CASE w.pc \in {"removeFinalizer", "deleteLease"} /\ api'.status = api.status
    BY <2>1, <2>4 DEF PolicyInv, EndingNotReady
  <2>5. QED
    BY <2>2, <2>3, <2>4, ReturnTerms
<1>3. BusyIsDue' /\ SameObject' /\ StillResolved' /\ Persisted' /\ TermsRight' /\ EndingNotReady'
  BY DEF BusyIsDue, SameObject, StillResolved, Persisted, TermsRight, EndingNotReady,
         Deriving, Refreshing
<1>4. QED
  BY <1>2, <1>3 DEF PolicyInv

\* Everybody else leaves what matters alone, or an event behind.
LEMMA OthersObey ==
    ASSUME IInv, PolicyInv, Elsewhere, Cluster \/ Client \/ UNCHANGED vars, StoredInOrder'
    PROVE  PolicyInv'
<1>1. SameTerms(api'.status, api.status) /\ api'.status.ready = api.status.ready
  BY OtherTerms DEF Elsewhere, OthersWrite
<1>2. w' = w \/ (w'.pc = "idle")
  BY AtRestFields DEF Elsewhere
<1>3. Persisted'
  BY <1>1, <1>2 DEF PolicyInv, Persisted, SameTerms, Refreshing
<1>4. CASE Due'
  <2>1. wake' # Nil
    BY <1>4 DEF Due
  <2>2. BusyIsDue' /\ SameObject' /\ StillResolved' /\ TermsRight' /\ RestObeys'
    BY <1>4, <2>1 DEF BusyIsDue, SameObject, StillResolved, TermsRight, RestObeys
  <2>3. EndingNotReady'
    BY <1>2, <2>1 DEF PolicyInv, EndingNotReady
  <2>4. QED
    BY <1>3, <2>2, <2>3 DEF PolicyInv
<1>5. CASE ~Due'
  <2>1. /\ ~Due /\ w' = w /\ UNCHANGED <<cache, wake>>
        /\ policy' = policy \/ ~cache.exists
    BY <1>5, OtherTerms
  <2>2. w.pc # "idle" => wake = Nil /\ cache.exists /\ policy' = policy
    BY <2>1 DEF PolicyInv, BusyIsDue, SameObject
  <2>3. BusyIsDue' /\ SameObject' /\ EndingNotReady'
    BY <1>1, <2>1, <2>2 DEF PolicyInv, BusyIsDue, SameObject, EndingNotReady
  <2>4. StillResolved'
    BY <2>1, <2>2 DEF PolicyInv, StillResolved, Rejected, Deriving
  <2>5. SameTerms(api'.status, cache'.status) => SameTerms(api.status, cache.status)
    BY <1>1, <2>1 DEF SameTerms
  <2>6. TermsRight'
    BY <2>1, <2>2, <2>5 DEF PolicyInv, TermsRight, Obeys, Rejected, Deriving
  <2>7. RestObeys'
    BY <1>1, <2>1, <2>5 DEF PolicyInv, RestObeys, Obeys, Rejected
  <2>8. QED
    BY <1>3, <2>3, <2>4, <2>6, <2>7 DEF PolicyInv
<1>6. QED
  BY <1>4, <1>5

\* The inductive invariant holds in every reachable state, lagging reads,
\* exhausted retries and crashes included.
THEOREM PolicyInvariant == Spec => []PolicyInv
<1>1. Init => PolicyInv
  <2> SUFFICES ASSUME Init PROVE PolicyInv
    OBVIOUS
  <2>1. w = AtRest /\ cache = api /\ ~api.deleting /\ wake = now /\ now = CreationTimestamp
    BY DEF Init
  <2>2. w.pc = "idle"
    BY <2>1, AtRestFields
  <2>3. Due
    BY <2>1, ConstantsAssumption, NilAssumption DEF Due
  <2>4. QED
    BY <2>1, <2>2, <2>3
       DEF PolicyInv, StoredInOrder, Pending, BusyIsDue, SameObject, StillResolved,
           Persisted, TermsRight, EndingNotReady, RestObeys, Deriving, Refreshing
<1>2. IInv /\ PolicyInv /\ [Next]_vars => PolicyInv'
  <2> SUFFICES ASSUME IInv, PolicyInv, [Next]_vars PROVE PolicyInv'
    OBVIOUS
  <2>1. StoredInOrder'
    BY StaysInOrder DEF PolicyInv
  <2>2. QED
    BY <2>1, StepKinds, StartObeys, RereadObeys, WorkObeys, ReturnObeys, OthersObey
<1>3. QED
  BY <1>1, <1>2, Invariant, PTL DEF Spec

\* Once the work for a lease has settled, a Ready lease obeys the policy and
\* the spec of the moment: whatever changed during a Reconcile has left an
\* entry in the queue that outlives it.
THEOREM PolicyObeyed == Spec => []SettledObeysPolicy
<1>1. IInv /\ PolicyInv => SettledObeysPolicy
  <2> SUFFICES ASSUME IInv, PolicyInv, w.pc = "idle", cache = api, wake = Nil \/ wake > now,
                      api.exists, api.status.ready
               PROVE  Obeys(api.spec, api.status)
    BY DEF SettledObeysPolicy, Obeys
  <2>1. ~Due
    BY DEF Due, IInv, TimeOrNil
  <2>2. QED
    BY <2>1 DEF PolicyInv, RestObeys, SameTerms
<1>2. QED
  BY <1>1, Invariant, PolicyInvariant, PTL

-----------------------------------------------------------------------------
(* A lease that is not renewable is never renewed                          *)

\* Between policy.Resolve and its last write Reconcile has a deadline that is
\* not later than the stored one.
NotLater ==
    ~w.resolved.renewable =>
      /\ w.pc = "sync" => w.obj.status.expiresAt = api.status.expiresAt
      /\ w.pc # "sync" /\ api.status.expiresAt # Nil =>
            w.st.expiresAt # Nil /\ w.st.expiresAt <= api.status.expiresAt

\* It stays so: with current reads, the deadline that Reconcile starts from
\* and the one that it reads again are the stored ones.
LEMMA StaysNotLater ==
    ASSUME "stale" \notin Features, IInv, NotLater, [Next]_vars
    PROVE  NotLater'
<1>1. /\ api.status.expiresAt \in Int \cup {Nil} /\ cache.status.expiresAt \in Int \cup {Nil}
      /\ w.st.expiresAt \in Int \cup {Nil} /\ Nil \notin Int
      /\ w.obj.status \in LeaseStatus /\ w.resolved \in Resolved
  BY NilAssumption DEF IInv, WorkerOK, LeaseOK, StatusOK, LeaseStatus, Worker
<1>2. AtRest.resolved.renewable
  BY DEF AtRest, Unresolved
<1>3. CASE Reconcile /\ Starts /\ w.pc = "idle"
  <2>1. CASE w'.pc = "idle"
    BY <1>3, <2>1 DEF Starts, NotLater
  <2>2. CASE w'.pc # "idle"
    <3>1. cache = api /\ api' = api /\ w'.obj = cache
      BY <1>3, <2>2, StartTerms DEF Starts, CanRead
    <3>2. w'.pc = "sync" \/ w'.resolved.renewable
      BY <1>3, <2>2, StartTerms DEF Unresolved
    <3>3. QED
      BY <3>1, <3>2 DEF NotLater
  <2>3. QED
    BY <2>1, <2>2
<1>4. CASE Reconcile /\ Rereads /\ w.pc \in Refreshing
  <2>1. cache = api /\ api' = api /\ w'.pc # "sync" /\ w'.st.expiresAt = cache.status.expiresAt
    BY <1>4, RereadTerms DEF Rereads, CanRead
  <2>2. QED
    BY <1>1, <2>1 DEF NotLater
<1>5. CASE /\ Reconcile /\ Advances
           /\ w.pc # "idle" /\ w.pc \notin Refreshing /\ w'.pc # "idle"
  <2>1. /\ w'.resolved = w.resolved /\ w'.pc # "sync" /\ Carries
        /\ StatusFlows /\ Writes
    BY <1>5, WorkTerms DEF Advances, Flows
  <2>2. CASE w.pc = "sync"
    <3>1. w'.st = Synced(w.obj.status, w.resolved, now) /\ api'.status = api.status
      BY <2>1, <2>2 DEF StatusFlows, Writes
    <3>2. ~w.resolved.renewable /\ w.obj.status.expiresAt # Nil =>
             w'.st.expiresAt \in Int /\ w'.st.expiresAt <= w.obj.status.expiresAt
      BY <1>1, <3>1, SyncedTerms
    <3>3. QED
      BY <1>1, <2>1, <2>2, <3>1, <3>2 DEF NotLater
  <2>3. CASE w.pc # "sync"
    <3>1. w'.st.expiresAt = w.st.expiresAt
      BY <2>1, <2>3 DEF Carries, SameTerms
    <3>2. api'.status = api.status \/ api'.status = w.st
      BY <2>1 DEF Writes
    <3>3. QED
      BY <1>1, <2>1, <2>3, <3>1, <3>2 DEF NotLater
  <2>4. QED
    BY <2>2, <2>3
<1>6. CASE Reconcile /\ Returns /\ w.pc # "idle" /\ w'.pc = "idle"
  BY <1>2, <1>6 DEF Returns, NotLater
<1>7. CASE Elsewhere /\ (Cluster \/ Client \/ UNCHANGED vars)
  <2>1. api'.status.expiresAt = api.status.expiresAt
    BY <1>7, OtherTerms DEF SameTerms
  <2>2. QED
    BY <1>2, <1>7, <2>1 DEF Elsewhere, NotLater
<1>8. QED
  BY <1>3, <1>4, <1>5, <1>6, <1>7, StepKinds

\* A Reconcile that resolved the lease as not renewable never moves its hard
\* deadline later, when the controller's reads are current.
THEOREM NeverRenewed ==
    ASSUME "stale" \notin Features
    PROVE  Spec => NonRenewableNeverLater
<1> DEFINE Act == ~w.resolved.renewable /\ api.status.expiresAt # Nil =>
                    api'.status.expiresAt # Nil /\ api'.status.expiresAt <= api.status.expiresAt
<1>1. Init => NotLater
  BY DEF Init, NotLater, AtRest, Unresolved
<1>2. IInv /\ NotLater /\ [Next]_vars => NotLater'
  BY StaysNotLater
<1>3. IInv /\ NotLater /\ [Next]_vars => [Act]_vars
  <2> SUFFICES ASSUME IInv, NotLater, [Next]_vars,
                      ~w.resolved.renewable, api.status.expiresAt # Nil
               PROVE  /\ api'.status.expiresAt # Nil
                      /\ api'.status.expiresAt <= api.status.expiresAt
    OBVIOUS
  <2>1. api.status.expiresAt \in Int
    BY DEF IInv, LeaseOK, StatusOK, LeaseStatus
  <2>2. CASE api'.status.expiresAt = api.status.expiresAt
    BY <2>1, <2>2
  <2>3. CASE api'.status = w.st /\ w.pc # "sync"
    BY <2>3 DEF NotLater
  <2>4. CASE Reconcile
    BY <2>2, <2>3, <2>4, ReconcileSteps DEF Starts, Rereads, Advances, Writes, Returns
  <2>5. CASE Cluster \/ Client \/ UNCHANGED vars
    BY <2>2, <2>5, OtherTerms DEF SameTerms
  <2>6. QED
    BY <2>4, <2>5 DEF Next
<1>4. QED
  BY <1>1, <1>2, <1>3, Invariant, PTL DEF Spec, NonRenewableNeverLater
=============================================================================
