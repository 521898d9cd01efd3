------------------------ MODULE LeaseTeardownProofs ------------------------
(***************************************************************************)
(* Machine-checked proofs about the end of a lease in LeaseReconcile, for  *)
(* every value of the constants, stale reads, crashes and exhausted        *)
(* retries included: a Namespace is only taken down for a lease that was   *)
(* deleted or is past its deadline, and a cleanup is never taken back.     *)
(***************************************************************************)
EXTENDS LeaseReconcileProofs

-----------------------------------------------------------------------------
(* The inductive invariants                                                *)

\* Only reconcileDelete gives this reason.
Manual(st) == st.expirationReason = "ManualExpiration"

\* reconcileDelete has run: its reason is in some copy of the status.
DeleteSeen ==
    Manual(api.status) \/ Manual(cache.status) \/ Manual(w.st) \/ Manual(w.obj.status)

\* A deletion that was read is still there.
DeletionKnown ==
    /\ cache.deleting => api.deleting
    /\ w.obj.deleting => api.deleting

\* From then on every Reconcile is one of reconcileDelete.
OnlyCleanup ==
    DeleteSeen =>
      /\ cache.deleting
      /\ w.pc # "idle" => /\ w.pc \in {"cleanup", "patch", "patchDone", "removeFinalizer"}
                          /\ w.obj.deleting
                          /\ w.st.phase \in {"Cleaning", "Expired"}

\* The deadline that follows from the object that Reconcile works on.
Deadline == EffectiveDeadline(Synced(w.obj.status, w.resolved, now))

\* IsExpired compares that deadline, and cleanup of a lease that was not
\* deleted starts when it has passed.
Justified ==
    /\ w.pc = "check" => EffectiveDeadline(w.st) = Deadline
    /\ w.pc = "cleanup" => w.obj.deleting \/ (Deadline \in Int /\ now >= Deadline)

TInv == DeletionKnown /\ OnlyCleanup /\ Justified

-----------------------------------------------------------------------------
(* Reconcile, step by step                                                 *)

\* A deleted lease waits for its finalizer.
Pending(lease) == lease.exists /\ lease.deleting => lease.finalizer

\* Where Reconcile goes on to.
Flows(p, q) ==
    \/ p = "sync" /\ q = "check"
    \/ p = "check" /\ q \in {"cleanup", "target"}
    \/ p = "target" /\ q \in {"persistCluster", "ensureNamespace", "patch"}
    \/ p = "persistCluster" /\ q \in {"refreshCluster", "patch"}
    \/ p = "ensureNamespace" /\ q \in {"createNamespace", "constraints", "persistNamespace", "patch"}
    \/ p = "createNamespace" /\ q \in {"constraints", "persistNamespace", "patch"}
    \/ p = "persistNamespace" /\ q \in {"refreshNamespace", "patch"}
    \/ p = "constraints" /\ q \in {"warn", "patch"}
    \/ p = "warn" /\ q = "ready"
    \/ p = "ready" /\ q = "schedule"
    \/ p = "schedule" /\ q = "patch"
    \/ p = "cleanup" /\ q \in {"patch", "patchDone"}
    \/ p = "patchDone" /\ q = "removeFinalizer"
    \/ p = "removeFinalizer" /\ q = "deleteLease"

\* ... with which status and result: a lease on a remote cluster is always
\* looked at again,
StatusFlows ==
    /\ w.pc = "sync" => /\ w'.st = Synced(w.obj.status, w.resolved, now)
                        /\ Manual(w'.st) => Manual(w.obj.status)
    /\ w.pc # "sync" => (Manual(w'.st) => Manual(w.st))
    /\ w.pc = "cleanup" => /\ w'.st.phase \in {"Cleaning", "Expired"}
                           /\ w'.st.ready => w.st.ready
    /\ w'.pc = "cleanup" => IsExpired(w.st, now) /\ ~w'.st.ready
    /\ w.pc \in {"persistCluster", "persistNamespace", "patchDone", "removeFinalizer"} =>
          w'.st = w.st
    /\ w'.pc = "patch" => w'.result # Nil \/ (w.pc = "schedule" /\ Remote # TRUE)

\* ... and what it writes on the way.  A write keeps a deleted lease waiting
\* for its finalizer.
Writes ==
    /\ api'.deleting = api.deleting
    /\ api'.exists => api.exists
    /\ \/ api'.status = api.status /\ (w.pc = "patchDone" => w.st = w.before)
       \/ /\ w.pc \in {"persistCluster", "persistNamespace", "patchDone"}
          /\ api'.status = w.st
    /\ Pending(api) => Pending(api')

\* A step inside Reconcile that works on with the same object.
Advances ==
    /\ Flows(w.pc, w'.pc)
    /\ w.pc = "removeFinalizer" => ~w.obj.deleting
    /\ w'.obj = w.obj /\ w'.before = w.before /\ w'.resolved = w.resolved
    /\ UNCHANGED <<now, cache>>
    /\ wake' = wake \/ wake' # Nil
    /\ StatusFlows
    /\ Writes

\* The queue never holds "no time".
LEMMA QueuedSometime ==
    ASSUME IInv
    PROVE  /\ QueuedAt(now) # Nil
           /\ \A d \in Nat : QueuedAt(After(d)) # Nil
<1>1. Horizon \in Nat /\ now \in Nat /\ wake \in Nat \cup {Nil} /\ Nil \notin Int
  BY ConstantsAssumption, NilAssumption DEF IInv, TimeOrNil
<1>2. \A t \in Nat : QueuedAt(t) \in Nat
  BY <1>1 DEF QueuedAt, Lesser
<1>3. \A d \in Nat : After(d) \in Nat
  BY <1>1 DEF After, Lesser
<1>4. QED
  BY <1>1, <1>2, <1>3

\* Steps that leave the lease alone ...
LEMMA QuietAdvance ==
    ASSUME IInv, UNCHANGED <<now, cache, api>>, Flows(w.pc, w'.pc),
           w.pc \notin {"patchDone", "removeFinalizer"},
           w'.obj = w.obj, w'.before = w.before, w'.resolved = w.resolved,
           wake' = wake \/ wake' # Nil, StatusFlows
    PROVE  Advances
BY DEF Advances, Writes, Pending

\* ... and end in a return with an error or a delay.
LEMMA PatchAdvance ==
    ASSUME IInv, UNCHANGED <<now, cache, api>>, Flows(w.pc, "patch"), w.pc # "cleanup",
           NEW st \in {w.st, MarkFailed(w.st)}, NEW result, GotoPatch(st, result),
           result # Nil \/ (w.pc = "schedule" /\ Remote # TRUE),
           w.pc \in {"persistCluster", "persistNamespace"} => st = w.st
    PROVE  Advances
<1>1. w \in Worker /\ w.st \in LeaseStatus
  BY DEF IInv, WorkerOK, StatusOK
<1>2. /\ w'.pc = "patch" /\ w'.obj = w.obj /\ w'.st = st /\ w'.before = w.before
      /\ w'.resolved = w.resolved /\ w'.result = result /\ wake' = wake
  BY <1>1, GotoPatchFields
<1>3. Manual(st) => Manual(w.st)
  BY <1>1, MarkFields DEF Manual
<1>4. w.pc \notin {"sync", "patchDone", "removeFinalizer"}
  BY DEF Flows
<1>5. QED
  BY <1>2, <1>3, <1>4, QuietAdvance DEF StatusFlows

\* remoteDriftRequeue stands in for a delay of 0.
LEMMA RemoteDelay ==
    ASSUME NEW until \in Nat, Remote = TRUE
    PROVE  ResultAfter(until) # Nil
<1>1. RemoteDrift # Nil /\ until # Nil
  BY ConstantsAssumption, NilAssumption
<1>2. QED
  BY <1>1 DEF ResultAfter

\* The start of Reconcile and reconcileActive.
LEMMA ActiveAdvances ==
    ASSUME IInv,
           \/ Sync \/ CheckExpired \/ ResolveTarget \/ TargetError
           \/ PersistCluster
           \/ KeepNamespace \/ NamespaceMissing \/ CreateNamespace \/ EnsureNamespaceFails
           \/ PersistNamespace \/ EnsureConstraints \/ EnsureConstraintsFails
           \/ EmitWarnings \/ BecomeReady \/ Schedule
    PROVE  Advances
<1>1. /\ w \in Worker /\ w.st \in LeaseStatus /\ w.obj.status \in LeaseStatus
      /\ w.resolved \in Resolved /\ api \in Lease /\ now \in Nat
      /\ TargetUnavailable # Nil /\ 0 # Nil
  BY ConstantsAssumption, NilAssumption DEF IInv, WorkerOK, LeaseOK, StatusOK, Worker
<1>2. CASE Sync
  <2>1. /\ w.pc = "sync" /\ UNCHANGED <<now, api, cache>>
        /\ GotoWith("check", Synced(w.obj.status, w.resolved, now))
    BY <1>2 DEF Sync
  <2>2. /\ w'.pc = "check" /\ w'.obj = w.obj /\ w'.before = w.before
        /\ w'.resolved = w.resolved /\ wake' = wake
        /\ w'.st = Synced(w.obj.status, w.resolved, now)
    BY <1>1, <2>1, GotoWithFields
  <2>3. Manual(w'.st) => Manual(w.obj.status)
    BY <1>1, <2>2, SyncedFields DEF Manual
  <2>4. QED
    BY <2>1, <2>2, <2>3, QuietAdvance DEF Flows, StatusFlows
<1>3. CASE CheckExpired
  <2> DEFINE r == IF w.st.expirationReason # "" THEN w.st.expirationReason
                  ELSE ResolveExpirationReason(now, w.st.expiresAt, w.st.idleExpiresAt)
  <2>1. w.pc = "check" /\ UNCHANGED <<now, api, cache>>
    BY <1>3 DEF CheckExpired
  <2>2. (IsExpired(w.st, now) /\ GotoWith("cleanup", MarkExpired(w.st, r))) \/ Goto("target")
    BY <1>3 DEF CheckExpired
  <2>3. r = "ManualExpiration" => Manual(w.st)
    BY DEF Manual, ResolveExpirationReason
  <2> HIDE DEF r
  <2>4. Manual(MarkExpired(w.st, r)) => Manual(w.st)
    BY <1>1, <2>3 DEF Manual, MarkExpired, LeaseStatus
  <2>5. ~MarkExpired(w.st, r).ready
    BY <1>1, MarkFields
  <2>6. /\ w'.obj = w.obj /\ w'.before = w.before /\ w'.resolved = w.resolved /\ wake' = wake
        /\ \/ /\ w'.pc = "cleanup" /\ w'.st = MarkExpired(w.st, r)
              /\ IsExpired(w.st, now)
           \/ w'.pc = "target" /\ w'.st = w.st
    BY <1>1, <2>2, GotoFields, GotoWithFields
  <2>7. QED
    BY <2>1, <2>4, <2>5, <2>6, QuietAdvance DEF Flows, StatusFlows
<1>4. ASSUME NEW pc, NEW st \in LeaseStatus, GotoWith(pc, st) \/ (Goto(pc) /\ st = w.st),
             Manual(st) => Manual(w.st), UNCHANGED <<now, api, cache>>,
             pc \in {"persistCluster", "ensureNamespace", "createNamespace", "warn",
                     "ready", "schedule"},
             Flows(w.pc, pc)
      PROVE  Advances
  <2>1. /\ w'.pc = pc /\ w'.obj = w.obj /\ w'.before = w.before /\ w'.st = st
        /\ w'.resolved = w.resolved /\ wake' = wake
    BY <1>1, <1>4, GotoFields, GotoWithFields
  <2>2. w.pc \in {"target", "ensureNamespace", "constraints", "warn", "ready"}
    BY <1>4 DEF Flows
  <2>3. QED
    BY <1>4, <2>1, <2>2, QuietAdvance DEF StatusFlows
<1>5. CASE ResolveTarget
  <2>1. StartProvisioning(w.st) \in LeaseStatus /\ (Manual(StartProvisioning(w.st)) => Manual(w.st))
    BY <1>1 DEF StartProvisioning, MarkProvisioning, LeaseStatus, Phases, Manual
  <2>2. Goto("persistCluster") \/ GotoWith("ensureNamespace", StartProvisioning(w.st))
    BY <1>5 DEF ResolveTarget
  <2>3. w.pc = "target" /\ UNCHANGED <<now, api, cache>>
    BY <1>5 DEF ResolveTarget
  <2>4. QED
    BY <1>1, <1>4, <2>1, <2>2, <2>3 DEF Flows
<1>6. CASE TargetError
  <2>1. PICK st \in {w.st, MarkFailed(w.st)} : GotoPatch(st, TargetUnavailable)
    BY <1>6 DEF TargetError
  <2>2. w.pc = "target" /\ UNCHANGED <<now, api, cache>>
    BY <1>6 DEF TargetError
  <2>3. QED
    BY <1>1, <2>1, <2>2, PatchAdvance DEF Flows
<1>7. CASE EnsureNamespaceFails
  BY <1>1, <1>7, PatchAdvance DEF EnsureNamespaceFails, Flows
<1>8. CASE EnsureConstraintsFails
  BY <1>1, <1>8, PatchAdvance DEF EnsureConstraintsFails, Flows
<1>9. CASE Schedule
  <2>1. w.pc = "schedule" /\ UNCHANGED <<now, api, cache>>
    BY <1>9 DEF Schedule
  <2>2. PICK until \in Nat : GotoPatch(w.st, ResultAfter(until))
    BY <1>9, ScheduleDelay
  <2>3. ResultAfter(until) # Nil \/ Remote # TRUE
    BY RemoteDelay
  <2>4. QED
    BY <2>1, <2>2, <2>3, PatchAdvance DEF Flows
<1>10. CASE EnsureConstraints
  BY <1>1, <1>4, <1>10 DEF EnsureConstraints, Flows
<1>11. CASE EmitWarnings
  <2>1. PICK st : /\ GotoWith("ready", st)
                  /\ st = w.st \/ \E d : st = [w.st EXCEPT !.warningsDelivered = d]
    BY <1>11 DEF EmitWarnings
  <2>2. Manual(st) => Manual(w.st)
    BY <1>1, <2>1 DEF Manual, LeaseStatus
  <2>3. w.pc = "warn" /\ UNCHANGED <<now, api, cache>>
    BY <1>11 DEF EmitWarnings
  <2>4. /\ w'.pc = "ready" /\ w'.obj = w.obj /\ w'.before = w.before /\ w'.st = st
        /\ w'.resolved = w.resolved /\ wake' = wake
    BY <1>1, <2>1, GotoWithFields
  <2>5. QED
    BY <2>2, <2>3, <2>4, QuietAdvance DEF Flows, StatusFlows
<1>12. CASE BecomeReady
  <2> DEFINE st == MarkReady(w.st, IsExpiringWindow(w.st, Warnings, now))
  <2>1. GotoWith("schedule", st) /\ w.pc = "ready" /\ UNCHANGED <<now, api, cache>>
    BY <1>12 DEF BecomeReady
  <2>2. Manual(st) => Manual(w.st)
    BY <1>1, MarkFields DEF Manual
  <2> HIDE DEF st
  <2>3. /\ w'.pc = "schedule" /\ w'.obj = w.obj /\ w'.before = w.before /\ w'.st = st
        /\ w'.resolved = w.resolved /\ wake' = wake
    BY <1>1, <2>1, GotoWithFields
  <2>4. QED
    BY <2>1, <2>2, <2>3, QuietAdvance DEF Flows, StatusFlows
<1>13. ASSUME NEW pc \in {"persistCluster", "persistNamespace"}, NEW next,
              Persist(pc, next), Flows(pc, next), Flows(pc, "patch"), next # "patch"
       PROVE  Advances
  <2>1. CASE w.obj = api
    <3>1. /\ w.pc = pc /\ api' = [api EXCEPT !.status = w.st] /\ Goto(next)
          /\ UNCHANGED <<now, cache>>
      BY <1>13, <2>1 DEF Persist
    <3>2. /\ w'.pc = next /\ w'.obj = w.obj /\ w'.st = w.st /\ w'.before = w.before
          /\ w'.resolved = w.resolved /\ wake' = wake
      BY <1>1, <3>1, GotoFields
    <3>3. /\ api'.status = w.st /\ api'.exists = api.exists
          /\ api'.deleting = api.deleting /\ api'.finalizer = api.finalizer
      BY <1>1, <3>1, WriteFields
    <3>4. next # "cleanup"
      BY <1>13 DEF Flows
    <3>5. StatusFlows
      BY <1>13, <3>1, <3>2, <3>4 DEF StatusFlows
    <3>6. Writes
      BY <1>13, <3>1, <3>3 DEF Writes, Pending
    <3>7. QED
      BY <1>13, <3>1, <3>2, <3>5, <3>6 DEF Advances
  <2>2. CASE w.obj # api
    <3>1. w.pc = pc /\ GotoPatch(w.st, 0) /\ UNCHANGED <<now, cache, api>>
      BY <1>13, <2>2 DEF Persist
    <3>2. QED
      BY <1>1, <1>13, <3>1, PatchAdvance
  <2>3. QED
    BY <2>1, <2>2
<1>14. CASE PersistCluster
  BY <1>13, <1>14 DEF PersistCluster, Flows
<1>15. CASE PersistNamespace
  BY <1>13, <1>15 DEF PersistNamespace, Flows
<1>16. CASE KeepNamespace \/ CreateNamespace
  <2>1. PICK n \in Names :
           /\ w'.st = [w.st EXCEPT !.namespace = n]
           /\ w'.pc = IF w.st.namespace = n THEN "constraints" ELSE "persistNamespace"
    BY <1>16, UseFields
  <2>2. /\ w.pc \in {"ensureNamespace", "createNamespace"}
        /\ UNCHANGED <<now, api, cache, wake>>
        /\ w'.obj = w.obj /\ w'.before = w.before /\ w'.resolved = w.resolved
    BY <1>16, UseFields
  <2>3. Manual(w'.st) => Manual(w.st)
    BY <1>1, <2>1 DEF Manual, LeaseStatus
  <2>4. w'.pc \in {"constraints", "persistNamespace"}
    BY <2>1
  <2>5. QED
    BY <2>2, <2>3, <2>4, QuietAdvance DEF Flows, StatusFlows
<1>16b. CASE NamespaceMissing
  BY <1>1, <1>4, <1>16b DEF NamespaceMissing, Flows
<1>17. QED
  BY <1>2, <1>3, <1>5, <1>6, <1>7, <1>8, <1>9, <1>10, <1>11, <1>12, <1>14, <1>15, <1>16,
     <1>16b

\* Reconcile returns: who is left without a wake-up?
Returns ==
    /\ w.pc # "idle" /\ w' = AtRest /\ UNCHANGED <<now, cache>>
    /\ api.deleting => api'.deleting
    /\ api'.exists => api.exists
    /\ \/ api'.status = api.status
       \/ w.pc = "patch" /\ api'.status = w.st
    /\ Pending(api) => Pending(api')
    /\ wake' = Nil => /\ wake = Nil
                      /\ \/ /\ w.pc = "patch" /\ w.result = Nil
                            /\ api'.status = w.st \/ w.st = w.before
                         \/ w.pc \in {"removeFinalizer", "deleteLease"}

\* A return with a result asks for a time.
LEMMA FinishWakes ==
    ASSUME IInv, NEW result \in Nat \cup {Nil}, Finish(result)
    PROVE  w' = AtRest /\ (wake' = Nil => wake = Nil /\ result = Nil)
BY QueuedSometime DEF Finish, Requeue

\* The steps after cleanupEnvironment, patchStatusIfChanged, and the two
\* ways of writing the finalizer.
LEMMA CleanupSteps ==
    ASSUME IInv,
           \/ AddFinalizer
           \/ CleanupDone \/ CleanupDelete \/ CleanupBlocked
           \/ PatchStatus \/ PatchNothing \/ PatchFails
           \/ RemoveFinalizer \/ RemoveFinalizerFails \/ DeleteLease
    PROVE  Advances \/ Returns
<1>1. /\ w \in Worker /\ w.st \in LeaseStatus /\ w.result \in Nat \cup {Nil}
      /\ api \in Lease /\ TargetUnavailable # Nil /\ CleanupRequeue # Nil
      /\ 0 \in Nat \cup {Nil} /\ Nil \in Nat \cup {Nil} /\ 0 # Nil
  BY ConstantsAssumption, NilAssumption DEF IInv, WorkerOK, LeaseOK, StatusOK, Worker
<1>2. CASE AddFinalizer
  <2>1. /\ w.pc = "addFinalizer" /\ Finish(0) /\ UNCHANGED <<now, cache>>
        /\ api' = IF w.obj = api THEN [api EXCEPT !.finalizer = TRUE] ELSE api
    BY <1>2 DEF AddFinalizer
  <2>2. w' = AtRest /\ wake' # Nil
    BY <1>1, <2>1, FinishWakes
  <2>3. /\ api'.status = api.status /\ api'.exists = api.exists
        /\ api'.deleting = api.deleting /\ (Pending(api) => Pending(api'))
    BY <1>1, <2>1, WriteFields DEF Pending
  <2>4. QED
    BY <2>1, <2>2, <2>3 DEF Returns
<1>3. CASE CleanupDone
  <2>1. /\ w.pc = "cleanup" /\ UNCHANGED <<now, api, cache>>
        /\ GotoWith("patchDone", MarkCleanupComplete(w.st))
    BY <1>3 DEF CleanupDone
  <2>2. /\ w'.pc = "patchDone" /\ w'.obj = w.obj /\ w'.before = w.before
        /\ w'.resolved = w.resolved /\ wake' = wake /\ w'.st = MarkCleanupComplete(w.st)
    BY <1>1, <2>1, GotoWithFields
  <2>3. /\ Manual(w'.st) => Manual(w.st)
        /\ w'.st.phase = "Expired" /\ w'.st.ready = w.st.ready
    BY <1>1, <2>2, MarkFields DEF Manual
  <2>4. QED
    BY <2>1, <2>2, <2>3, QuietAdvance DEF Flows, StatusFlows
<1>4. CASE CleanupDelete
  <2>1. /\ w.pc = "cleanup" /\ UNCHANGED <<now, api, cache>>
        /\ wake' = wake
    BY <1>4, CleanupDeleteFields
  <2>2. /\ w'.pc = "patch" /\ w'.obj = w.obj /\ w'.before = w.before
        /\ w'.resolved = w.resolved /\ w'.st = MarkCleaning(w.st)
        /\ w'.result = CleanupRequeue
    BY <1>4, CleanupDeleteFields
  <2>3. /\ Manual(w'.st) => Manual(w.st)
        /\ w'.st.phase = "Cleaning" /\ ~w'.st.ready
    BY <1>1, <2>2, MarkFields DEF Manual
  <2>4. QED
    BY <1>1, <2>1, <2>2, <2>3, QuietAdvance DEF Flows, StatusFlows
<1>5. CASE CleanupBlocked
  <2>1. /\ w.pc = "cleanup" /\ UNCHANGED <<now, api, cache>>
        /\ GotoPatch(MarkCleanupFailed(w.st), TargetUnavailable)
    BY <1>5 DEF CleanupBlocked
  <2>2. /\ w'.pc = "patch" /\ w'.obj = w.obj /\ w'.before = w.before
        /\ w'.resolved = w.resolved /\ w'.st = MarkCleanupFailed(w.st)
        /\ w'.result = TargetUnavailable /\ wake' = wake
    BY <1>1, <2>1, GotoPatchFields
  <2>3. /\ Manual(w'.st) => Manual(w.st)
        /\ w'.st.phase = "Cleaning" /\ w'.st.ready = w.st.ready
    BY <1>1, <2>2, MarkFields DEF Manual
  <2>4. QED
    BY <1>1, <2>1, <2>2, <2>3, QuietAdvance DEF Flows, StatusFlows
<1>6. CASE PatchStatus \/ PatchNothing
  <2>1. /\ UNCHANGED <<now, cache>>
        /\ \/ w.pc = "patch" /\ Finish(w.result)
           \/ w.pc = "patchDone" /\ Goto("removeFinalizer")
        /\ \/ api' = [api EXCEPT !.status = w.st]
           \/ api' = api /\ w.st = w.before
    BY <1>6 DEF PatchStatus, PatchNothing, PatchSkipped
  <2>2. /\ api'.exists = api.exists /\ api'.deleting = api.deleting
        /\ api'.finalizer = api.finalizer
        /\ api'.status = w.st \/ (api'.status = api.status /\ w.st = w.before)
    <3>1. CASE api' = api /\ w.st = w.before
      BY <3>1
    <3>2. CASE api' = [api EXCEPT !.status = w.st]
      BY <1>1, <3>2, WriteFields
    <3>3. QED
      BY <2>1, <3>1, <3>2
  <2>3. CASE w.pc = "patch" /\ Finish(w.result)
    <3>1. w' = AtRest /\ (wake' = Nil => wake = Nil /\ w.result = Nil)
      BY <1>1, <2>3, FinishWakes
    <3>2. QED
      BY <2>1, <2>2, <2>3, <3>1 DEF Returns, Pending
  <2>4. CASE w.pc = "patchDone" /\ Goto("removeFinalizer")
    <3>1. /\ w'.pc = "removeFinalizer" /\ w'.obj = w.obj /\ w'.st = w.st
          /\ w'.before = w.before /\ w'.resolved = w.resolved /\ wake' = wake
      BY <1>1, <2>4, GotoFields
    <3>2. Writes
      BY <2>2, <2>4 DEF Writes, Pending
    <3>3. QED
      BY <2>1, <2>4, <3>1, <3>2 DEF Advances, Flows, StatusFlows
  <2>5. QED
    BY <2>1, <2>3, <2>4
<1>7. CASE PatchFails \/ RemoveFinalizerFails
  <2>1. /\ w.pc \in {"patch", "patchDone", "removeFinalizer"} /\ Finish(0)
        /\ UNCHANGED <<now, api, cache>>
    BY <1>7 DEF PatchFails, RemoveFinalizerFails
  <2>2. w' = AtRest /\ wake' # Nil
    BY <1>1, <2>1, FinishWakes
  <2>3. QED
    BY <2>1, <2>2 DEF Returns
<1>8. CASE RemoveFinalizer
  <2>1. /\ w.pc = "removeFinalizer" /\ UNCHANGED <<now, cache>>
        /\ Finish(Nil) \/ (~w.obj.deleting /\ Goto("deleteLease"))
    BY <1>8 DEF RemoveFinalizer, AfterFinalizer
  <2>2. /\ api'.status = api.status /\ api'.deleting = api.deleting
        /\ api'.exists => api.exists
        /\ Pending(api) => Pending(api')
    <3> DEFINE f == [api EXCEPT !.finalizer = FALSE]
    <3>1. \/ api' = api
          \/ api' = Removed(f)
          \/ api' = f /\ ~api.deleting
      BY <1>8 DEF RemoveFinalizer
    <3>2. /\ f \in Lease /\ f.status = api.status /\ f.exists = api.exists
          /\ f.deleting = api.deleting
      BY <1>1 DEF Lease
    <3> HIDE DEF f
    <3>3. /\ Removed(f).status = api.status /\ ~Removed(f).exists
          /\ Removed(f).deleting = api.deleting
      BY <3>2, WriteFields
    <3>4. QED
      BY <3>1, <3>2, <3>3 DEF Pending
  <2>3. CASE Finish(Nil)
    <3>1. w' = AtRest /\ (wake' = Nil => wake = Nil)
      BY <1>1, <2>3, FinishWakes
    <3>2. QED
      BY <2>1, <2>2, <3>1 DEF Returns
  <2>4. CASE ~w.obj.deleting /\ Goto("deleteLease")
    <3>1. /\ w'.pc = "deleteLease" /\ w'.obj = w.obj /\ w'.st = w.st
          /\ w'.before = w.before /\ w'.resolved = w.resolved /\ wake' = wake
      BY <1>1, <2>4, GotoFields
    <3>2. Writes
      BY <2>1, <2>2 DEF Writes
    <3>3. QED
      BY <2>1, <2>4, <3>1, <3>2 DEF Advances, Flows, StatusFlows
  <2>5. QED
    BY <2>1, <2>3, <2>4
<1>9. CASE DeleteLease
  <2>1. /\ w.pc = "deleteLease" /\ UNCHANGED <<now, cache>> /\ Finish(Nil)
        /\ api' = api \/ api' = Deleted(api)
    BY <1>9 DEF DeleteLease
  <2>2. w' = AtRest /\ (wake' = Nil => wake = Nil)
    BY <1>1, <2>1, FinishWakes
  <2>3. /\ api'.status = api.status /\ (api.deleting => api'.deleting)
        /\ api'.exists => api.exists
        /\ Pending(api) => Pending(api')
    BY <1>1, <2>1, WriteFields DEF Pending
  <2>4. QED
    BY <2>1, <2>2, <2>3 DEF Returns
<1>10. QED
  BY <1>2, <1>3, <1>4, <1>5, <1>6, <1>7, <1>8, <1>9

\* Reconcile starts from the cached lease ...
Starts ==
    /\ w.pc = "idle" /\ UNCHANGED <<now, api, cache>> /\ wake' = Nil
    /\ \/ w' = w /\ (~cache.exists \/ (cache.deleting /\ ~cache.finalizer))
       \/ /\ w'.obj = cache /\ w'.before = cache.status /\ w'.result = Nil
          /\ \/ /\ w'.pc = "cleanup" /\ cache.deleting
                /\ w'.st.phase = "Cleaning" /\ ~w'.st.ready
             \/ /\ w'.pc \in {"addFinalizer", "sync", "patch"} /\ ~cache.deleting
                /\ Manual(w'.st) => Manual(cache.status)
                /\ w'.pc = "patch" => ~w'.st.ready

\* ... and comes back to it after a write, keeping what it started from.
Rereads ==
    /\ w.pc \in {"refreshCluster", "refreshNamespace"}
    /\ w'.pc \in {"ensureNamespace", "constraints"}
    /\ UNCHANGED <<now, api, cache, wake>>
    /\ w'.obj = cache /\ w'.before = w.before
    /\ Manual(w'.st) => Manual(cache.status)

\* Every step of Reconcile is one of the four kinds.
LEMMA ReconcileSteps ==
    ASSUME IInv, Reconcile
    PROVE  Starts \/ Rereads \/ Advances \/ Returns
<1>1. w \in Worker /\ cache.status \in LeaseStatus /\ w.resolved \in Resolved
  BY DEF IInv, WorkerOK, LeaseOK, StatusOK, Worker
<1>2. CASE BeginGone
  BY <1>2 DEF BeginGone, Starts
<1>3. ASSUME NEW pc, NEW st, NEW resolved, Begin(pc, st, resolved),
             \/ pc = "cleanup" /\ cache.deleting /\ st.phase = "Cleaning" /\ ~st.ready
             \/ /\ pc \in {"addFinalizer", "sync", "patch"} /\ ~cache.deleting
                /\ Manual(st) => Manual(cache.status)
                /\ pc = "patch" => ~st.ready
      PROVE  Starts
  BY <1>3, BeginFields DEF Starts
<1>4. CASE BeginDelete
  <2> DEFINE r == IF cache.status.expirationReason = "SourceClosed"
                  THEN "SourceClosed" ELSE "ManualExpiration"
             s == [cache.status EXCEPT !.expirationReason = r]
  <2>1. r \in ExpirationReasons
    BY DEF ExpirationReasons
  <2>2. Begin("cleanup", MarkCleaning(s), Unresolved) /\ cache.deleting
    BY <1>4 DEF BeginDelete
  <2> HIDE DEF r
  <2>3. s \in LeaseStatus
    BY <1>1, <2>1 DEF LeaseStatus
  <2> HIDE DEF s
  <2>4. MarkCleaning(s).phase = "Cleaning" /\ ~MarkCleaning(s).ready
    BY <2>3, MarkFields
  <2>5. QED
    BY <1>3, <2>2, <2>4
<1>5. CASE BeginAddFinalizer
  BY <1>3, <1>5 DEF BeginAddFinalizer
<1>6. CASE BeginRejected
  BY <1>1, <1>3, <1>6, MarkFields DEF BeginRejected, Manual
<1>7. CASE BeginSync
  BY <1>3, <1>7 DEF BeginSync
<1>8. ASSUME NEW pc \in {"refreshCluster", "refreshNamespace"},
             NEW next \in {"ensureNamespace", "constraints"}, NEW st,
             Refresh(pc, next, st), Manual(st) => Manual(cache.status)
      PROVE  Rereads
  BY <1>1, <1>8, RefreshFields DEF Refresh, Rereads
<1> DEFINE s == [cache.status EXCEPT !.effective = w.resolved]
<1>9. Manual(s) => Manual(cache.status)
  BY <1>1 DEF LeaseStatus, Manual
<1>10. s \in LeaseStatus
  BY <1>1 DEF LeaseStatus
<1>11. CASE RefreshCluster
  <2>1. Refresh("refreshCluster", "ensureNamespace", StartProvisioning(s))
    BY <1>11 DEF RefreshCluster
  <2> HIDE DEF s
  <2>2. Manual(StartProvisioning(s)) => Manual(cache.status)
    BY <1>9, <1>10 DEF StartProvisioning, MarkProvisioning, LeaseStatus, Manual
  <2>3. QED
    BY <1>8, <2>1, <2>2
<1>12. CASE RefreshNamespace
  BY <1>8, <1>9, <1>12 DEF RefreshNamespace
<1>13. QED
  BY <1>2, <1>4, <1>5, <1>6, <1>7, <1>11, <1>12, ActiveAdvances, CleanupSteps
     DEF Reconcile

-----------------------------------------------------------------------------
(* Everybody else, step by step                                            *)

\* What others do to the stored lease leaves the phase, the Ready condition
\* and reconcileDelete's reason alone.
OthersWrite ==
    /\ api'.status.phase = api.status.phase
    /\ api'.status.ready = api.status.ready
    /\ Manual(api'.status) => Manual(api.status)
    /\ api.deleting => api'.deleting
    /\ api'.exists => api.exists
    /\ Pending(api) => Pending(api')

\* The worker stays or stops, the cache stays or catches up with an event.
Elsewhere ==
    /\ w' = w \/ (w' = AtRest /\ cache' = api /\ wake' # Nil)
    /\ \/ cache' = cache /\ (wake' = wake \/ wake' # Nil)
       \/ cache' = api /\ api' = api /\ wake' # Nil
    /\ now \in Nat /\ now' \in Nat /\ now <= now'
    /\ OthersWrite

\* Every other step is of this kind.
LEMMA OtherSteps ==
    ASSUME IInv, Cluster \/ Client \/ UNCHANGED vars
    PROVE  Elsewhere
<1>1. api \in Lease /\ api.status \in LeaseStatus /\ now \in Nat /\ Nil \notin Nat
  BY NilAssumption DEF IInv, LeaseOK, StatusOK
<1>2. api' = api => OthersWrite
  BY DEF OthersWrite
<1>3. CASE Cluster \/ UNCHANGED vars
  <2>1. api' = api /\ now' \in Nat /\ now <= now'
    BY <1>1, <1>3 DEF Cluster, CacheSync, NamespaceSync, Resync, Tick, Crash, TargetLost, TargetBack,
                PolicyChange, NamespaceGone, NamespaceDrift, vars
  <2>2. w' = w \/ (w' = AtRest /\ cache' = api /\ wake' # Nil)
    BY <1>1, <1>3 DEF Cluster, CacheSync, NamespaceSync, Resync, Tick, Crash, TargetLost, TargetBack,
                PolicyChange, NamespaceGone, NamespaceDrift, vars
  <2>3. \/ cache' = cache /\ (wake' = wake \/ wake' # Nil)
        \/ cache' = api /\ wake' # Nil
    <3>1. QueuedAt(now) # Nil /\ now # Nil
      BY <1>1, QueuedSometime
    <3>2. CASE CacheSync \/ Crash
      BY <3>1, <3>2 DEF CacheSync, Crash
    <3>3. CASE NamespaceSync \/ Resync \/ Tick \/ TargetLost \/ TargetBack \/ UNCHANGED vars
      BY <3>1, <3>3 DEF NamespaceSync, Resync, Tick, TargetLost, TargetBack, vars
    <3>4. CASE \E p \in Policies \cup {Nil} : PolicyChange(p)
      BY <3>1, <3>4 DEF PolicyChange
    <3>5. CASE \E n \in Names : NamespaceGone(n) \/ NamespaceDrift(n)
      BY <3>1, <3>5 DEF NamespaceGone, NamespaceDrift
    <3>6. QED
      BY <1>3, <3>2, <3>3, <3>4, <3>5 DEF Cluster
  <2>4. QED
    BY <1>1, <1>2, <2>1, <2>2, <2>3 DEF Elsewhere
<1>4. CASE Client
  <2>1. UNCHANGED <<now, cache, w, wake>>
    BY <1>4 DEF Client, EditSpec, Expire, TouchStart, TouchWrite, ExtendRead, ExtendWrite
  <2>2. CASE \E s \in Specs : EditSpec(s)
    <3>1. OthersWrite
      BY <1>1, <2>2, WriteFields DEF EditSpec, OthersWrite, Pending
    <3>2. QED
      BY <1>1, <2>1, <3>1 DEF Elsewhere
  <2>3. CASE Expire
    <3>1. OthersWrite
      BY <1>1, <2>3, WriteFields DEF Expire, OthersWrite, Pending
    <3>2. QED
      BY <1>1, <2>1, <3>1 DEF Elsewhere
  <2>4. CASE TouchStart \/ ExtendRead
    <3>1. api' = api
      BY <2>4 DEF TouchStart, ExtendRead
    <3>2. QED
      BY <1>1, <1>2, <2>1, <3>1 DEF Elsewhere
  <2>5. CASE TouchWrite
    <3> DEFINE st == RecordActivity(api.status, touchAt, IdleTTLFromLease(api))
    <3>1. touchAt \in Nat
      BY <2>5 DEF TouchWrite, IInv, TimeOrNil
    <3>2. api' = api \/ api' = [api EXCEPT !.status = st]
      BY <2>5 DEF TouchWrite
    <3>3. /\ st.phase = api.status.phase /\ st.ready = api.status.ready
          /\ Manual(st) => Manual(api.status)
      BY <1>1, <3>1, RecordActivityFields DEF Manual
    <3> HIDE DEF st
    <3>4. ASSUME api' = [api EXCEPT !.status = st]
          PROVE  OthersWrite
      <4>1. /\ api'.status = st /\ api'.exists = api.exists
            /\ api'.finalizer = api.finalizer /\ api'.deleting = api.deleting
        BY <1>1, <3>4, WriteFields
      <4>2. QED
        BY <3>3, <4>1 DEF OthersWrite, Pending
    <3>5. QED
      BY <1>1, <1>2, <2>1, <3>2, <3>4 DEF Elsewhere
  <2>6. CASE ExtendWrite
    <3>1. OthersWrite
      <4>1. CASE api' = api
        BY <1>2, <4>1
      <4>2. CASE api' = [api EXCEPT !.spec.ttl = extendTo]
        BY <1>1, <4>2, WriteFields DEF OthersWrite, Pending
      <4>3. QED
        BY <2>6, <4>1, <4>2 DEF ExtendWrite
    <3>2. QED
      BY <1>1, <2>1, <3>1 DEF Elsewhere
  <2>7. QED
    BY <1>4, <2>2, <2>3, <2>4, <2>5, <2>6 DEF Client
<1>5. QED
  BY <1>3, <1>4

-----------------------------------------------------------------------------
(* The invariants are preserved                                            *)

\* A worker at rest holds no lease.
LEMMA AtRestFields ==
    /\ AtRest.pc = "idle" /\ ~AtRest.obj.deleting
    /\ ~Manual(AtRest.st) /\ ~Manual(AtRest.obj.status)
BY DEF AtRest, EmptyStatus, Manual

\* Deletions are never taken back, in any copy.
LEMMA DeletionStaysKnown ==
    ASSUME IInv, DeletionKnown, [Next]_vars
    PROVE  DeletionKnown' /\ (api.deleting => api'.deleting) /\ (cache.deleting => cache'.deleting)
<1>1. CASE Reconcile
  BY <1>1, ReconcileSteps, AtRestFields
     DEF DeletionKnown, Starts, Rereads, Advances, Returns, Writes
<1>2. CASE Cluster \/ Client \/ UNCHANGED vars
  BY <1>2, OtherSteps, AtRestFields DEF DeletionKnown, Elsewhere, OthersWrite
<1>3. QED
  BY <1>1, <1>2 DEF Next

\* Only reconcileDelete's start brings its reason up.
LEMMA DeleteSeenFirst ==
    ASSUME IInv, [Next]_vars, DeleteSeen', ~DeleteSeen
    PROVE  Starts /\ w'.pc = "cleanup"
<1>1. ~Manual(api.status) /\ ~Manual(cache.status) /\ ~Manual(w.st) /\ ~Manual(w.obj.status)
  BY DEF DeleteSeen
<1>2. Manual(api'.status) \/ Manual(cache'.status) \/ Manual(w'.st) \/ Manual(w'.obj.status)
  BY DEF DeleteSeen
<1>3. CASE Reconcile
  <2>1. CASE Starts
    BY <1>1, <1>2, <2>1 DEF Starts
  <2>2. CASE Rereads
    BY <1>1, <1>2, <2>2 DEF Rereads
  <2>3. CASE Advances
    <3>1. /\ ~Manual(w'.st) /\ cache' = cache /\ w'.obj = w.obj
          /\ api'.status = api.status \/ api'.status = w.st
      BY <1>1, <2>3 DEF Advances, StatusFlows, Writes
    <3>2. QED
      BY <1>1, <1>2, <3>1
  <2>4. CASE Returns
    <3>1. /\ w' = AtRest /\ cache' = cache
          /\ api'.status = api.status \/ api'.status = w.st
      BY <2>4 DEF Returns
    <3>2. QED
      BY <1>1, <1>2, <3>1, AtRestFields
  <2>5. QED
    BY <1>3, <2>1, <2>2, <2>3, <2>4, ReconcileSteps
<1>4. CASE Cluster \/ Client \/ UNCHANGED vars
  <2>1. Elsewhere
    BY <1>4, OtherSteps
  <2>2. QED
    BY <1>1, <1>2, <2>1, AtRestFields DEF Elsewhere, OthersWrite
<1>5. QED
  BY <1>3, <1>4 DEF Next

\* Once it is there, only reconcileDelete goes on.
LEMMA CleanupStays ==
    ASSUME IInv, DeletionKnown, OnlyCleanup, [Next]_vars
    PROVE  OnlyCleanup'
<1> SUFFICES ASSUME DeleteSeen' PROVE OnlyCleanup'
  BY DEF OnlyCleanup
<1>1. CASE ~DeleteSeen
  <2>1. Starts /\ w'.pc = "cleanup"
    BY <1>1, DeleteSeenFirst
  <2>2. QED
    BY <2>1 DEF Starts, OnlyCleanup
<1>2. CASE DeleteSeen
  <2>1. /\ cache.deleting /\ cache'.deleting
        /\ w.pc # "idle" => /\ w.pc \in {"cleanup", "patch", "patchDone", "removeFinalizer"}
                            /\ w.obj.deleting
                            /\ w.st.phase \in {"Cleaning", "Expired"}
    BY <1>2, DeletionStaysKnown DEF OnlyCleanup
  <2>2. CASE Reconcile
    <3>1. CASE Starts
      BY <2>1, <3>1 DEF Starts, OnlyCleanup
    <3>2. CASE Rereads
      BY <2>1, <3>2 DEF Rereads
    <3>3. CASE Advances
      <4>1. w.pc # "idle" /\ w.pc # "removeFinalizer"
        BY <2>1, <3>3 DEF Advances, Flows
      <4>2. /\ w.pc \in {"cleanup", "patchDone"} /\ w'.obj.deleting
            /\ w'.pc \in {"patch", "patchDone", "removeFinalizer"}
        BY <2>1, <3>3, <4>1 DEF Advances, Flows
      <4>3. w'.st.phase \in {"Cleaning", "Expired"}
        BY <2>1, <3>3, <4>2 DEF Advances, StatusFlows
      <4>4. QED
        BY <2>1, <4>2, <4>3 DEF OnlyCleanup
    <3>4. CASE Returns
      BY <2>1, <3>4, AtRestFields DEF Returns, OnlyCleanup
    <3>5. QED
      BY <2>2, <3>1, <3>2, <3>3, <3>4, ReconcileSteps
  <2>3. CASE Cluster \/ Client \/ UNCHANGED vars
    <3>1. Elsewhere
      BY <2>3, OtherSteps
    <3>2. QED
      BY <2>1, <3>1, AtRestFields DEF Elsewhere, OnlyCleanup
  <2>4. QED
    BY <2>2, <2>3 DEF Next
<1>3. QED
  BY <1>1, <1>2

\* EnsureTimestamps does not look at the clock.
LEMMA SyncedShape ==
    ASSUME NEW st \in LeaseStatus, NEW resolved \in Resolved
    PROVE  \E f \in LeaseStatus :
              \A t : Synced(st, resolved, t) = SyncExpirationStatus(f, resolved.idleTTL, t)
<1> DEFINE e == [st EXCEPT !.effective = resolved]
           c == IF e.createdAt = Nil THEN CreationTimestamp ELSE e.createdAt
           x == IF RenewalRejected(e, c, resolved.ttl, resolved.renewable)
                THEN e.expiresAt ELSE c + resolved.ttl
           m == c + resolved.maxTTL
           f == [e EXCEPT !.createdAt = c, !.maximumExpiresAt = m, !.expiresAt = x]
<1>1. e \in LeaseStatus
  BY DEF LeaseStatus
<1>2. \A t : Synced(st, resolved, t) = SyncExpirationStatus(f, resolved.idleTTL, t)
  BY Zenon DEF Synced, EnsureTimestamps, e, c, x, m, f
<1> HIDE DEF e
<1>3. c \in Nat /\ resolved.ttl \in Int /\ resolved.maxTTL \in Int
  BY <1>1, ConstantsAssumption DEF LeaseStatus, TimeOrNil, Resolved
<1> HIDE DEF c
<1>4. x \in Int \cup {Nil} /\ m \in Int
  BY <1>1, <1>3 DEF LeaseStatus
<1> HIDE DEF x, m
<1>5. f \in LeaseStatus
  BY <1>1, <1>3, <1>4 DEF LeaseStatus, TimeOrNil
<1> HIDE DEF f
<1>6. QED
  BY <1>2, <1>5

\* The deadline that the status and the resolved durations give does not
\* depend on when it is derived.
LEMMA DeadlineFixed ==
    ASSUME NEW st \in LeaseStatus, NEW resolved \in Resolved, NEW t, NEW u
    PROVE  EffectiveDeadline(Synced(st, resolved, t)) = EffectiveDeadline(Synced(st, resolved, u))
<1>1. PICK f \in LeaseStatus :
         \A v : Synced(st, resolved, v) = SyncExpirationStatus(f, resolved.idleTTL, v)
  BY SyncedShape
<1> DEFINE last == IF f.lastActivityAt = Nil THEN f.createdAt ELSE f.lastActivityAt
           hard == HardDeadline(f)
           idle == IdleDeadline(hard, last, resolved.idleTTL)
           eff  == EffectiveOf(hard, idle)
           reason(v) == IF f.expirationReason \in {"ManualExpiration", "SourceClosed"}
                        THEN f.expirationReason
                        ELSE IF v < eff THEN ""
                        ELSE ResolveExpirationReason(v, hard, idle)
           r(v) == [f EXCEPT !.lastActivityAt = last, !.idleExpiresAt = idle,
                             !.effectiveExpiresAt = eff, !.expirationReason = reason(v)]
<1>2. CASE f.createdAt = Nil \/ f.expiresAt = Nil
  BY <1>1, <1>2 DEF SyncExpirationStatus
<1>3. CASE ~(f.createdAt = Nil \/ f.expiresAt = Nil)
  <2>1. \A v : SyncExpirationStatus(f, resolved.idleTTL, v) = r(v)
    BY <1>3, Zenon DEF SyncExpirationStatus, last, hard, idle, eff, reason, r
  <2> HIDE DEF last, hard, idle, eff, reason
  <2>2. \A v : r(v).effectiveExpiresAt = eff /\ r(v).expiresAt = f.expiresAt
    BY DEF LeaseStatus
  <2> HIDE DEF r
  <2>3. QED
    BY <1>1, <2>1, <2>2 DEF EffectiveDeadline
<1>4. QED
  BY <1>2, <1>3

\* A teardown stays justified: deadlines do not move while Reconcile works.
LEMMA StaysJustified ==
    ASSUME IInv, Justified, [Next]_vars
    PROVE  Justified'
<1>1. /\ w.obj.status \in LeaseStatus /\ w.resolved \in Resolved /\ w.st \in LeaseStatus
      /\ now \in Nat
  BY DEF IInv, WorkerOK, LeaseOK, StatusOK, Worker
<1>2. w'.obj = w.obj /\ w'.resolved = w.resolved => Deadline' = Deadline
  BY <1>1, DeadlineFixed DEF Deadline
<1>3. CASE Reconcile
  <2>1. CASE Starts \/ Rereads
    BY <2>1 DEF Starts, Rereads, Justified
  <2>2. CASE Advances
    <3>1. /\ w'.obj = w.obj /\ Deadline' = Deadline /\ now' = now
          /\ Deadline = EffectiveDeadline(Synced(w.obj.status, w.resolved, now))
      BY <1>2, <2>2 DEF Advances, Deadline
    <3>2. CASE w'.pc = "check"
      <4>1. w'.st = Synced(w.obj.status, w.resolved, now)
        BY <2>2, <3>2 DEF Advances, Flows, StatusFlows
      <4>2. QED
        BY <3>1, <3>2, <4>1 DEF Justified
    <3>3. CASE w'.pc = "cleanup"
      <4>1. w.pc = "check" /\ IsExpired(w.st, now)
        BY <2>2, <3>3 DEF Advances, Flows, StatusFlows
      <4>2. Deadline # Nil /\ now >= Deadline
        BY <4>1 DEF Justified, IsExpired
      <4>3. Deadline \in Int
        BY <1>1, <4>1, <4>2 DEF Justified, EffectiveDeadline, LeaseStatus
      <4>4. QED
        BY <3>1, <3>3, <4>2, <4>3 DEF Justified
    <3>4. CASE w'.pc \notin {"check", "cleanup"}
      BY <3>4 DEF Justified
    <3>5. QED
      BY <3>2, <3>3, <3>4
  <2>3. CASE Returns
    BY <2>3, AtRestFields DEF Returns, Justified
  <2>4. QED
    BY <1>3, <2>1, <2>2, <2>3, ReconcileSteps
<1>4. CASE Cluster \/ Client \/ UNCHANGED vars
  <2>1. Elsewhere
    BY <1>4, OtherSteps
  <2>2. CASE w' = w
    <3>1. Deadline' = Deadline /\ now <= now' /\ now' \in Nat
      BY <1>2, <2>1, <2>2 DEF Elsewhere
    <3>2. Deadline \in Int /\ now >= Deadline => now' >= Deadline
      BY <1>1, <3>1
    <3>3. QED
      BY <2>2, <3>1, <3>2 DEF Justified
  <2>3. CASE w' = AtRest
    BY <2>3, AtRestFields DEF Justified
  <2>4. QED
    BY <2>1, <2>2, <2>3 DEF Elsewhere
<1>5. QED
  BY <1>3, <1>4 DEF Next

-----------------------------------------------------------------------------
(* The theorems                                                            *)

\* The inductive invariant holds in every reachable state.
THEOREM TeardownInvariant == Spec => []TInv
<1>1. Init => TInv
  <2> SUFFICES ASSUME Init PROVE TInv
    OBVIOUS
  <2>1. /\ w = AtRest /\ cache = api /\ api.status = EmptyStatus
    BY DEF Init
  <2>2. ~Manual(EmptyStatus)
    BY DEF EmptyStatus, Manual
  <2>3. QED
    BY <2>1, <2>2, AtRestFields
       DEF TInv, DeletionKnown, OnlyCleanup, DeleteSeen, Justified
<1>2. IInv /\ TInv /\ [Next]_vars => TInv'
  BY DeletionStaysKnown, CleanupStays, StaysJustified DEF TInv
<1>3. QED
  BY <1>1, <1>2, Invariant, PTL DEF Spec

\* cleanupEnvironment takes a live Namespace down only for a lease that was
\* deleted, or whose deadline, derived anew from the object that Reconcile
\* read, has passed.
THEOREM TeardownIsJustified == Spec => TeardownJustified
<1> DEFINE Act == \A n \in Names :
                    w.pc = "cleanup" /\ ns[n] = "active" /\ ns'[n] = "terminating" =>
                      api.deleting \/ IsExpired(Synced(w.obj.status, w.resolved, now), now)
<1>1. TInv /\ [Next]_vars => [Act]_vars
  BY NilAssumption DEF TInv, DeletionKnown, Justified, Deadline, IsExpired
<1>2. QED
  BY <1>1, TeardownInvariant, PTL DEF Spec, TeardownJustified

\* Once a deleted lease has been seen cleaning up, no write that was under way
\* takes it back to a live phase.
THEOREM CleanupNeverTakenBack == Spec => CleanupIsFinal
<1> DEFINE Act == api.deleting /\ api.status.phase \in {"Cleaning", "Expired"}
                    /\ api.status.expirationReason = "ManualExpiration" =>
                    api'.status.phase \in {"Cleaning", "Expired"}
<1>1. IInv /\ TInv /\ [Next]_vars => [Act]_vars
  <2> SUFFICES ASSUME IInv, TInv, [Next]_vars, Manual(api.status),
                      api.status.phase \in {"Cleaning", "Expired"}
               PROVE  api'.status.phase \in {"Cleaning", "Expired"}
    BY DEF Manual
  <2>1. w.pc # "idle" => w.st.phase \in {"Cleaning", "Expired"}
    BY DEF TInv, OnlyCleanup, DeleteSeen
  <2>2. CASE Reconcile
    <3>1. api'.status = api.status \/ (w.pc # "idle" /\ api'.status = w.st)
      BY <2>2, ReconcileSteps DEF Starts, Rereads, Advances, Flows, Writes, Returns
    <3>2. QED
      BY <2>1, <3>1
  <2>3. CASE Cluster \/ Client \/ UNCHANGED vars
    BY <2>3, OtherSteps DEF Elsewhere, OthersWrite
  <2>4. QED
    BY <2>2, <2>3 DEF Next
<1>2. QED
  BY <1>1, Invariant, TeardownInvariant, PTL DEF Spec, CleanupIsFinal
=============================================================================
