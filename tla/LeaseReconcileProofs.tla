------------------------ MODULE LeaseReconcileProofs ------------------------
(***************************************************************************)
(* Machine-checked proofs about LeaseReconcile, for every value of its     *)
(* constants: the type invariant, the order of the deadlines in every copy *)
(* of the lease, and the finalizer that outlives the Namespace.            *)
(***************************************************************************)
EXTENDS LeaseReconcile, WellFoundedInduction, TLAPS

-----------------------------------------------------------------------------
(* The inductive invariant                                                 *)

\* A well-typed status with ordered deadlines.
StatusOK(st) == st \in LeaseStatus /\ DeadlinesOrderedIn(st)

LeaseOK(lease) == lease \in Lease /\ StatusOK(lease.status)

\* Besides the types and the three statuses the worker carries: between
\* policy.Resolve and EnsureTimestamps the resolved durations are valid.
WorkerOK(v) ==
    /\ v \in Worker
    /\ StatusOK(v.st) /\ StatusOK(v.before) /\ LeaseOK(v.obj)
    /\ v.pc = "sync" => ValidTTLs(v.resolved.ttl, v.resolved.maxTTL)

\* A Namespace is read as it is: the lease is remote, or no informer lags.
FreshNs == Remote \/ "stale" \notin Features

\* The Namespace that cleanupEnvironment found gone stays gone until the
\* finalizer is removed: nobody but the worker creates one.  For a local lease
\* whose Namespace informer lags nothing is claimed.
CleanupHolds ==
    /\ FreshNs /\ ~BestEffort
    /\ w.pc \in {"patchDone", "removeFinalizer"}
    => w.st.namespace = Nil \/ ns[w.st.namespace] = "none"

IInv ==
    /\ now \in Nat
    /\ LeaseOK(api)
    /\ LeaseOK(cache)
    /\ ns \in [Names -> {"none", "active", "terminating"}]
    /\ nsCache \in [Names -> {"none", "active", "terminating"}]
    /\ policy \in Policies \cup {Nil}
    /\ targetUp \in BOOLEAN
    /\ WorkerOK(w)
    /\ wake \in TimeOrNil
    /\ touchAt \in TimeOrNil
    /\ extendTo \in Int \cup {Nil}
    /\ faults \in Nat
    /\ CleanupHolds

-----------------------------------------------------------------------------
(* Least elements                                                          *)

\* A nonempty set of natural numbers has a least element.
LEMMA NatMinimum ==
    ASSUME NEW T, T \subseteq Nat, T # {}
    PROVE  \E m \in T : \A k \in T : m <= k
<1> DEFINE R == {ss \in Nat \X Nat : ss[1] < ss[2]}
<1>1. IsWellFoundedOn(R, Nat)
  BY NatLessThanWellFounded DEF OpToRel
<1> HIDE DEF R
<1>2. PICK m \in T : \A k \in T : ~(<<k, m>> \in R)
  BY <1>1, WFMin
<1>3. ASSUME NEW k \in T PROVE m <= k
  <2>1. ~(k < m)
    BY <1>2 DEF R
  <2>2. QED
    BY <2>1
<1>4. QED
  BY <1>3

\* NextReconcileAfter never returns a negative delay: a warning or a deadline
\* that is due gives 0, and otherwise the earliest one lies ahead.
LEMMA NextReconcileAfterType ==
    ASSUME NEW t \in Nat, NEW deadline \in Int, NEW S \in SUBSET (Nat \ {0}),
           NEW delivered
    PROVE  NextReconcileAfter(t, deadline, S, delivered) \in Nat
<1> DEFINE due == {deadline} \cup {deadline - x : x \in S \ delivered}
           T == {d - t : d \in due}
           least == CHOOSE d \in due : \A e \in due : d <= e
<1>1. CASE \E d \in due : d <= t
  BY <1>1 DEF NextReconcileAfter
<1>2. CASE ~ \E d \in due : d <= t
  <2>1. \A d \in due : d \in Int /\ d > t
    BY <1>2
  <2>2. T \subseteq Nat /\ T # {}
    BY <2>1
  <2>3. \E m \in T : \A k \in T : m <= k
    <3> HIDE DEF T
    <3> QED BY <2>2, NatMinimum
  <2>4. \E d \in due : \A e \in due : d <= e
    <3>1. PICK m \in T : \A k \in T : m <= k
      BY <2>3
    <3>2. PICK d \in due : m = d - t
      BY <3>1
    <3>3. ASSUME NEW e \in due PROVE d <= e
      <4>1. e - t \in T
        OBVIOUS
      <4>2. m <= e - t
        BY <3>1, <4>1
      <4>3. d \in Int /\ e \in Int
        BY <2>1
      <4> HIDE DEF due, T
      <4>4. QED
        BY <4>2, <4>3, <3>2
    <3>4. QED
      BY <3>3
  <2>5. least \in due
    <3> HIDE DEF due
    <3> QED BY <2>4
  <2>6. least - t \in Nat
    <3> HIDE DEF due, least
    <3> QED BY <2>5, <2>1
  <2>7. QED
    BY <1>2, <2>6 DEF NextReconcileAfter
<1>3. QED
  BY <1>1, <1>2

-----------------------------------------------------------------------------
(* What the operators on statuses preserve                                 *)

\* The phases, the Ready condition, the reason and the resolved spec have no
\* part in the deadlines: the Mark functions keep a status in order.
LEMMA MarksOK ==
    ASSUME NEW st, StatusOK(st)
    PROVE  /\ StatusOK(MarkProvisioning(st))
           /\ \A e \in BOOLEAN : StatusOK(MarkReady(st, e))
           /\ StatusOK(MarkFailed(st))
           /\ \A r \in ExpirationReasons : StatusOK(MarkExpired(st, r))
           /\ StatusOK(MarkCleaning(st))
           /\ StatusOK(MarkCleanupFailed(st))
           /\ StatusOK(MarkCleanupComplete(st))
           /\ \A r \in ExpirationReasons :
                 StatusOK([st EXCEPT !.expirationReason = r])
           /\ \A r \in Resolved : StatusOK([st EXCEPT !.effective = r])
           /\ \A n \in Names : StatusOK([st EXCEPT !.namespace = n])
           /\ \A d \in SUBSET Warnings :
                 StatusOK([st EXCEPT !.warningsDelivered = d])
<1> USE DEF StatusOK, DeadlinesOrderedIn, LeaseStatus
<1>1. StatusOK(MarkProvisioning(st))
  BY DEF MarkProvisioning, Phases
<1>2. ASSUME NEW e \in BOOLEAN PROVE StatusOK(MarkReady(st, e))
  <2>1. \A p \in {"Expiring", "Active"} :
           StatusOK([st EXCEPT !.phase = p, !.ready = TRUE])
    BY DEF Phases
  <2>2. (IF e THEN "Expiring" ELSE "Active") \in {"Expiring", "Active"}
    OBVIOUS
  <2> HIDE DEF StatusOK
  <2>3. QED
    BY <2>1, <2>2, Zenon DEF MarkReady
<1>3. StatusOK(MarkFailed(st))
  BY DEF MarkFailed, Phases
<1>4. ASSUME NEW r \in ExpirationReasons PROVE StatusOK(MarkExpired(st, r))
  <2>1. \A q \in ExpirationReasons :
           StatusOK([st EXCEPT !.expirationReason = q, !.phase = "Expiring",
                               !.ready = FALSE])
    BY DEF Phases
  <2>2. (IF r = "" THEN "TTLExpired" ELSE r) \in ExpirationReasons
    BY DEF ExpirationReasons
  <2> HIDE DEF StatusOK
  <2>3. QED
    BY <2>1, <2>2, Zenon DEF MarkExpired
<1>5. StatusOK(MarkCleaning(st))
  BY DEF MarkCleaning, Phases
<1>6. StatusOK(MarkCleanupFailed(st))
  BY DEF MarkCleanupFailed, Phases
<1>7. StatusOK(MarkCleanupComplete(st))
  BY DEF MarkCleanupComplete, Phases
<1>8. ASSUME NEW r \in ExpirationReasons
      PROVE  StatusOK([st EXCEPT !.expirationReason = r])
  OBVIOUS
<1>9. ASSUME NEW r \in Resolved PROVE StatusOK([st EXCEPT !.effective = r])
  OBVIOUS
<1>10. ASSUME NEW n \in Names PROVE StatusOK([st EXCEPT !.namespace = n])
  OBVIOUS
<1>11. ASSUME NEW d \in SUBSET Warnings
       PROVE  StatusOK([st EXCEPT !.warningsDelivered = d])
  OBVIOUS
<1> HIDE DEF StatusOK
<1>12. QED
  BY <1>1, <1>2, <1>3, <1>4, <1>5, <1>6, <1>7, <1>8, <1>9, <1>10, <1>11

\* EnsureTimestamps sets createdAt, expiresAt and maximumExpiresAt together
\* and keeps the hard deadline under the cap: a rejected renewal keeps an
\* expiresAt below created + ttl, which is at most created + maxTTL.
LEMMA EnsureTimestampsOrdered ==
    ASSUME NEW st \in LeaseStatus, NEW created \in Nat, NEW ttl \in Int,
           NEW maxTTL \in Int, NEW renewable \in BOOLEAN, ValidTTLs(ttl, maxTTL)
    PROVE  LET r == EnsureTimestamps(st, created, ttl, maxTTL, renewable)
           IN  /\ r \in LeaseStatus
               /\ r.createdAt \in Nat
               /\ r.expiresAt \in Int
               /\ r.maximumExpiresAt \in Int
               /\ r.expiresAt <= r.maximumExpiresAt
<1> DEFINE c == IF st.createdAt = Nil THEN created ELSE st.createdAt
           e == IF RenewalRejected(st, c, ttl, renewable) THEN st.expiresAt
                ELSE c + ttl
<1>1. c \in Nat
  BY DEF LeaseStatus, TimeOrNil
<1> HIDE DEF c
<1>2. e \in Int /\ e <= c + maxTTL
  <2>1. RenewalRejected(st, c, ttl, renewable)
          => st.expiresAt # Nil /\ c + ttl > st.expiresAt
    BY Zenon DEF RenewalRejected
  <2>2. CASE RenewalRejected(st, c, ttl, renewable)
    <3>1. e = st.expiresAt
      BY <2>2
    <3>2. c + ttl <= c + maxTTL
      BY <1>1 DEF ValidTTLs
    <3> HIDE DEF e
    <3>3. QED
      BY <1>1, <2>1, <2>2, <3>1, <3>2 DEF LeaseStatus
  <2>3. CASE ~RenewalRejected(st, c, ttl, renewable)
    <3>1. e = c + ttl
      BY <2>3
    <3> HIDE DEF e
    <3>2. QED
      BY <1>1, <3>1 DEF ValidTTLs
  <2>4. QED
    BY <2>2, <2>3
<1> HIDE DEF e
<1>3. [st EXCEPT !.createdAt = c, !.maximumExpiresAt = c + maxTTL,
                 !.expiresAt = e] \in LeaseStatus
  <2>1. \A a \in Nat : [st EXCEPT !.createdAt = a] \in LeaseStatus
    BY DEF LeaseStatus, TimeOrNil
  <2>2. \A s \in LeaseStatus : \A a \in Int :
           [s EXCEPT !.maximumExpiresAt = a] \in LeaseStatus
    BY DEF LeaseStatus
  <2>3. \A s \in LeaseStatus : \A a \in Int :
           [s EXCEPT !.expiresAt = a] \in LeaseStatus
    BY DEF LeaseStatus
  <2>4. c + maxTTL \in Int
    BY <1>1
  <2>5. QED
    BY <1>1, <1>2, <2>1, <2>2, <2>3, <2>4, Zenon
<1>4. EnsureTimestamps(st, created, ttl, maxTTL, renewable)
        = [st EXCEPT !.createdAt = c, !.maximumExpiresAt = c + maxTTL,
                     !.expiresAt = e]
  BY Zenon DEF EnsureTimestamps, c, e
<1>5. QED
  BY <1>1, <1>2, <1>3, <1>4 DEF LeaseStatus

\* SyncExpirationStatus derives idle and effective deadlines under the hard
\* one, from any status whose hard deadline is under the cap.
LEMMA SyncExpirationStatusOK ==
    ASSUME NEW st \in LeaseStatus, NEW idleTTL \in Int, NEW t \in Nat,
           st.createdAt \in Nat, st.expiresAt \in Int,
           st.maximumExpiresAt \in Int, st.expiresAt <= st.maximumExpiresAt
    PROVE  StatusOK(SyncExpirationStatus(st, idleTTL, t))
<1> DEFINE last == IF st.lastActivityAt = Nil THEN st.createdAt
                   ELSE st.lastActivityAt
           hard == HardDeadline(st)
           idle == IdleDeadline(hard, last, idleTTL)
           eff  == EffectiveOf(hard, idle)
           reason == IF st.expirationReason \in {"ManualExpiration", "SourceClosed"}
                     THEN st.expirationReason
                     ELSE IF t < eff THEN ""
                     ELSE ResolveExpirationReason(t, hard, idle)
           r == [st EXCEPT !.lastActivityAt = last, !.idleExpiresAt = idle,
                           !.effectiveExpiresAt = eff,
                           !.expirationReason = reason]
<1>1. SyncExpirationStatus(st, idleTTL, t) = r
  BY NilAssumption DEF SyncExpirationStatus
<1>2. last \in Nat
  BY DEF LeaseStatus, TimeOrNil
<1>3. hard = st.expiresAt
  BY NilAssumption DEF HardDeadline, Lesser
<1> HIDE DEF last, hard
<1>4. idle \in Int \cup {Nil}
  BY <1>2, <1>3 DEF IdleDeadline, Lesser
<1> HIDE DEF idle
<1>5. /\ eff \in Int
      /\ eff <= st.expiresAt
      /\ idle # Nil => eff <= idle
  BY <1>3, <1>4 DEF EffectiveOf, Lesser
<1> HIDE DEF eff
<1>6. reason \in ExpirationReasons
  BY DEF LeaseStatus, ExpirationReasons, ResolveExpirationReason
<1> HIDE DEF reason
<1>7. r \in LeaseStatus
  BY <1>2, <1>4, <1>5, <1>6 DEF LeaseStatus, TimeOrNil
<1>8. /\ r.createdAt = st.createdAt /\ r.expiresAt = st.expiresAt
      /\ r.maximumExpiresAt = st.maximumExpiresAt
      /\ r.idleExpiresAt = idle /\ r.effectiveExpiresAt = eff
  BY DEF LeaseStatus
<1> HIDE DEF r
<1>9. DeadlinesOrderedIn(r)
  BY <1>5, <1>8, NilAssumption DEF DeadlinesOrderedIn
<1>10. QED
  BY <1>1, <1>7, <1>9 DEF StatusOK

\* What policy.Resolve returns without an error is complete, its durations
\* are positive and the cap is not below the ttl, whatever the policy leaves
\* out: EnsureTimestamps never refuses it.
LEMMA ResolveOK ==
    ASSUME NEW spec \in LeaseSpec, NEW p \in Policy, Accepted(spec, p)
    PROVE  /\ Resolve(spec, p) \in Resolved
           /\ ValidTTLs(Resolve(spec, p).ttl, Resolve(spec, p).maxTTL)
<1>1. TTL(spec, p) \in Int /\ TTL(spec, p) > 0
  BY DEF Accepted, InBounds, TTL, OrElse, LeaseSpec, Policy, DurationPolicy, Duration
<1>2. MaxTTL(spec, p) \in Duration /\ (MaxTTL(spec, p) # Nil => MaxTTL(spec, p) > 0)
  <2>1. MaxTTLPolicy(p) \in DurationPolicy
    BY DEF MaxTTLPolicy, Policy, DurationPolicy, Duration, Unlimited
  <2>2. MaxTTL(spec, p) \in Duration
    BY <2>1 DEF MaxTTL, OrElse, LeaseSpec, DurationPolicy
  <2>3. QED
    BY <2>2 DEF Accepted, InBounds
<1>3. OrElse(IdleTTL(spec, p), 0) \in Int
  BY DEF IdleTTL, OrElse, LeaseSpec, Policy, DurationPolicy, Duration
<1>4. /\ spec.renewable \in BOOLEAN \cup {Nil} /\ spec.defaultDeny \in BOOLEAN \cup {Nil}
      /\ p.renewableDefault \in BOOLEAN \cup {Nil} /\ p.denyDefault \in BOOLEAN \cup {Nil}
  BY DEF LeaseSpec, Policy, Flag
<1>5. Renewable(spec, p) \in BOOLEAN
  BY <1>4, Zenon DEF Renewable, OrElse
<1>6. DefaultDeny(spec, p) \in BOOLEAN
  BY <1>4, Zenon DEF DefaultDeny, OrElse
<1>7. /\ OrElse(MaxTTL(spec, p), TTL(spec, p)) \in Int
      /\ OrElse(MaxTTL(spec, p), TTL(spec, p)) > 0
      /\ OrElse(MaxTTL(spec, p), TTL(spec, p)) >= TTL(spec, p)
  BY <1>1, <1>2 DEF OrElse, Duration, Accepted
<1>8. QED
  BY <1>1, <1>3, <1>5, <1>6, <1>7 DEF Resolve, Resolved, ValidTTLs

\* The limits of a policy hold for what Resolve returns: the ttl is within its
\* bounds, and so is a maxTTL that the lease or a default sets.
THEOREM PolicyLimitsHold ==
    ASSUME NEW spec \in LeaseSpec, NEW p \in Policy, Accepted(spec, p)
    PROVE  /\ InBounds(Resolve(spec, p).ttl, p.ttl)
           /\ MaxTTL(spec, p) # Nil => InBounds(Resolve(spec, p).maxTTL, MaxTTLPolicy(p))
           /\ spec.maxTTL # Nil => InBounds(Resolve(spec, p).maxTTL,
                                            [Unlimited EXCEPT !.maximum = p.ttl.maximum])
<1>1. /\ Resolve(spec, p).ttl = TTL(spec, p)
      /\ MaxTTL(spec, p) # Nil => Resolve(spec, p).maxTTL = MaxTTL(spec, p)
      /\ spec.maxTTL # Nil => MaxTTL(spec, p) = spec.maxTTL
  BY DEF Resolve, OrElse, MaxTTL
<1>2. InBounds(Resolve(spec, p).ttl, p.ttl)
  BY <1>1 DEF Accepted
<1>3. MaxTTL(spec, p) # Nil => InBounds(Resolve(spec, p).maxTTL, MaxTTLPolicy(p))
  BY <1>1 DEF Accepted
<1>4. ASSUME spec.maxTTL # Nil
      PROVE  InBounds(Resolve(spec, p).maxTTL, [Unlimited EXCEPT !.maximum = p.ttl.maximum])
  <2>1. Resolve(spec, p).maxTTL = spec.maxTTL /\ spec.maxTTL > 0
    BY <1>1, <1>4 DEF Accepted, InBounds
  <2>2. p.ttl.maximum # Nil => spec.maxTTL <= p.ttl.maximum
    BY <1>4 DEF Accepted
  <2>3. QED
    BY <2>1, <2>2 DEF InBounds, Unlimited
<1>5. QED
  BY <1>2, <1>3, <1>4

\* The exception is real.  A lease that leaves maxTTL out, under a policy that
\* limits maxTTL without a default, gets its ttl as the cap after the check of
\* the limit: Resolve accepts a lifetime over maxTTL.maximum.
THEOREM UnsetMaxTTLEscapesItsMaximum ==
    \E spec \in LeaseSpec, p \in Policy :
        /\ Accepted(spec, p)
        /\ MaxTTLPolicy(p).maximum # Nil
        /\ Resolve(spec, p).maxTTL > MaxTTLPolicy(p).maximum
<1> DEFINE limit == [default |-> Nil, minimum |-> Nil, maximum |-> 1]
           spec == [ttl |-> 2, maxTTL |-> Nil, idleTTL |-> Nil, renewable |-> Nil,
                    quota |-> Nil, defaultDeny |-> Nil]
           p == [ttl |-> Unlimited, maxTTL |-> limit, idleTTL |-> Unlimited,
                 renewableDefault |-> Nil, renewableForce |-> Nil,
                 maxQuota |-> Nil, denyDefault |-> Nil, denyRequired |-> FALSE]
<1>1. spec \in LeaseSpec /\ p \in Policy
  BY DEF LeaseSpec, Policy, DurationPolicy, Unlimited, Duration, Flag, Amount
<1>2. MaxTTLPolicy(p) = limit
  <2>1. limit \in DurationPolicy
    BY DEF DurationPolicy, Duration
  <2>2. limit # Nil
    BY <2>1, NilFieldAssumption
  <2>3. QED
    BY <2>2 DEF MaxTTLPolicy
<1>3. TTL(spec, p) = 2 /\ MaxTTL(spec, p) = Nil /\ IdleTTL(spec, p) = Nil
  BY <1>2, NilAssumption DEF TTL, MaxTTL, IdleTTL, OrElse, Unlimited
<1>4. Accepted(spec, p)
  BY <1>2, <1>3, NilAssumption
     DEF Accepted, ValidPolicy, Consistent, InBounds, QuotaAllowed, OrElse, Unlimited
<1>5. Resolve(spec, p).maxTTL = 2
  BY <1>3 DEF Resolve, OrElse
<1>6. QED
  BY <1>1, <1>2, <1>4, <1>5, NilAssumption

\* Reconcile's two calls in sequence.
LEMMA SyncedOK ==
    ASSUME NEW status, StatusOK(status), NEW resolved \in Resolved, NEW t \in Nat,
           ValidTTLs(resolved.ttl, resolved.maxTTL)
    PROVE  StatusOK(Synced(status, resolved, t))
<1> DEFINE st == [status EXCEPT !.effective = resolved]
           r == EnsureTimestamps(st, CreationTimestamp, resolved.ttl,
                                 resolved.maxTTL, resolved.renewable)
<1>1. /\ resolved.ttl \in Int /\ resolved.maxTTL \in Int
      /\ resolved.idleTTL \in Int /\ resolved.renewable \in BOOLEAN
  BY DEF Resolved
<1>2. st \in LeaseStatus
  BY MarksOK DEF StatusOK
<1>3. CreationTimestamp \in Nat
  BY ConstantsAssumption
<1>4. Synced(status, resolved, t) = SyncExpirationStatus(r, resolved.idleTTL, t)
  BY DEF Synced
<1> HIDE DEF st
<1>5. /\ r \in LeaseStatus /\ r.createdAt \in Nat /\ r.expiresAt \in Int
      /\ r.maximumExpiresAt \in Int /\ r.expiresAt <= r.maximumExpiresAt
  BY <1>1, <1>2, <1>3, EnsureTimestampsOrdered
<1> HIDE DEF r
<1>6. QED
  BY <1>1, <1>4, <1>5, SyncExpirationStatusOK

\* A heartbeat keeps the deadlines in order: it moves the idle deadline, and
\* the effective one no further than the hard deadline.
LEMMA RecordActivityOK ==
    ASSUME NEW st, StatusOK(st), NEW t \in Nat, NEW idleTTL \in Int,
           CanRecordActivity(st, t, idleTTL)
    PROVE  StatusOK(RecordActivity(st, t, idleTTL))
<1> DEFINE r == [st EXCEPT !.lastActivityAt = t]
<1>1. /\ st.createdAt \in Nat /\ st.expiresAt \in Int
      /\ st.maximumExpiresAt \in Int /\ st.expiresAt <= st.maximumExpiresAt
  BY DEF CanRecordActivity, StatusOK, DeadlinesOrderedIn, LeaseStatus, TimeOrNil
<1>2. r \in LeaseStatus
  BY DEF StatusOK, LeaseStatus, TimeOrNil
<1>3. /\ r.createdAt = st.createdAt /\ r.expiresAt = st.expiresAt
      /\ r.maximumExpiresAt = st.maximumExpiresAt
  BY DEF StatusOK, LeaseStatus
<1>4. RecordActivity(st, t, idleTTL) = SyncExpirationStatus(r, idleTTL, t)
  BY DEF RecordActivity
<1> HIDE DEF r
<1>5. QED
  BY <1>1, <1>2, <1>3, <1>4, SyncExpirationStatusOK

-----------------------------------------------------------------------------
(* The worker and the work queue                                           *)

\* A worker at rest is in order.
LEMMA AtRestOK == WorkerOK(AtRest) /\ AtRest.pc = "idle"
<1>1. AnySpec \in LeaseSpec /\ Unresolved \in Resolved
  BY ConstantsAssumption DEF AnySpec, Unresolved, Resolved
<1>2. StatusOK(EmptyStatus)
  BY DEF StatusOK, EmptyStatus, LeaseStatus, DeadlinesOrderedIn, Phases,
         TimeOrNil, ExpirationReasons
<1>3. QED
  BY <1>1, <1>2 DEF AtRest, WorkerOK, Worker, LeaseOK, Lease, StatusOK, PCs

\* The worker moves on with a status in order; only BeginSync enters "sync".
LEMMA GotoOK ==
    ASSUME WorkerOK(w), NEW pc \in PCs \ {"sync"}, NEW st, StatusOK(st),
           NEW result \in Nat \cup {Nil}
    PROVE  /\ WorkerOK([w EXCEPT !.pc = pc])
           /\ WorkerOK([w EXCEPT !.pc = pc, !.st = st])
           /\ WorkerOK([w EXCEPT !.pc = pc, !.st = st, !.result = result])
BY DEF WorkerOK, Worker, StatusOK, LeaseOK

\* The object and the status are read anew from the cache.
LEMMA RefreshOK ==
    ASSUME WorkerOK(w), NEW pc \in PCs \ {"sync"}, NEW st, StatusOK(st),
           NEW obj, LeaseOK(obj)
    PROVE  WorkerOK([w EXCEPT !.pc = pc, !.obj = obj, !.st = st])
BY DEF WorkerOK, Worker, StatusOK, LeaseOK

\* Writing a status, or nothing else of the object, keeps a lease in order.
LEMMA LeaseWritesOK ==
    ASSUME NEW lease, LeaseOK(lease)
    PROVE  /\ \A st : StatusOK(st) => LeaseOK([lease EXCEPT !.status = st])
           /\ \A s \in LeaseSpec : LeaseOK([lease EXCEPT !.spec = s])
           /\ \A t \in Int : LeaseOK([lease EXCEPT !.spec.ttl = t])
           /\ \A f \in BOOLEAN : LeaseOK([lease EXCEPT !.finalizer = f])
           /\ LeaseOK(Deleted(lease))
           /\ LeaseOK(Removed(lease))
<1>1. \A st : StatusOK(st) => LeaseOK([lease EXCEPT !.status = st])
  BY DEF LeaseOK, Lease, StatusOK
<1>2. \A s \in LeaseSpec : LeaseOK([lease EXCEPT !.spec = s])
  BY DEF LeaseOK, Lease
<1>3. \A t \in Int : LeaseOK([lease EXCEPT !.spec.ttl = t])
  BY DEF LeaseOK, Lease, LeaseSpec, Duration
<1>4. \A f \in BOOLEAN : LeaseOK([lease EXCEPT !.finalizer = f])
  BY DEF LeaseOK, Lease
<1>5. LeaseOK(Removed(lease))
  BY DEF LeaseOK, Lease, Removed
<1>6. LeaseOK(Deleted(lease))
  BY <1>5 DEF LeaseOK, Lease, Deleted
<1>7. QED
  BY <1>1, <1>2, <1>3, <1>4, <1>5, <1>6

\* Every time that the work queue is asked for is a time.
LEMMA QueueOK ==
    ASSUME IInv
    PROVE  /\ QueuedAt(now) \in TimeOrNil
           /\ \A d \in Nat : QueuedAt(After(d)) \in TimeOrNil
<1>1. Horizon \in Nat
  BY ConstantsAssumption
<1>2. QED
  BY <1>1 DEF QueuedAt, After, Lesser, IInv, TimeOrNil

\* A Get of a Namespace that may be relied on returns what is stored.
LEMMA SeenIsNs ==
    ASSUME FreshNs, CanReadNs
    PROVE  \A n : SeenNs(n) = ns[n]
BY DEF FreshNs, CanReadNs, SeenNs

\* What is left to show for a step of the worker that writes the lease at
\* most: its new state is in order, and it has not entered the steps that
\* follow cleanupEnvironment.
LEMMA WorkerStep ==
    ASSUME IInv, UNCHANGED <<now, cache, ns, environment, clients>>,
           LeaseOK(api'), WorkerOK(w'), wake' \in TimeOrNil,
           w'.pc \notin {"patchDone", "removeFinalizer"}
    PROVE  IInv'
BY DEF IInv, environment, clients, CleanupHolds

\* The ways a worker's step ends.
LEMMA GotoStep ==
    ASSUME IInv, UNCHANGED <<now, cache, ns, environment, clients>>, LeaseOK(api'),
           NEW pc \in PCs \ {"sync", "patchDone", "removeFinalizer"}, Goto(pc)
    PROVE  IInv'
<1>1. WorkerOK(w) /\ StatusOK(w.st) /\ wake \in TimeOrNil /\ 0 \in Nat \cup {Nil}
  BY DEF IInv, WorkerOK
<1>2. w' = [w EXCEPT !.pc = pc] /\ wake' = wake
  BY DEF Goto
<1>3. WorkerOK(w')
  BY <1>1, <1>2, GotoOK
<1>4. w'.pc = pc
  BY <1>1, <1>2 DEF WorkerOK, Worker
<1>5. QED
  BY <1>1, <1>2, <1>3, <1>4, WorkerStep

\* ... with another status,
LEMMA GotoWithStep ==
    ASSUME IInv, UNCHANGED <<now, cache, ns, environment, clients>>, LeaseOK(api'),
           NEW pc \in PCs \ {"sync", "patchDone", "removeFinalizer"},
           NEW st, StatusOK(st), GotoWith(pc, st)
    PROVE  IInv'
<1>1. WorkerOK(w) /\ wake \in TimeOrNil /\ 0 \in Nat \cup {Nil}
  BY DEF IInv
<1>2. w' = [w EXCEPT !.pc = pc, !.st = st] /\ wake' = wake
  BY DEF GotoWith
<1>3. WorkerOK(w')
  BY <1>1, <1>2, GotoOK
<1>4. w'.pc = pc
  BY <1>1, <1>2 DEF WorkerOK, Worker
<1>5. QED
  BY <1>1, <1>2, <1>3, <1>4, WorkerStep

\* ... towards patchStatusIfChanged with a result,
LEMMA GotoPatchStep ==
    ASSUME IInv, UNCHANGED <<now, cache, ns, environment, clients>>, LeaseOK(api'),
           NEW st, StatusOK(st), NEW result \in Nat \cup {Nil}, GotoPatch(st, result)
    PROVE  IInv'
<1>1. WorkerOK(w) /\ wake \in TimeOrNil
  BY DEF IInv
<1>2. w' = [w EXCEPT !.pc = "patch", !.st = st, !.result = result] /\ wake' = wake
  BY DEF GotoPatch
<1>3. "patch" \in PCs \ {"sync"}
  BY DEF PCs
<1>4. WorkerOK(w')
  BY <1>1, <1>2, <1>3, GotoOK
<1>5. w'.pc = "patch"
  BY <1>1, <1>2 DEF WorkerOK, Worker
<1>6. QED
  BY <1>1, <1>2, <1>4, <1>5, WorkerStep

\* ... or with the return of Reconcile.
LEMMA FinishStep ==
    ASSUME IInv, UNCHANGED <<now, cache, ns, environment, clients>>, LeaseOK(api'),
           NEW result \in Nat \cup {Nil}, Finish(result)
    PROVE  IInv'
<1>1. w' = AtRest
  BY DEF Finish
<1>2. wake' \in TimeOrNil
  BY QueueOK DEF Finish, Requeue, IInv
<1>3. QED
  BY <1>1, <1>2, AtRestOK, WorkerStep

\* The same for a step of somebody else: the worker stays where it is, and
\* no Namespace comes back.
LEMMA OtherStep ==
    ASSUME IInv, UNCHANGED w, now' \in Nat, LeaseOK(api'), LeaseOK(cache'),
           ns' \in [Names -> {"none", "active", "terminating"}],
           \A n \in Names : ns[n] = "none" => ns'[n] = "none",
           nsCache' \in [Names -> {"none", "active", "terminating"}],
           policy' \in Policies \cup {Nil}, targetUp' \in BOOLEAN, wake' \in TimeOrNil,
           touchAt' \in TimeOrNil, extendTo' \in Int \cup {Nil}, faults' \in Nat
    PROVE  IInv'
<1>1. w.st.namespace \in Names \cup {Nil}
  BY DEF IInv, WorkerOK, StatusOK, LeaseStatus
<1>2. QED
  BY <1>1 DEF IInv, CleanupHolds

\* Reconcile starts from the cached lease with a status in order.
LEMMA BeginOK ==
    ASSUME IInv, NEW pc \in {"cleanup", "addFinalizer", "patch", "sync"},
           NEW st, StatusOK(st), NEW resolved \in Resolved, Begin(pc, st, resolved),
           pc = "sync" => ValidTTLs(resolved.ttl, resolved.maxTTL)
    PROVE  IInv'
<1>1. LeaseOK(cache) /\ StatusOK(cache.status)
  BY DEF IInv, LeaseOK
<1>2. pc \in PCs
  BY DEF PCs
<1>3. w' = [pc |-> pc, obj |-> cache, st |-> st, before |-> cache.status,
            resolved |-> resolved, result |-> Nil]
  BY DEF Begin
<1>4. WorkerOK(w')
  BY <1>1, <1>2, <1>3 DEF WorkerOK, Worker, LeaseOK, StatusOK
<1>5. wake' \in TimeOrNil /\ LeaseOK(api')
  BY DEF Begin, TimeOrNil, IInv
<1>6. w'.pc \notin {"patchDone", "removeFinalizer"}
  BY <1>3
<1>7. QED
  BY <1>4, <1>5, <1>6, WorkerStep DEF Begin

\* Reconcile's branches up to IsExpired.
LEMMA StartPreserves ==
    ASSUME IInv,
           \/ BeginGone \/ BeginDelete \/ BeginAddFinalizer \/ BeginRejected
           \/ BeginSync \/ AddFinalizer \/ Sync \/ CheckExpired
    PROVE  IInv'
<1>1. WorkerOK(w) /\ StatusOK(w.st) /\ LeaseOK(w.obj) /\ now \in Nat
  BY DEF IInv, WorkerOK
<1>2. LeaseOK(cache) /\ LeaseOK(api) /\ StatusOK(cache.status)
  BY DEF IInv, LeaseOK
<1> Unresolved \in Resolved
  BY DEF Unresolved, Resolved
<1>3. CASE BeginGone
  BY <1>3 DEF BeginGone, IInv, environment, clients, TimeOrNil, CleanupHolds
<1>4. CASE BeginDelete
  <2> DEFINE r == IF cache.status.expirationReason = "SourceClosed"
                  THEN "SourceClosed" ELSE "ManualExpiration"
             st == MarkCleaning([cache.status EXCEPT !.expirationReason = r])
  <2>1. r \in ExpirationReasons
    BY DEF ExpirationReasons
  <2>2. Begin("cleanup", st, Unresolved)
    BY <1>4 DEF BeginDelete
  <2>3. StatusOK(st)
    <3> HIDE DEF r
    <3>1. StatusOK([cache.status EXCEPT !.expirationReason = r])
      BY <1>2, <2>1, MarksOK
    <3>2. QED
      BY <3>1, MarksOK
  <2> HIDE DEF st
  <2>4. QED
    BY <2>2, <2>3, BeginOK
<1>5. CASE BeginAddFinalizer
  BY <1>2, <1>5, BeginOK DEF BeginAddFinalizer
<1>6. CASE BeginRejected
  <2>1. StatusOK(MarkFailed(cache.status))
    BY <1>2, MarksOK
  <2>2. QED
    BY <1>6, <2>1, BeginOK DEF BeginRejected
<1>7. CASE BeginSync
  <2>1. cache.spec \in LeaseSpec /\ policy \in Policies /\ Accepted(cache.spec, policy)
    BY <1>2, <1>7 DEF BeginSync, Rejected, IInv, LeaseOK, Lease
  <2>2. policy \in Policy
    BY <2>1, ConstantsAssumption
  <2>3. /\ Resolve(cache.spec, policy) \in Resolved
        /\ ValidTTLs(Resolve(cache.spec, policy).ttl, Resolve(cache.spec, policy).maxTTL)
    BY <2>1, <2>2, ResolveOK
  <2>4. QED
    BY <1>2, <1>7, <2>3, BeginOK DEF BeginSync
<1>8. CASE AddFinalizer
  <2>1. LeaseOK(api')
    BY <1>2, <1>8, LeaseWritesOK DEF AddFinalizer
  <2>2. QED
    BY <1>8, <2>1, FinishStep DEF AddFinalizer
<1>9. CASE Sync
  <2>1. /\ StatusOK(w.obj.status) /\ w.resolved \in Resolved
        /\ ValidTTLs(w.resolved.ttl, w.resolved.maxTTL)
    BY <1>1, <1>9 DEF Sync, WorkerOK, Worker, LeaseOK
  <2>3. StatusOK(Synced(w.obj.status, w.resolved, now))
    BY <1>1, <2>1, SyncedOK
  <2>2. QED
    BY <1>2, <1>9, <2>3, GotoWithStep DEF Sync, PCs
<1>10. CASE CheckExpired
  <2> DEFINE r == IF w.st.expirationReason # "" THEN w.st.expirationReason
                  ELSE ResolveExpirationReason(now, w.st.expiresAt,
                                               w.st.idleExpiresAt)
  <2>1. r \in ExpirationReasons
    BY <1>1 DEF ExpirationReasons, ResolveExpirationReason, StatusOK, LeaseStatus
  <2>2. GotoWith("cleanup", MarkExpired(w.st, r)) \/ Goto("target")
    BY <1>10 DEF CheckExpired
  <2> HIDE DEF r
  <2>3. StatusOK(MarkExpired(w.st, r))
    BY <1>1, <2>1, MarksOK
  <2>4. UNCHANGED <<now, cache, ns, environment, clients>> /\ LeaseOK(api')
    BY <1>2, <1>10 DEF CheckExpired
  <2>5. QED
    BY <2>2, <2>3, <2>4, GotoStep, GotoWithStep DEF PCs
<1>11. QED
  BY <1>3, <1>4, <1>5, <1>6, <1>7, <1>8, <1>9, <1>10

\* The mark at the start of provisioning keeps a status in order.
LEMMA StartProvisioningOK ==
    ASSUME NEW st, StatusOK(st)
    PROVE  StatusOK(StartProvisioning(st))
BY MarksOK DEF StartProvisioning

\* Status().Update stores a status in order, or changes nothing.
LEMMA PersistOK ==
    ASSUME IInv, NEW pc, NEW next \in PCs \ {"sync", "patchDone", "removeFinalizer"},
           Persist(pc, next)
    PROVE  IInv'
<1>1. StatusOK(w.st) /\ LeaseOK(api) /\ 0 \in Nat \cup {Nil}
  BY DEF IInv, WorkerOK
<1>2. LeaseOK([api EXCEPT !.status = w.st])
  BY <1>1, LeaseWritesOK
<1>3. UNCHANGED <<now, cache, ns, environment, clients>>
  BY DEF Persist
<1>4. \/ LeaseOK(api') /\ Goto(next)
      \/ LeaseOK(api') /\ GotoPatch(w.st, 0)
  BY <1>1, <1>2 DEF Persist
<1>5. QED
  BY <1>1, <1>3, <1>4, GotoStep, GotoPatchStep

\* The re-read after it takes a lease in order from the cache.
LEMMA RefreshStep ==
    ASSUME IInv, NEW pc, NEW st, StatusOK(st),
           NEW next \in PCs \ {"sync", "patchDone", "removeFinalizer"},
           Refresh(pc, next, st)
    PROVE  IInv'
<1>1. WorkerOK(w) /\ LeaseOK(cache) /\ LeaseOK(api) /\ wake \in TimeOrNil
  BY DEF IInv
<1>2. w' = [w EXCEPT !.pc = next, !.obj = cache, !.st = st]
  BY DEF Refresh
<1>3. WorkerOK(w')
  BY <1>1, <1>2, RefreshOK
<1>4. w'.pc = next
  BY <1>1, <1>2 DEF WorkerOK, Worker
<1>5. UNCHANGED <<now, api, cache, ns, wake, environment, clients>>
  BY DEF Refresh
<1>6. QED
  BY <1>1, <1>3, <1>4, <1>5, WorkerStep

\* A delay is a natural number; RequeueAfter 0 is no requeue.
LEMMA ResultAfterType ==
    ASSUME NEW until \in Nat
    PROVE  ResultAfter(until) \in Nat \cup {Nil}
BY ConstantsAssumption DEF ResultAfter

\* The delay that reconcileActive ends with.
LEMMA ScheduleDelay ==
    ASSUME IInv, Schedule
    PROVE  \E until \in Nat : GotoPatch(w.st, ResultAfter(until))
<1> DEFINE deadline == EffectiveDeadline(w.st)
           until == IF deadline = Nil THEN 0
                    ELSE NextReconcileAfter(now, deadline, Warnings,
                                            w.st.warningsDelivered)
<1>1. until \in Nat
  <2>1. deadline \in Int \cup {Nil} /\ now \in Nat /\ w.st \in LeaseStatus
    BY DEF IInv, WorkerOK, EffectiveDeadline, StatusOK, LeaseStatus
  <2>2. Warnings \in SUBSET (Nat \ {0})
    BY ConstantsAssumption
  <2> HIDE DEF deadline
  <2>3. QED
    BY <2>1, <2>2, NextReconcileAfterType
<1>2. GotoPatch(w.st, ResultAfter(until))
  BY DEF Schedule
<1> HIDE DEF until
<1>3. QED
  BY <1>1, <1>2

\* The steps of reconcileActive.
LEMMA ActivePreserves ==
    ASSUME IInv,
           \/ ResolveTarget \/ TargetError \/ PersistCluster \/ RefreshCluster
           \/ KeepNamespace \/ NamespaceMissing \/ CreateNamespace \/ EnsureNamespaceFails
           \/ PersistNamespace \/ RefreshNamespace
           \/ EnsureConstraints \/ EnsureConstraintsFails
           \/ EmitWarnings \/ BecomeReady \/ Schedule
    PROVE  IInv'
<1>1. /\ WorkerOK(w) /\ StatusOK(w.st) /\ LeaseOK(api) /\ LeaseOK(cache)
      /\ StatusOK(cache.status) /\ now \in Nat /\ w.resolved \in Resolved
  BY DEF IInv, WorkerOK, LeaseOK, Worker
<1>2. CASE ResolveTarget
  <2>1. Goto("persistCluster") \/ GotoWith("ensureNamespace", StartProvisioning(w.st))
    BY <1>2 DEF ResolveTarget
  <2>2. UNCHANGED <<now, cache, ns, environment, clients>> /\ LeaseOK(api')
    BY <1>1, <1>2 DEF ResolveTarget
  <2>3. StatusOK(StartProvisioning(w.st))
    BY <1>1, StartProvisioningOK
  <2>4. QED
    BY <2>1, <2>2, <2>3, GotoStep, GotoWithStep DEF PCs
<1>3. CASE TargetError
  <2>1. PICK st \in {w.st, MarkFailed(w.st)} : GotoPatch(st, TargetUnavailable)
    BY <1>3 DEF TargetError
  <2>2. StatusOK(st)
    BY <1>1, MarksOK
  <2>3. UNCHANGED <<now, cache, ns, environment, clients>> /\ LeaseOK(api')
    BY <1>1, <1>3 DEF TargetError
  <2>4. TargetUnavailable \in Nat \cup {Nil}
    BY ConstantsAssumption
  <2>5. QED
    BY <2>1, <2>2, <2>3, <2>4, GotoPatchStep
<1>4. CASE PersistCluster
  BY <1>4, PersistOK DEF PersistCluster, PCs
<1>5. CASE RefreshCluster
  <2>1. StatusOK([cache.status EXCEPT !.effective = w.resolved])
    BY <1>1, MarksOK
  <2>2. StatusOK(StartProvisioning([cache.status EXCEPT !.effective = w.resolved]))
    BY <2>1, StartProvisioningOK
  <2>3. QED
    BY <1>5, <2>2, RefreshStep DEF RefreshCluster, PCs
<1>6. CASE KeepNamespace \/ CreateNamespace
  <2>1. PICK n \in NamespaceCandidates :
           UseNamespace(n) /\ ns' \in {ns, [ns EXCEPT ![n] = "active"]}
    BY <1>6 DEF KeepNamespace, CreateNamespace
  <2>2. n \in Names
    BY <1>1, ConstantsAssumption
       DEF NamespaceCandidates, StatusOK, LeaseStatus
  <2>3. StatusOK([w.st EXCEPT !.namespace = n])
    BY <1>1, <2>2, MarksOK
  <2>4. PICK pc \in {"constraints", "persistNamespace"} :
           w' = [w EXCEPT !.pc = pc, !.st = [w.st EXCEPT !.namespace = n]]
    BY <1>1, <2>1 DEF UseNamespace, WorkerOK, Worker
  <2>5. WorkerOK(w') /\ w'.pc = pc
    <3>1. pc \in PCs \ {"sync"} /\ 0 \in Nat \cup {Nil}
      BY DEF PCs
    <3>2. WorkerOK(w')
      BY <1>1, <2>3, <2>4, <3>1, GotoOK
    <3>3. w'.pc = pc
      BY <1>1, <2>4 DEF WorkerOK, Worker
    <3>4. QED
      BY <3>2, <3>3
  <2>6. ns' \in [Names -> {"none", "active", "terminating"}]
    BY <2>1, <2>2 DEF IInv
  <2>7. UNCHANGED <<now, api, cache, wake, environment, clients>>
    BY <1>6 DEF KeepNamespace, CreateNamespace
  <2>8. QED
    BY <1>1, <2>5, <2>6, <2>7
       DEF IInv, CleanupHolds, environment, clients
<1>6b. CASE NamespaceMissing
  BY <1>1, <1>6b, GotoStep DEF NamespaceMissing, PCs
<1>7. CASE EnsureNamespaceFails
  <2>1. StatusOK(MarkFailed(w.st))
    BY <1>1, MarksOK
  <2>2. QED
    BY <1>1, <1>7, <2>1, GotoPatchStep DEF EnsureNamespaceFails
<1>8. CASE PersistNamespace
  BY <1>8, PersistOK DEF PersistNamespace, PCs
<1>9. CASE RefreshNamespace
  <2>1. StatusOK([cache.status EXCEPT !.effective = w.resolved])
    BY <1>1, MarksOK
  <2>2. QED
    BY <1>9, <2>1, RefreshStep DEF RefreshNamespace, PCs
<1>10. CASE EnsureConstraints
  BY <1>1, <1>10, GotoStep DEF EnsureConstraints, PCs
<1>11. CASE EnsureConstraintsFails
  <2>1. StatusOK(MarkFailed(w.st)) /\ "patch" \in PCs \ {"sync"} /\ 0 \in Nat \cup {Nil}
    BY <1>1, MarksOK DEF PCs
  <2>2. w' = [w EXCEPT !.pc = "patch", !.st = MarkFailed(w.st), !.result = 0]
        /\ wake' = wake
    BY <1>11 DEF EnsureConstraintsFails, GotoPatch
  <2>3. WorkerOK(w')
    BY <1>1, <2>1, <2>2, GotoOK
  <2>4. w'.pc = "patch"
    BY <1>1, <2>2 DEF WorkerOK, Worker
  <2>5. faults' \in Nat
    BY <1>11 DEF EnsureConstraintsFails, IInv
  <2>6. UNCHANGED <<now, api, cache, ns, nsCache, policy, targetUp, clients>>
    BY <1>11 DEF EnsureConstraintsFails
  <2>7. QED
    BY <2>2, <2>3, <2>4, <2>5, <2>6 DEF IInv, CleanupHolds, clients
<1>12. CASE EmitWarnings
  <2> DEFINE deadline == EffectiveDeadline(w.st)
             d == w.st.warningsDelivered
                    \cup PendingWarnings(now, deadline, Warnings, w.st.warningsDelivered)
             st == IF deadline = Nil THEN w.st
                   ELSE [w.st EXCEPT !.warningsDelivered = d]
  <2>1. d \in SUBSET Warnings
    BY <1>1 DEF PendingWarnings, StatusOK, LeaseStatus
  <2>2. GotoWith("ready", st)
    BY <1>12 DEF EmitWarnings
  <2> HIDE DEF d
  <2>3. StatusOK(st)
    BY <1>1, <2>1, MarksOK
  <2> HIDE DEF st
  <2>4. QED
    BY <1>1, <1>12, <2>2, <2>3, GotoWithStep DEF EmitWarnings, PCs
<1>13. CASE BecomeReady
  <2>1. IsExpiringWindow(w.st, Warnings, now) \in BOOLEAN
    BY DEF IsExpiringWindow
  <2>2. StatusOK(MarkReady(w.st, IsExpiringWindow(w.st, Warnings, now)))
    BY <1>1, <2>1, MarksOK
  <2>3. QED
    BY <1>1, <1>13, <2>2, GotoWithStep DEF BecomeReady, PCs
<1>14. CASE Schedule
  <2>1. PICK until \in Nat : GotoPatch(w.st, ResultAfter(until))
    BY <1>14, ScheduleDelay
  <2>2. ResultAfter(until) \in Nat \cup {Nil}
    BY ResultAfterType
  <2>3. QED
    BY <1>1, <1>14, <2>1, <2>2, GotoPatchStep DEF Schedule
<1>15. QED
  BY <1>2, <1>3, <1>4, <1>5, <1>6, <1>6b, <1>7, <1>8, <1>9, <1>10, <1>11, <1>12,
     <1>13, <1>14

\* cleanupEnvironment, patchStatusIfChanged and what follows them.
LEMMA CleanupPreserves ==
    ASSUME IInv,
           \/ CleanupDone \/ CleanupDelete \/ CleanupBlocked
           \/ PatchStatus \/ PatchNothing \/ PatchFails
           \/ RemoveFinalizer \/ RemoveFinalizerFails \/ DeleteLease
    PROVE  IInv'
<1>1. /\ WorkerOK(w) /\ StatusOK(w.st) /\ LeaseOK(api)
      /\ w.result \in Nat \cup {Nil} /\ w.st.namespace \in Names \cup {Nil}
      /\ 0 \in Nat \cup {Nil} /\ Nil \in Nat \cup {Nil}
  BY DEF IInv, WorkerOK, Worker, StatusOK, LeaseStatus
<1>2. LeaseOK([api EXCEPT !.status = w.st])
  BY <1>1, LeaseWritesOK
<1>3. CASE CleanupDone
  <2> DEFINE st == MarkCleanupComplete(w.st)
  <2>1. StatusOK(st) /\ "patchDone" \in PCs \ {"sync"}
    BY <1>1, MarksOK DEF PCs
  <2>2. st.namespace = w.st.namespace
    BY <1>1 DEF MarkCleanupComplete, StatusOK, LeaseStatus
  <2>3. /\ w' = [w EXCEPT !.pc = "patchDone", !.st = st]
        /\ UNCHANGED <<now, api, cache, ns, wake, environment, clients>>
    BY <1>3 DEF CleanupDone, GotoWith
  <2> HIDE DEF st
  <2>4. WorkerOK(w')
    BY <1>1, <2>1, <2>3, GotoOK
  <2>5. w'.st = st
    BY <1>1, <2>3 DEF WorkerOK, Worker
  <2>6. FreshNs /\ ~BestEffort => w.st.namespace = Nil \/ ns[w.st.namespace] = "none"
    BY <1>3, SeenIsNs DEF CleanupDone
  <2>7. CleanupHolds'
    BY <2>2, <2>3, <2>5, <2>6 DEF CleanupHolds
  <2>8. QED
    BY <2>3, <2>4, <2>7 DEF IInv, environment, clients
<1>4. CASE CleanupDelete
  <2>1. StatusOK(MarkCleaning(w.st)) /\ "patch" \in PCs \ {"sync"}
        /\ CleanupRequeue \in Nat \cup {Nil}
    BY <1>1, MarksOK, ConstantsAssumption DEF PCs
  <2>2. /\ w' = [w EXCEPT !.pc = "patch", !.st = MarkCleaning(w.st),
                          !.result = CleanupRequeue]
        /\ wake' = wake
    BY <1>4 DEF CleanupDelete, GotoPatch
  <2>3. WorkerOK(w')
    BY <1>1, <2>1, <2>2, GotoOK
  <2>4. w'.pc = "patch"
    BY <1>1, <2>2 DEF WorkerOK, Worker
  <2>5. ns' \in [Names -> {"none", "active", "terminating"}]
    BY <1>4 DEF CleanupDelete, DeletedNs, IInv
  <2>7. UNCHANGED <<now, api, cache, environment, clients>>
    BY <1>4 DEF CleanupDelete
  <2>8. QED
    BY <2>2, <2>3, <2>4, <2>5, <2>7 DEF IInv, CleanupHolds, environment, clients
<1>5. CASE CleanupBlocked
  <2>1. StatusOK(MarkCleanupFailed(w.st)) /\ TargetUnavailable \in Nat \cup {Nil}
    BY <1>1, MarksOK, ConstantsAssumption
  <2>2. QED
    BY <1>1, <1>5, <2>1, GotoPatchStep DEF CleanupBlocked
<1>6. ASSUME w.pc \in {"patch", "patchDone"}, LeaseOK(api'),
             UNCHANGED <<now, cache, ns, environment, clients>>,
             IF w.pc = "patch" THEN Finish(w.result) ELSE Goto("removeFinalizer")
      PROVE  IInv'
  <2>1. CASE w.pc = "patch"
    BY <1>1, <1>6, <2>1, FinishStep
  <2>2. CASE w.pc = "patchDone"
    <3>1. w' = [w EXCEPT !.pc = "removeFinalizer"] /\ wake' = wake
      BY <1>6, <2>2 DEF Goto
    <3>2. WorkerOK(w')
      BY <1>1, <3>1, GotoOK DEF PCs
    <3>3. w'.st = w.st
      BY <1>1, <3>1 DEF WorkerOK, Worker
    <3>4. CleanupHolds'
      BY <1>6, <2>2, <3>3 DEF IInv, CleanupHolds
    <3>5. QED
      BY <1>6, <3>1, <3>2, <3>4 DEF IInv, environment, clients
  <2>3. QED
    BY <1>6, <2>1, <2>2
<1>7. CASE PatchStatus
  BY <1>2, <1>6, <1>7 DEF PatchStatus
<1>8. CASE PatchNothing
  BY <1>1, <1>6, <1>8 DEF PatchNothing
<1>9. CASE PatchFails
  BY <1>1, <1>9, FinishStep DEF PatchFails
<1>10. CASE RemoveFinalizer
  <2>1. LeaseOK([api EXCEPT !.finalizer = FALSE])
    BY <1>1, LeaseWritesOK
  <2>2. LeaseOK(Removed([api EXCEPT !.finalizer = FALSE]))
    BY <2>1, LeaseWritesOK
  <2>3. LeaseOK(api')
    BY <1>1, <1>10, <2>1, <2>2 DEF RemoveFinalizer
  <2>4. Finish(Nil) \/ Goto("deleteLease")
    BY <1>10 DEF RemoveFinalizer, AfterFinalizer
  <2>5. UNCHANGED <<now, cache, ns, environment, clients>>
    BY <1>10 DEF RemoveFinalizer
  <2>6. QED
    BY <1>1, <2>3, <2>4, <2>5, FinishStep, GotoStep DEF PCs
<1>11. CASE RemoveFinalizerFails
  BY <1>1, <1>11, FinishStep DEF RemoveFinalizerFails
<1>12. CASE DeleteLease
  <2>1. LeaseOK(api')
    BY <1>1, <1>12, LeaseWritesOK DEF DeleteLease
  <2>2. QED
    BY <1>1, <1>12, <2>1, FinishStep DEF DeleteLease
<1>13. QED
  BY <1>3, <1>4, <1>5, <1>7, <1>8, <1>9, <1>10, <1>11, <1>12

\* The API server, the clusters, the clock and a restart.
LEMMA ClusterPreserves ==
    ASSUME IInv, Cluster
    PROVE  IInv'
<1> USE DEF environment, clients
<1>1. /\ now \in Nat /\ LeaseOK(api) /\ LeaseOK(cache) /\ wake \in TimeOrNil
      /\ ns \in [Names -> {"none", "active", "terminating"}]
      /\ nsCache \in [Names -> {"none", "active", "terminating"}]
      /\ policy \in Policies \cup {Nil} /\ targetUp \in BOOLEAN /\ touchAt \in TimeOrNil
      /\ extendTo \in Int \cup {Nil} /\ faults \in Nat
  BY DEF IInv
<1>2. CASE CacheSync
  BY <1>1, <1>2, OtherStep, QueueOK DEF CacheSync
<1>2b. CASE NamespaceSync
  BY <1>1, <1>2b, OtherStep, QueueOK DEF NamespaceSync
<1>3. CASE Resync
  BY <1>1, <1>3, OtherStep, QueueOK DEF Resync
<1>4. CASE Tick
  BY <1>1, <1>4, OtherStep DEF Tick
<1>5. CASE Crash
  <2>1. /\ w' = AtRest /\ cache' = api /\ wake' = now /\ faults' = faults + 1
        /\ nsCache' \in {nsCache, ns}
        /\ UNCHANGED <<now, api, ns, policy, targetUp, clients>>
    BY <1>5 DEF Crash
  <2>2. QED
    BY <1>1, <2>1, AtRestOK DEF IInv, CleanupHolds, TimeOrNil
<1>6. CASE TargetLost
  <2>1. /\ targetUp' = FALSE /\ faults' = faults + 1
        /\ UNCHANGED <<now, api, cache, ns, nsCache, w, wake, policy, clients>>
    BY <1>6 DEF TargetLost
  <2>2. targetUp' \in BOOLEAN
    BY <2>1, Zenon
  <2>3. faults' \in Nat
    BY <1>1, <2>1
  <2>4. QED
    BY <1>1, <2>1, <2>2, <2>3, OtherStep
<1>7. CASE TargetBack
  BY <1>1, <1>7, OtherStep DEF TargetBack
<1>8. ASSUME NEW p \in Policies \cup {Nil}, PolicyChange(p) PROVE IInv'
  BY <1>1, <1>8, OtherStep, QueueOK DEF PolicyChange
<1>9. ASSUME NEW n \in Names, NamespaceGone(n) PROVE IInv'
  <2>1. /\ ns' = [ns EXCEPT ![n] = "none"]
        /\ UNCHANGED <<now, api, cache, w, wake, environment, clients>>
    BY <1>9 DEF NamespaceGone
  <2>2. QED
    BY <1>1, <2>1, OtherStep
<1>10. ASSUME NEW n \in Names, NamespaceDrift(n) PROVE IInv'
  <2>1. /\ ns[n] = "active" /\ ns' = [ns EXCEPT ![n] = "terminating"]
        /\ faults' = faults + 1
        /\ UNCHANGED <<now, api, cache, nsCache, w, wake, policy, targetUp, clients>>
    BY <1>10 DEF NamespaceDrift
  <2>2. QED
    BY <1>1, <2>1, OtherStep
<1>11. QED
  BY <1>2, <1>3, <1>4, <1>5, <1>6, <1>7, <1>8, <1>9, <1>10, <1>2b DEF Cluster

\* The CLI, the webhook and kubectl.
LEMMA ClientPreserves ==
    ASSUME IInv, Client
    PROVE  IInv'
<1> USE DEF environment
<1>1. /\ now \in Nat /\ LeaseOK(api) /\ LeaseOK(cache) /\ wake \in TimeOrNil
      /\ ns \in [Names -> {"none", "active", "terminating"}]
      /\ nsCache \in [Names -> {"none", "active", "terminating"}]
      /\ policy \in Policies \cup {Nil} /\ targetUp \in BOOLEAN /\ touchAt \in TimeOrNil
      /\ extendTo \in Int \cup {Nil} /\ faults \in Nat
  BY DEF IInv
<1>2. ASSUME NEW s \in Specs, EditSpec(s) PROVE IInv'
  <2>1. s \in LeaseSpec
    BY ConstantsAssumption
  <2>2. LeaseOK(api')
    BY <1>1, <1>2, <2>1, LeaseWritesOK DEF EditSpec
  <2>3. QED
    BY <1>1, <1>2, <2>2, OtherStep DEF EditSpec, clients
<1>3. CASE Expire
  <2>1. LeaseOK(api')
    BY <1>1, <1>3, LeaseWritesOK DEF Expire
  <2>2. QED
    BY <1>1, <1>3, <2>1, OtherStep DEF Expire, clients
<1>4. CASE TouchStart
  <2>1. touchAt' \in TimeOrNil
    BY <1>1, <1>4 DEF TouchStart, TimeOrNil
  <2>2. QED
    BY <1>1, <1>4, <2>1, OtherStep DEF TouchStart
<1>5. CASE TouchWrite
  <2> DEFINE idleTTL == IdleTTLFromLease(api)
             st == RecordActivity(api.status, touchAt, idleTTL)
  <2>1. idleTTL \in Int
    BY <1>1 DEF IdleTTLFromLease, LeaseOK, StatusOK, Lease, LeaseStatus, LeaseSpec,
                Resolved, Duration, OrElse
  <2>2. touchAt \in Nat /\ StatusOK(api.status)
    BY <1>1, <1>5 DEF TouchWrite, TimeOrNil, LeaseOK
  <2>3. \/ api' = api
        \/ /\ CanRecordActivity(api.status, touchAt, idleTTL)
           /\ api' = [api EXCEPT !.status = st]
    BY <1>5, <1>1 DEF TouchWrite
  <2> HIDE DEF idleTTL
  <2>4. CanRecordActivity(api.status, touchAt, idleTTL) => StatusOK(st)
    BY <2>1, <2>2, RecordActivityOK
  <2> HIDE DEF st
  <2>5. LeaseOK(api')
    BY <1>1, <2>3, <2>4, LeaseWritesOK
  <2>6. touchAt' \in TimeOrNil
    BY <1>5 DEF TouchWrite, TimeOrNil
  <2>7. QED
    BY <1>1, <1>5, <2>5, <2>6, OtherStep DEF TouchWrite
<1>6. CASE ExtendRead
  <2>1. extendTo' \in Int
    BY <1>1, <1>6
       DEF ExtendRead, ComputeExtendedTTL, ExtendedExpiry, Lesser, LeaseOK,
           StatusOK, LeaseStatus, TimeOrNil
  <2>2. QED
    BY <1>1, <1>6, <2>1, OtherStep DEF ExtendRead
<1>7. CASE ExtendWrite
  <2>1. extendTo \in Int
    BY <1>1, <1>7 DEF ExtendWrite
  <2>2. LeaseOK(api')
    BY <1>1, <1>7, <2>1, LeaseWritesOK DEF ExtendWrite
  <2>3. QED
    BY <1>1, <1>7, <2>2, OtherStep DEF ExtendWrite
<1>8. QED
  BY <1>2, <1>3, <1>4, <1>5, <1>6, <1>7 DEF Client

-----------------------------------------------------------------------------
(* The theorems                                                            *)

\* The inductive invariant holds initially ...
LEMMA InitEstablishes == ASSUME Init PROVE IInv
<1>1. PICK s \in Specs :
         api = [exists |-> TRUE, deleting |-> FALSE, finalizer |-> FALSE,
                spec |-> s, status |-> EmptyStatus]
  BY DEF Init
<1>2. s \in LeaseSpec
  BY ConstantsAssumption
<1>3. StatusOK(EmptyStatus)
  BY AtRestOK DEF WorkerOK, AtRest
<1>4. LeaseOK(api)
  BY <1>1, <1>2, <1>3 DEF LeaseOK, Lease, StatusOK
<1>5. WorkerOK(w) /\ w.pc = "idle"
  BY AtRestOK DEF Init
<1>6. CreationTimestamp \in Nat
  BY ConstantsAssumption
<1>7. QED
  BY <1>4, <1>5, <1>6 DEF Init, IInv, CleanupHolds, TimeOrNil

\* ... and every step keeps it, by the five groups of actions.
LEMMA NextPreserves == ASSUME IInv, [Next]_vars PROVE IInv'
<1>1. CASE Reconcile
  BY <1>1, StartPreserves, ActivePreserves, CleanupPreserves DEF Reconcile
<1>2. CASE Cluster
  BY <1>2, ClusterPreserves
<1>3. CASE Client
  BY <1>3, ClientPreserves
<1>4. CASE UNCHANGED vars
  BY <1>4 DEF vars, IInv, CleanupHolds
<1>5. QED
  BY <1>1, <1>2, <1>3, <1>4 DEF Next

\* The inductive invariant holds in every reachable state.
THEOREM Invariant == Spec => []IInv
<1>1. Init => IInv
  BY InitEstablishes
<1>2. IInv /\ [Next]_vars => IInv'
  BY NextPreserves
<1>3. QED
  BY <1>1, <1>2, PTL DEF Spec

\* Type correctness, whatever the clients, the faults and the cache do: in
\* particular no delay that Reconcile asks for is negative.
THEOREM TypeCorrect == Spec => []TypeOK
<1>1. IInv => TypeOK
  BY DEF IInv, TypeOK, LeaseOK, WorkerOK
<1>2. QED
  BY <1>1, Invariant, PTL

\* Renewal (EnsureTimestamps), heartbeats (RecordActivity) and the racing
\* whole-status writes of the controller and the clients never lift a
\* deadline over its cap in any copy of the lease.
THEOREM DeadlinesStayOrdered == Spec => []DeadlinesOrdered
<1>1. IInv => DeadlinesOrdered
  BY DEF IInv, DeadlinesOrdered, LeaseOK, WorkerOK, StatusOK
<1>2. QED
  BY <1>1, Invariant, PTL

\* No step but removeLeaseFinalizer's takes a finalizer away.
LEMMA FinalizerKept ==
    ASSUME api \in Lease, [Next]_vars, ~RemoveFinalizer
    PROVE  api.finalizer => api'.finalizer
<1>1. /\ \A st : [api EXCEPT !.status = st].finalizer = api.finalizer
      /\ \A sp : [api EXCEPT !.spec = sp].finalizer = api.finalizer
      /\ \A t : [api EXCEPT !.spec.ttl = t].finalizer = api.finalizer
      /\ [api EXCEPT !.finalizer = TRUE].finalizer
      /\ Deleted(api).finalizer = api.finalizer
  BY DEF Lease, Deleted, Removed
<1>2. CASE Reconcile
  <2>1. CASE UNCHANGED api
    BY <2>1
  <2>2. CASE AddFinalizer
    BY <1>1, <2>2 DEF AddFinalizer
  <2>3. CASE PersistCluster \/ PersistNamespace
    BY <1>1, <2>3 DEF PersistCluster, PersistNamespace, Persist
  <2>4. CASE PatchStatus
    BY <1>1, <2>4 DEF PatchStatus
  <2>5. CASE DeleteLease
    BY <1>1, <2>5 DEF DeleteLease
  <2>6. \/ UNCHANGED api \/ AddFinalizer \/ PersistCluster \/ PersistNamespace
        \/ PatchStatus \/ DeleteLease
    BY <1>2 DEF Reconcile, BeginGone, BeginDelete, BeginAddFinalizer,
                BeginRejected, BeginSync, Begin, Sync, CheckExpired,
                ResolveTarget, TargetError, RefreshCluster, RefreshNamespace,
                Refresh, KeepNamespace, NamespaceMissing, CreateNamespace,
                EnsureNamespaceFails,
                EnsureConstraints, EnsureConstraintsFails, EmitWarnings,
                BecomeReady, Schedule, CleanupDone, CleanupDelete,
                CleanupBlocked, PatchNothing, PatchFails, RemoveFinalizerFails
  <2>7. QED
    BY <2>1, <2>2, <2>3, <2>4, <2>5, <2>6
<1>3. CASE Cluster
  <2>1. UNCHANGED api
    BY <1>3 DEF Cluster, CacheSync, NamespaceSync, Resync, Tick, Crash, TargetLost, TargetBack,
                PolicyChange, NamespaceGone, NamespaceDrift
  <2>2. QED
    BY <2>1
<1>4. CASE Client
  <2>1. CASE \E s \in Specs : EditSpec(s)
    BY <1>1, <2>1 DEF EditSpec
  <2>2. CASE Expire
    BY <1>1, <2>2 DEF Expire
  <2>3. CASE TouchStart \/ ExtendRead
    BY <2>3 DEF TouchStart, ExtendRead
  <2>4. CASE TouchWrite
    BY <1>1, <2>4 DEF TouchWrite
  <2>5. CASE ExtendWrite
    BY <1>1, <2>5 DEF ExtendWrite
  <2>6. QED
    BY <1>4, <2>1, <2>2, <2>3, <2>4, <2>5 DEF Client
<1>5. CASE UNCHANGED vars
  BY <1>5 DEF vars
<1>6. QED
  BY <1>2, <1>3, <1>4, <1>5 DEF Next

\* removeLeaseFinalizer runs only after cleanupEnvironment has seen the
\* Namespace that the status names gone, and it is still gone then: for a
\* remote lease whatever the informers do, for a local one when the Namespace
\* informer does not lag.
THEOREM FinalizerSafe ==
    ASSUME Remote \/ "stale" \notin Features
    PROVE  Spec => FinalizerHeldUntilNamespaceGone
<1> DEFINE Act == ~BestEffort /\ api.finalizer /\ ~api'.finalizer =>
                    w.st.namespace = Nil \/ ns[w.st.namespace] = "none"
<1>1. IInv /\ [Next]_vars => [Act]_vars
  <2> SUFFICES ASSUME IInv, [Next]_vars, ~BestEffort, api.finalizer, ~api'.finalizer
               PROVE  w.st.namespace = Nil \/ ns[w.st.namespace] = "none"
    OBVIOUS
  <2>1. api \in Lease
    BY DEF IInv, LeaseOK
  <2>2. RemoveFinalizer
    BY <2>1, FinalizerKept
  <2>3. w.pc = "removeFinalizer"
    BY <2>2 DEF RemoveFinalizer
  <2>4. QED
    BY <2>3 DEF IInv, CleanupHolds, FreshNs
<1>2. QED
  BY <1>1, Invariant, PTL DEF Spec, FinalizerHeldUntilNamespaceGone

-----------------------------------------------------------------------------
(* What the operators and the worker's steps leave alone; the other proof  *)
(* modules about LeaseReconcile rest on these.                             *)

\* The fields of a status under construction.
LEMMA MarkFields ==
    ASSUME NEW st \in LeaseStatus
    PROVE  /\ MarkProvisioning(st).namespace = st.namespace
           /\ ~MarkProvisioning(st).ready
           /\ \A e : /\ MarkReady(st, e).namespace = st.namespace
                     /\ MarkReady(st, e).expirationReason = st.expirationReason
                     /\ MarkReady(st, e).ready
           /\ MarkFailed(st).namespace = st.namespace
           /\ MarkFailed(st).expirationReason = st.expirationReason
           /\ ~MarkFailed(st).ready
           /\ \A r : /\ MarkExpired(st, r).namespace = st.namespace
                     /\ ~MarkExpired(st, r).ready
           /\ MarkCleaning(st).namespace = st.namespace
           /\ MarkCleaning(st).expirationReason = st.expirationReason
           /\ MarkCleaning(st).phase = "Cleaning"
           /\ ~MarkCleaning(st).ready
           /\ MarkCleanupFailed(st).namespace = st.namespace
           /\ MarkCleanupFailed(st).expirationReason = st.expirationReason
           /\ MarkCleanupFailed(st).phase = "Cleaning"
           /\ MarkCleanupFailed(st).ready = st.ready
           /\ MarkCleanupComplete(st).namespace = st.namespace
           /\ MarkCleanupComplete(st).expirationReason = st.expirationReason
           /\ MarkCleanupComplete(st).phase = "Expired"
           /\ MarkCleanupComplete(st).ready = st.ready
BY DEF LeaseStatus, MarkProvisioning, MarkReady, MarkFailed, MarkExpired,
       MarkCleaning, MarkCleanupFailed, MarkCleanupComplete

\* Deriving the deadlines touches neither the Namespace nor the phase nor the
\* Ready condition, and it keeps a reason that is not its own.
LEMMA SyncFields ==
    ASSUME NEW st \in LeaseStatus, NEW idleTTL, NEW t
    PROVE  LET r == SyncExpirationStatus(st, idleTTL, t)
           IN  /\ r.namespace = st.namespace
               /\ r.ready = st.ready
               /\ r.phase = st.phase
               /\ r.expiresAt = st.expiresAt
               /\ st.expirationReason = "ManualExpiration" =>
                     r.expirationReason = "ManualExpiration"
               /\ r.expirationReason = "ManualExpiration" =>
                     st.expirationReason = "ManualExpiration"
<1> DEFINE last == IF st.lastActivityAt = Nil THEN st.createdAt ELSE st.lastActivityAt
           hard == HardDeadline(st)
           idle == IdleDeadline(hard, last, idleTTL)
           eff  == EffectiveOf(hard, idle)
           derived == IF t < eff THEN "" ELSE ResolveExpirationReason(t, hard, idle)
           reason == IF st.expirationReason \in {"ManualExpiration", "SourceClosed"}
                     THEN st.expirationReason
                     ELSE IF t < eff THEN ""
                     ELSE ResolveExpirationReason(t, hard, idle)
           r == [st EXCEPT !.lastActivityAt = last, !.idleExpiresAt = idle,
                           !.effectiveExpiresAt = eff, !.expirationReason = reason]
<1>1. SyncExpirationStatus(st, idleTTL, t) \in {st, r}
  BY Zenon DEF SyncExpirationStatus, last, hard, idle, eff, reason, r
<1>2. reason = "ManualExpiration" <=> st.expirationReason = "ManualExpiration"
  BY DEF ResolveExpirationReason
<1> HIDE DEF last, idle, eff, reason
<1>3. /\ r.namespace = st.namespace /\ r.ready = st.ready /\ r.phase = st.phase
      /\ r.expiresAt = st.expiresAt /\ r.expirationReason = reason
  BY DEF LeaseStatus
<1> HIDE DEF r
<1>4. QED
  BY <1>1, <1>2, <1>3

\* The same of Reconcile's two calls in sequence.
LEMMA SyncedFields ==
    ASSUME NEW st \in LeaseStatus, NEW resolved \in Resolved, NEW t
    PROVE  LET r == Synced(st, resolved, t)
           IN  /\ r.namespace = st.namespace
               /\ r.ready = st.ready
               /\ r.expirationReason = "ManualExpiration" <=>
                     st.expirationReason = "ManualExpiration"
<1> DEFINE e == [st EXCEPT !.effective = resolved]
           c == IF e.createdAt = Nil THEN CreationTimestamp ELSE e.createdAt
           x == IF RenewalRejected(e, c, resolved.ttl, resolved.renewable)
                THEN e.expiresAt ELSE c + resolved.ttl
           f == [e EXCEPT !.createdAt = c, !.maximumExpiresAt = c + resolved.maxTTL,
                          !.expiresAt = x]
<1>1. e \in LeaseStatus
  BY DEF LeaseStatus
<1>2. /\ e.namespace = st.namespace /\ e.ready = st.ready
      /\ e.expirationReason = st.expirationReason
  BY DEF LeaseStatus
<1>3. Synced(st, resolved, t) = SyncExpirationStatus(f, resolved.idleTTL, t)
  BY Zenon DEF Synced, EnsureTimestamps, e, c, x, f
<1> HIDE DEF e
<1>4. c \in Nat /\ resolved.ttl \in Int /\ resolved.maxTTL \in Int
  BY <1>1, ConstantsAssumption DEF LeaseStatus, TimeOrNil, Resolved
<1> HIDE DEF c
<1>5. x \in Int \cup {Nil} /\ c + resolved.maxTTL \in Int
  BY <1>1, <1>4 DEF LeaseStatus
<1> HIDE DEF x
<1>6. f \in LeaseStatus
  <2> DEFINE m == c + resolved.maxTTL
  <2> HIDE DEF m
  <2>1. [e EXCEPT !.createdAt = c, !.maximumExpiresAt = m, !.expiresAt = x] \in LeaseStatus
    BY <1>1, <1>4, <1>5 DEF LeaseStatus, TimeOrNil, m
  <2>2. QED
    BY <2>1 DEF m
<1>7. /\ f.namespace = e.namespace /\ f.ready = e.ready
      /\ f.expirationReason = e.expirationReason
  BY <1>1 DEF LeaseStatus
<1> HIDE DEF f
<1>8. QED
  BY <1>2, <1>3, <1>6, <1>7, SyncFields

\* ... and of a heartbeat.
LEMMA RecordActivityFields ==
    ASSUME NEW st \in LeaseStatus, NEW t \in Nat, NEW idleTTL
    PROVE  LET r == RecordActivity(st, t, idleTTL)
           IN  /\ r.namespace = st.namespace
               /\ r.ready = st.ready
               /\ r.phase = st.phase
               /\ r.expiresAt = st.expiresAt
               /\ r.expirationReason = "ManualExpiration" <=>
                     st.expirationReason = "ManualExpiration"
<1> DEFINE a == [st EXCEPT !.lastActivityAt = t]
<1>1. /\ a \in LeaseStatus /\ a.namespace = st.namespace /\ a.ready = st.ready
      /\ a.phase = st.phase /\ a.expiresAt = st.expiresAt
      /\ a.expirationReason = st.expirationReason
  BY DEF LeaseStatus, TimeOrNil
<1>2. RecordActivity(st, t, idleTTL) = SyncExpirationStatus(a, idleTTL, t)
  BY DEF RecordActivity
<1> HIDE DEF a
<1>3. QED
  BY <1>1, <1>2, SyncFields

\* The fields of a worker that moves on ...
LEMMA GotoFields ==
    ASSUME w \in Worker, NEW pc, Goto(pc)
    PROVE  /\ w'.pc = pc /\ w'.obj = w.obj /\ w'.st = w.st /\ w'.before = w.before
           /\ w'.resolved = w.resolved /\ w'.result = w.result /\ wake' = wake
BY DEF Goto, Worker

\* ... with another status,
LEMMA GotoWithFields ==
    ASSUME w \in Worker, NEW pc, NEW st, GotoWith(pc, st)
    PROVE  /\ w'.pc = pc /\ w'.obj = w.obj /\ w'.st = st /\ w'.before = w.before
           /\ w'.resolved = w.resolved /\ w'.result = w.result /\ wake' = wake
BY DEF GotoWith, Worker

\* ... towards patchStatusIfChanged,
LEMMA GotoPatchFields ==
    ASSUME w \in Worker, NEW st, NEW result, GotoPatch(st, result)
    PROVE  /\ w'.pc = "patch" /\ w'.obj = w.obj /\ w'.st = st /\ w'.before = w.before
           /\ w'.resolved = w.resolved /\ w'.result = result /\ wake' = wake
BY DEF GotoPatch, Worker

\* ... from the re-read object,
LEMMA RefreshFields ==
    ASSUME w \in Worker, NEW pc, NEW next, NEW st, Refresh(pc, next, st)
    PROVE  /\ w'.pc = next /\ w'.obj = cache /\ w'.st = st /\ w'.before = w.before
           /\ w'.resolved = w.resolved /\ w'.result = w.result
BY DEF Refresh, Worker

\* ... or starts.
LEMMA BeginFields ==
    ASSUME NEW pc, NEW st, NEW resolved, Begin(pc, st, resolved)
    PROVE  /\ w.pc = "idle" /\ CanRead /\ wake' = Nil
           /\ w'.pc = pc /\ w'.obj = cache /\ w'.st = st /\ w'.before = cache.status
           /\ w'.resolved = resolved /\ w'.result = Nil
           /\ UNCHANGED <<now, api, cache, ns, environment, clients>>
BY DEF Begin

\* The fields of a lease after a write.
LEMMA WriteFields ==
    ASSUME NEW a \in Lease
    PROVE  /\ \A st : LET b == [a EXCEPT !.status = st]
                      IN  /\ b.status = st /\ b.exists = a.exists /\ b.deleting = a.deleting
                          /\ b.finalizer = a.finalizer /\ b.spec = a.spec
           /\ \A s : LET b == [a EXCEPT !.spec = s]
                     IN  /\ b.status = a.status /\ b.exists = a.exists
                         /\ b.deleting = a.deleting /\ b.finalizer = a.finalizer
           /\ \A t : LET b == [a EXCEPT !.spec.ttl = t]
                     IN  /\ b.status = a.status /\ b.exists = a.exists
                         /\ b.deleting = a.deleting /\ b.finalizer = a.finalizer
           /\ \A f : LET b == [a EXCEPT !.finalizer = f]
                     IN  /\ b.status = a.status /\ b.exists = a.exists
                         /\ b.deleting = a.deleting /\ b.finalizer = f
           /\ Removed(a).status = a.status /\ ~Removed(a).exists
           /\ Removed(a).deleting = a.deleting /\ Removed(a).finalizer = a.finalizer
           /\ Deleted(a).status = a.status /\ Deleted(a).finalizer = a.finalizer
           /\ a.finalizer => Deleted(a).exists = a.exists /\ Deleted(a).deleting
           /\ ~a.finalizer => ~Deleted(a).exists /\ Deleted(a).deleting = a.deleting
BY DEF Lease, Removed, Deleted

\* ensureNamespace's choice of a name, whatever the Get returned ...
LEMMA UseFields ==
    ASSUME IInv, KeepNamespace \/ CreateNamespace
    PROVE  /\ w.pc \in {"ensureNamespace", "createNamespace"}
           /\ UNCHANGED <<now, api, cache, wake, environment, clients>>
           /\ \E n \in Names :
                 /\ w'.st = [w.st EXCEPT !.namespace = n]
                 /\ w'.pc = IF w.st.namespace = n THEN "constraints" ELSE "persistNamespace"
           /\ w'.obj = w.obj /\ w'.before = w.before /\ w'.resolved = w.resolved
           /\ w'.result = w.result
<1>1. w \in Worker /\ w.st.namespace \in Names \cup {Nil}
  BY DEF IInv, WorkerOK, StatusOK, LeaseStatus
<1>2. PICK n \in NamespaceCandidates : UseNamespace(n)
  BY DEF KeepNamespace, CreateNamespace
<1>3. n \in Names
  BY <1>1, ConstantsAssumption DEF NamespaceCandidates
<1>4. QED
  BY <1>1, <1>2, <1>3 DEF UseNamespace, Worker, KeepNamespace, CreateNamespace

\* ... and when it reads the Namespaces as they are.
LEMMA EnsureFields ==
    ASSUME IInv, FreshNs, KeepNamespace \/ CreateNamespace
    PROVE  /\ w.pc \in {"ensureNamespace", "createNamespace"}
           /\ UNCHANGED <<now, api, cache, wake, environment, clients>>
           /\ \E n \in Names :
                 /\ w.st.namespace \in {Nil, n}
                 /\ w.st.namespace = Nil /\ FixedName = Nil => ns[n] = "none"
                 /\ ns[n] # "terminating"
                 /\ ns' = [ns EXCEPT ![n] = "active"]
                 /\ w'.st = [w.st EXCEPT !.namespace = n]
                 /\ w'.st.namespace = n
                 /\ w'.pc = IF w.st.namespace = n THEN "constraints" ELSE "persistNamespace"
                 /\ w'.obj = w.obj /\ w'.before = w.before /\ w'.resolved = w.resolved
                 /\ w'.result = w.result
<1>1. w \in Worker /\ w.st \in LeaseStatus /\ w.st.namespace \in Names \cup {Nil}
  BY DEF IInv, WorkerOK, StatusOK, LeaseStatus
<1>2. PICK n \in NamespaceCandidates :
         /\ \/ ns[n] = "active" /\ ns' = ns
            \/ ns[n] = "none" /\ ns' = [ns EXCEPT ![n] = "active"]
         /\ UseNamespace(n)
  BY SeenIsNs DEF KeepNamespace, CreateNamespace
<1>3. /\ n \in Names /\ w.st.namespace \in {Nil, n}
      /\ w.st.namespace = Nil /\ FixedName = Nil => ns[n] = "none"
  BY <1>1, ConstantsAssumption DEF NamespaceCandidates
<1>4. /\ w'.st = [w.st EXCEPT !.namespace = n]
      /\ w'.pc = IF w.st.namespace = n THEN "constraints" ELSE "persistNamespace"
      /\ w'.obj = w.obj /\ w'.before = w.before /\ w'.resolved = w.resolved
      /\ w'.result = w.result
  BY <1>1, <1>2 DEF UseNamespace, Worker
<1>5. w'.st.namespace = n
  BY <1>1, <1>4 DEF LeaseStatus
<1>6. /\ w.pc \in {"ensureNamespace", "createNamespace"}
      /\ UNCHANGED <<now, api, cache, wake, environment, clients>>
  BY DEF KeepNamespace, CreateNamespace
<1>7. ns' = [ns EXCEPT ![n] = "active"] /\ ns[n] # "terminating"
  BY <1>2, <1>3 DEF IInv
<1>8. QED
  BY <1>3, <1>4, <1>5, <1>6, <1>7

\* The worker after cleanupEnvironment found the Namespace ...
LEMMA CleanupDeleteFields ==
    ASSUME IInv, CleanupDelete
    PROVE  /\ w.pc = "cleanup" /\ w.st.namespace \in Names
           /\ UNCHANGED <<now, api, cache, wake, environment, clients>>
           /\ w'.pc = "patch" /\ w'.st = MarkCleaning(w.st) /\ w'.result = CleanupRequeue
           /\ w'.obj = w.obj /\ w'.before = w.before /\ w'.resolved = w.resolved
<1>1. w \in Worker /\ w.st.namespace \in Names \cup {Nil}
  BY DEF IInv, WorkerOK, StatusOK, LeaseStatus
<1>2. QED
  BY <1>1, GotoPatchFields DEF CleanupDelete, GotoPatch

\* ... and the Namespace, if it was read as it is.
LEMMA CleanupDeletes ==
    ASSUME IInv, FreshNs, CleanupDelete
    PROVE  /\ ns[w.st.namespace] # "none"
           /\ ns' = [ns EXCEPT ![w.st.namespace] = "terminating"]
<1>1. w.st.namespace \in Names
  BY CleanupDeleteFields
<1>2. ns[w.st.namespace] # "none" /\ ns' = DeletedNs(w.st.namespace)
  BY SeenIsNs DEF CleanupDelete
<1>3. DeletedNs(w.st.namespace) = [ns EXCEPT ![w.st.namespace] = "terminating"]
  BY <1>1, <1>2, SeenIsNs DEF DeletedNs, CleanupDelete, IInv
<1>4. QED
  BY <1>2, <1>3
=============================================================================
