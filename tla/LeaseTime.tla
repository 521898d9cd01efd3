------------------------------ MODULE LeaseTime ------------------------------
(***************************************************************************)
(* The deadline arithmetic of internal/lease: expiration.go, activity.go,  *)
(* schedule.go and warnings.go, as operators on a lease's status.          *)
(*                                                                         *)
(* Time is counted in whole seconds, the precision with which the API      *)
(* server stores a metav1.Time.  Durations are whole seconds too, so every *)
(* stored deadline is a whole second and comparing it with the wall clock  *)
(* is the same as comparing it with the clock's whole seconds.             *)
(* A nil *metav1.Time, and an unset name, is Nil.                          *)
(***************************************************************************)
EXTENDS Integers

CONSTANT Nil

ASSUME NilAssumption == Nil \notin Int

\* A point in time, or a nil *metav1.Time.
TimeOrNil == Nat \cup {Nil}

\* api/v1alpha1 ExpirationReason; "" is the unset reason.
ExpirationReasons ==
    {"", "TTLExpired", "IdleTimeout", "ManualExpiration", "SourceClosed"}

Lesser(a, b) == IF a < b THEN a ELSE b

(***************************************************************************)
(* expiration.go                                                           *)
(***************************************************************************)

\* The durations EnsureTimestamps accepts.
ValidTTLs(ttl, maxTTL) == ttl > 0 /\ maxTTL > 0 /\ maxTTL >= ttl

\* Mutant: the renewable flag is not looked at.
MutantRenewalRejected(st, created, ttl, renewable) == FALSE

\* A non-renewable lease whose ttl was raised: the raise is ignored.
RenewalRejected(st, created, ttl, renewable) ==
    /\ ~renewable
    /\ st.expiresAt # Nil
    /\ created + ttl > st.expiresAt

\* CreatedAt is set once, MaximumExpiresAt and ExpiresAt are derived anew.
EnsureTimestamps(st, creationTimestamp, ttl, maxTTL, renewable) ==
    LET created == IF st.createdAt = Nil THEN creationTimestamp ELSE st.createdAt
    IN  [st EXCEPT !.createdAt = created,
                   !.maximumExpiresAt = created + maxTTL,
                   !.expiresAt = IF RenewalRejected(st, created, ttl, renewable)
                                 THEN st.expiresAt
                                 ELSE created + ttl]

(***************************************************************************)
(* activity.go                                                             *)
(***************************************************************************)

\* The hard deadline: ExpiresAt, never past MaximumExpiresAt.
HardDeadline(st) ==
    IF st.maximumExpiresAt = Nil THEN st.expiresAt
    ELSE Lesser(st.expiresAt, st.maximumExpiresAt)

\* IdleExpiresAt of ComputeExpirationWindow: capped by the hard deadline,
\* nil when idle expiration is disabled.
IdleDeadline(hard, lastActivityAt, idleTTL) ==
    IF idleTTL <= 0 THEN Nil ELSE Lesser(lastActivityAt + idleTTL, hard)

\* EffectiveExpiresAt of ComputeExpirationWindow.
EffectiveOf(hard, idle) == IF idle = Nil THEN hard ELSE Lesser(idle, hard)

ResolveExpirationReason(now, hard, idle) ==
    IF idle # Nil /\ now >= idle /\ idle < hard THEN "IdleTimeout"
    ELSE IF now >= hard THEN "TTLExpired"
    ELSE ""

SyncExpirationStatus(st, idleTTL, now) ==
    IF st.createdAt = Nil \/ st.expiresAt = Nil THEN st
    ELSE LET last == IF st.lastActivityAt = Nil THEN st.createdAt
                     ELSE st.lastActivityAt
             hard == HardDeadline(st)
             idle == IdleDeadline(hard, last, idleTTL)
             eff  == EffectiveOf(hard, idle)
         IN  [st EXCEPT
                !.lastActivityAt = last,
                !.idleExpiresAt = idle,
                !.effectiveExpiresAt = eff,
                !.expirationReason =
                    IF @ \in {"ManualExpiration", "SourceClosed"} THEN @
                    ELSE IF now < eff THEN ""
                    ELSE ResolveExpirationReason(now, hard, idle)]

\* RecordActivity refuses an uninitialised lease, a lease without idleTTL,
\* and a heartbeat at or after the hard or the effective deadline.
CanRecordActivity(st, now, idleTTL) ==
    /\ st.createdAt # Nil /\ st.expiresAt # Nil
    /\ idleTTL > 0
    /\ now < HardDeadline(st)
    /\ now < SyncExpirationStatus(st, idleTTL, now).effectiveExpiresAt

\* Mutant: a heartbeat renews the hard deadline as well.
MutantRecordActivity(st, now, idleTTL) ==
    SyncExpirationStatus([st EXCEPT !.lastActivityAt = now,
                                    !.expiresAt = now + idleTTL], idleTTL, now)

RecordActivity(st, now, idleTTL) ==
    SyncExpirationStatus([st EXCEPT !.lastActivityAt = now], idleTTL, now)

EffectiveDeadline(st) ==
    IF st.effectiveExpiresAt # Nil THEN st.effectiveExpiresAt ELSE st.expiresAt

IsExpired(st, now) ==
    EffectiveDeadline(st) # Nil /\ now >= EffectiveDeadline(st)

\* Inside the largest warning window, that is inside some warning window.
IsExpiringWindow(st, warnings, now) ==
    /\ EffectiveDeadline(st) # Nil
    /\ ~IsExpired(st, now)
    /\ \E w \in warnings : now >= EffectiveDeadline(st) - w

(***************************************************************************)
(* warnings.go and schedule.go.  A warning is its duration; the delivered  *)
(* ledger, a list without duplicates, is a set.                            *)
(***************************************************************************)

PendingWarnings(now, deadline, warnings, delivered) ==
    {w \in warnings \ delivered : deadline - w <= now /\ now < deadline}

\* Mutant: what is already due gives a negative wait.
MutantNextReconcileAfter(now, deadline, warnings, delivered) ==
    LET due == {deadline} \cup {deadline - w : w \in warnings \ delivered}
    IN  (CHOOSE d \in due : \A e \in due : d <= e) - now

\* How long to wait for the next undelivered warning or the deadline;
\* 0 says that something is due now.
NextReconcileAfter(now, deadline, warnings, delivered) ==
    LET due == {deadline} \cup {deadline - w : w \in warnings \ delivered}
    IN  IF \E d \in due : d <= now THEN 0
        ELSE (CHOOSE d \in due : \A e \in due : d <= e) - now

(***************************************************************************)
(* The arithmetic of "kubectl kubelease extend".                           *)
(***************************************************************************)

ExtendedExpiry(st, extendBy) ==
    Lesser(st.expiresAt + extendBy, st.maximumExpiresAt)

\* ComputeExtendedTTL refuses a non-renewable lease and an extension that
\* would not move the deadline.
CanExtend(st, extendBy, renewable) ==
    extendBy > 0 /\ renewable /\ ExtendedExpiry(st, extendBy) > st.expiresAt

ComputeExtendedTTL(st, extendBy) == ExtendedExpiry(st, extendBy) - st.createdAt
=============================================================================
