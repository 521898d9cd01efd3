---------------------------- MODULE PolicyResolve ----------------------------
(***************************************************************************)
(* internal/policy: what a lease asks for, merged with the defaults of its *)
(* EnvironmentLeasePolicy and held against its limits.  A value the lease  *)
(* sets wins over a default; a value outside the limits is an error, never *)
(* clamped.  An unset field is Nil.                                        *)
(*                                                                         *)
(* A quota is one amount and its ceiling one number: CPU and memory, of    *)
(* requests and of limits, are compared in the same way.                   *)
(***************************************************************************)
EXTENDS LeaseTime

Duration == Int \cup {Nil}
Flag == BOOLEAN \cup {Nil}
Amount == Nat \cup {Nil}

LeaseSpec == [ttl: Duration, maxTTL: Duration, idleTTL: Duration,
              renewable: Flag, quota: Amount, defaultDeny: Flag]

DurationPolicy == [default: Duration, minimum: Duration, maximum: Duration]

ASSUME NilFieldAssumption == Nil \notin BOOLEAN /\ Nil \notin DurationPolicy

Unlimited == [default |-> Nil, minimum |-> Nil, maximum |-> Nil]

\* A missing ttl or idleTTL policy is Unlimited; a missing maxTTL policy is
\* Nil, since ttl.maximum then takes its place.
Policy == [ttl: DurationPolicy, maxTTL: DurationPolicy \cup {Nil},
           idleTTL: DurationPolicy, renewableDefault: Flag, renewableForce: Flag,
           maxQuota: Amount, denyDefault: Flag, denyRequired: BOOLEAN]

\* The lease has no policyRef.
NoPolicy == [ttl |-> Unlimited, maxTTL |-> Nil, idleTTL |-> Unlimited,
             renewableDefault |-> Nil, renewableForce |-> Nil,
             maxQuota |-> Nil, denyDefault |-> Nil, denyRequired |-> FALSE]

\* What Resolve returns; idleTTL is 0 when idle expiration is off.
Resolved == [ttl: Int, maxTTL: Int, idleTTL: Int, renewable: BOOLEAN,
             defaultDeny: BOOLEAN]

\* The first value that is set.
OrElse(value, default) == IF value # Nil THEN value ELSE default

-----------------------------------------------------------------------------

\* validatePolicySpec, of one duration.
Consistent(d) ==
    d.maximum # Nil => /\ d.default # Nil => d.default <= d.maximum
                       /\ d.minimum # Nil => d.minimum <= d.maximum

ValidPolicy(p) ==
    /\ Consistent(p.ttl)
    /\ p.maxTTL # Nil => Consistent(p.maxTTL)
    /\ Consistent(p.idleTTL)

\* resolveDuration accepts the value.
InBounds(value, d) ==
    value # Nil => /\ value > 0
                   /\ d.minimum # Nil => value >= d.minimum
                   /\ d.maximum # Nil => value <= d.maximum

\* Without a maxTTL policy ttl.maximum is both its default and its maximum.
MaxTTLPolicy(p) ==
    IF p.maxTTL # Nil THEN p.maxTTL
    ELSE IF p.ttl.maximum # Nil
    THEN [default |-> p.ttl.maximum, minimum |-> Nil, maximum |-> p.ttl.maximum]
    ELSE Unlimited

TTL(spec, p) == OrElse(spec.ttl, p.ttl.default)
MaxTTL(spec, p) == OrElse(spec.maxTTL, MaxTTLPolicy(p).default)
IdleTTL(spec, p) == OrElse(spec.idleTTL, p.idleTTL.default)
Renewable(spec, p) == OrElse(OrElse(spec.renewable, p.renewableDefault), TRUE)

\* validateQuota.
QuotaAllowed(spec, p) ==
    spec.quota # Nil /\ p.maxQuota # Nil => spec.quota <= p.maxQuota

\* resolveNetworkPolicy, of a lease that does not refuse what is required.
DefaultDeny(spec, p) ==
    IF p.denyRequired THEN TRUE
    ELSE OrElse(OrElse(spec.defaultDeny, p.denyDefault), FALSE)

\* Resolve returns no error.  The last check on maxTTL spares a default.
Accepted(spec, p) ==
    /\ ValidPolicy(p)
    /\ TTL(spec, p) # Nil
    /\ InBounds(TTL(spec, p), p.ttl)
    /\ InBounds(MaxTTL(spec, p), MaxTTLPolicy(p))
    /\ OrElse(MaxTTL(spec, p), TTL(spec, p)) >= TTL(spec, p)
    /\ spec.maxTTL # Nil /\ p.ttl.maximum # Nil => spec.maxTTL <= p.ttl.maximum
    /\ InBounds(IdleTTL(spec, p), p.idleTTL)
    /\ p.renewableForce # Nil => Renewable(spec, p) = p.renewableForce
    /\ QuotaAllowed(spec, p)
    /\ ~(p.denyRequired /\ spec.defaultDeny = FALSE)

Resolve(spec, p) ==
    [ttl |-> TTL(spec, p),
     maxTTL |-> OrElse(MaxTTL(spec, p), TTL(spec, p)),
     idleTTL |-> OrElse(IdleTTL(spec, p), 0),
     renewable |-> Renewable(spec, p),
     defaultDeny |-> DefaultDeny(spec, p)]
=============================================================================
