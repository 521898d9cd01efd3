-------------------------- MODULE MCLeaseReconcile --------------------------
(* Instances of LeaseReconcile for TLC.                                    *)
EXTENDS LeaseReconcile

CONSTANTS n1, n2

SpecOf(ttl, maxTTL, idleTTL, renewable) ==
    [ttl |-> ttl, maxTTL |-> maxTTL, idleTTL |-> idleTTL, renewable |-> renewable,
     quota |-> 1, defaultDeny |-> Nil]

NoPolicies == {NoPolicy}

\* A lease without idle expiration.
HardSpec == {SpecOf(2, 3, Nil, TRUE)}

\* A lease that a heartbeat keeps alive up to its ttl.
IdleSpec == {SpecOf(3, Nil, 2, TRUE)}

\* A lease that heartbeats and renewals keep alive up to maxTTL.
RenewableSpec == {SpecOf(2, 3, 2, TRUE)}

\* A lease that says how long it lives, or leaves that to its policy.
FixedTermSpecs == {SpecOf(1, 2, Nil, FALSE), SpecOf(Nil, Nil, Nil, Nil)}

\* A policy that lets leases live twice as long as its successor, and one that
\* forces what the other only defaults.  The first spec obeys only one of them.
Generous == [NoPolicy EXCEPT !.ttl = [Unlimited EXCEPT !.default = 2, !.maximum = 2],
                             !.idleTTL.default = 1, !.renewableDefault = FALSE,
                             !.maxQuota = 1, !.denyDefault = TRUE]
Strict == [NoPolicy EXCEPT !.ttl = [Unlimited EXCEPT !.default = 1],
                           !.maxTTL = [default |-> 1, minimum |-> 1, maximum |-> 1],
                           !.renewableDefault = FALSE, !.renewableForce = FALSE,
                           !.denyRequired = TRUE]
TwoPolicies == {Generous, Strict}
=============================================================================
