--------------------------- MODULE LeaseLifecycle ---------------------------
(***************************************************************************)
(* What the EnvironmentLease controller promises about one lease and the   *)
(* Namespaces made for it, without saying how: no cache, no worker, no     *)
(* status, no clock.                                                       *)
(*                                                                         *)
(* The finalizer brackets everything.  A Namespace is provisioned only     *)
(* while it is held, one at a time; it is released only when nothing is    *)
(* left; a lease without it may go at any moment.                          *)
(***************************************************************************)

CONSTANT Names      \* names a managed Namespace can get

VARIABLES
    lease,  \* "new": stored, without the finalizer; "held": with it; "gone"
    ns      \* the life cycle of each Namespace

lvars == <<lease, ns>>

NothingLeft == \A n \in Names : ns[n] = "none"

LInit == lease = "new" /\ ns = [n \in Names |-> "none"]

\* The finalizer is added before anything else.
Protect == lease = "new" /\ lease' = "held" /\ UNCHANGED ns

\* Also after the Namespace was deleted behind the controller's back.
Provision(n) ==
    /\ lease = "held"
    /\ NothingLeft
    /\ ns' = [ns EXCEPT ![n] = "active"]
    /\ UNCHANGED lease

Terminate(n) ==
    /\ ns[n] = "active"
    /\ ns' = [ns EXCEPT ![n] = "terminating"]
    /\ UNCHANGED lease

Vanish(n) ==
    /\ ns[n] = "terminating"
    /\ ns' = [ns EXCEPT ![n] = "none"]
    /\ UNCHANGED lease

\* The finalizer goes; with it the lease, if it was being deleted.
Release ==
    /\ lease = "held"
    /\ NothingLeft
    /\ lease' \in {"new", "gone"}
    /\ UNCHANGED ns

\* A lease that nothing protects is deleted.
Drop == lease = "new" /\ lease' = "gone" /\ UNCHANGED ns

LNext ==
    \/ Protect \/ Release \/ Drop
    \/ \E n \in Names : Provision(n) \/ Terminate(n) \/ Vanish(n)

LSpec == LInit /\ [][LNext]_lvars

-----------------------------------------------------------------------------

LTypeOK ==
    /\ lease \in {"new", "held", "gone"}
    /\ ns \in [Names -> {"none", "active", "terminating"}]

\* Nothing exists for a lease without the finalizer, gone leases included,
\* and never two Namespaces at once, not even one that is still terminating.
Bracketed ==
    /\ lease # "held" => NothingLeft
    /\ \A m, n \in Names : ns[m] # "none" /\ ns[n] # "none" => m = n
=============================================================================
