------------------------ MODULE LeaseLifecycleProofs ------------------------
(* What follows from the promise of LeaseLifecycle, for any set of names.  *)
EXTENDS LeaseLifecycle, TLAPS

\* No step of the abstract controller leaves the bracket of the finalizer.
LEMMA BracketedStep ==
    LTypeOK /\ Bracketed /\ [LNext]_lvars => LTypeOK' /\ Bracketed'
<1> SUFFICES ASSUME LTypeOK, Bracketed, [LNext]_lvars
             PROVE  LTypeOK' /\ Bracketed'
    OBVIOUS
<1> USE DEF LTypeOK, Bracketed, NothingLeft
<1>1. CASE Protect
    BY <1>1 DEF Protect
<1>2. CASE Release
    BY <1>2 DEF Release
<1>3. CASE Drop
    BY <1>3 DEF Drop
<1>4. ASSUME NEW n \in Names, Provision(n)
      PROVE  LTypeOK' /\ Bracketed'
    BY <1>4 DEF Provision
<1>5. ASSUME NEW n \in Names, Terminate(n)
      PROVE  LTypeOK' /\ Bracketed'
    BY <1>5 DEF Terminate
<1>6. ASSUME NEW n \in Names, Vanish(n)
      PROVE  LTypeOK' /\ Bracketed'
    BY <1>6 DEF Vanish
<1>7. CASE UNCHANGED lvars
    BY <1>7 DEF lvars
<1> QED
    BY <1>1, <1>2, <1>3, <1>4, <1>5, <1>6, <1>7 DEF LNext

\* A controller that implements LeaseLifecycle leaves no Namespace behind a
\* lease that is gone or unprotected, and never has two Namespaces at once
\* (removeLeaseFinalizer after cleanupEnvironment, ensureNamespace).
THEOREM LifecycleBracketed == LSpec => [](LTypeOK /\ Bracketed)
<1>1. LInit => LTypeOK /\ Bracketed
    BY DEF LInit, LTypeOK, Bracketed, NothingLeft
<1> QED
    BY <1>1, BracketedStep, PTL DEF LSpec
=============================================================================
