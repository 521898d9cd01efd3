------------------------- MODULE NamespaceOwnership -------------------------
(***************************************************************************)
(* Who owns a Namespace: several EnvironmentLeases, on one or several      *)
(* control clusters, ask for the same Namespace name on remote clusters,   *)
(* beside users who create and delete Namespaces and operators who replace *)
(* the credentials of a ClusterTarget.                                     *)
(*                                                                         *)
(* A lease is its UID.  Each control cluster has one ClusterTarget; its    *)
(* credentials lead to a cluster, and a cluster is its identity, the UID   *)
(* of its kube-system Namespace.  The worker of a lease makes one API call *)
(* per step; deadlines, caches and conflicting status writes are the       *)
(* subject of LeaseReconcile.                                              *)
(***************************************************************************)
EXTENDS Naturals

CONSTANTS
    Nil,
    Leases,         \* UIDs
    NameOf,         \* metadata.name of each lease
    Controls,       \* control clusters
    ControlOf,      \* the control cluster of each lease
    Clusters,       \* remote clusters
    Home,           \* the cluster that all credentials lead to at first
    MaxFaults       \* bound: credential swaps and Namespaces deleted by users

ASSUME OwnershipAssumption ==
    /\ Nil \notin Leases \cup Controls \cup Clusters
    /\ ControlOf \in [Leases -> Controls]
    /\ Home \in Clusters
    /\ MaxFaults \in Nat

VARIABLES
    lease,      \* the EnvironmentLeases
    space,      \* the Namespace of the wanted name on each cluster
    points,     \* the cluster that a ClusterTarget's credentials lead to
    sticky,     \* status.remoteIdentity of a ClusterTarget
    w,          \* the worker that reconciles a lease
    faults      \* faults so far

vars == <<lease, space, points, sticky, w, faults>>

-----------------------------------------------------------------------------

\* placed: status.namespace is set; identity: status.cluster.remoteIdentity;
\* ack: the force-cleanup-acknowledged annotation; blocked: the condition
\* Cleanup=False with reason OwnershipMismatch.
LeaseObject ==
    [state: {"absent", "live", "deleting", "gone"}, placed: BOOLEAN,
     identity: Clusters \cup {Nil}, ack: BOOLEAN, blocked: BOOLEAN]

NoLease == [state |-> "absent", placed |-> FALSE, identity |-> Nil,
            ack |-> FALSE, blocked |-> FALSE]

\* name is the lease label (Nil: the managed-by label is missing), uid,
\* control and identity are the annotations.
Namespace ==
    [state: {"none", "active", "terminating"}, name: {NameOf[l] : l \in Leases} \cup {Nil},
     uid: Leases \cup {Nil}, control: Controls \cup {Nil},
     identity: Clusters \cup {Nil}]

NoNamespace == [state |-> "none", name |-> Nil, uid |-> Nil, control |-> Nil,
                identity |-> Nil]

\* A user's Namespace carries none of KubeLease's labels and annotations.
Unmanaged == [NoNamespace EXCEPT !.state = "active"]

\* sess is the cluster of the session's client, identity the working copy of
\* status.cluster.remoteIdentity, found the Namespace that Get returned.
Worker == [pc: {"idle", "get", "create", "patch", "record", "cleanupGet", "cleanupDelete"},
           sess: Clusters, identity: Clusters \cup {Nil}, found: Namespace]

Resting == [pc |-> "idle", sess |-> Home, identity |-> Nil, found |-> NoNamespace]

Target(l) == points[ControlOf[l]]

-----------------------------------------------------------------------------
(* resources/namespace.go and identity/identity.go                         *)

\* DesiredNamespace and the stamps of ensureExistingNamespace.
Stamp(l, identity) ==
    [state |-> "active", name |-> NameOf[l], uid |-> l,
     control |-> ControlOf[l], identity |-> identity]

OwnedByLease(n, l) == n.name = NameOf[l] /\ n.uid = l

\* Own, unmanaged, or managed without a UID under the same name.
CanAdoptNamespace(n, l) ==
    \/ OwnedByLease(n, l)
    \/ n.name = Nil
    \/ n.name = NameOf[l] /\ n.uid \in {Nil, l}

\* Mutant: the UID is not compared.
MutantVerifyNamespaceOwnership(n, l) == n.name = NameOf[l]

VerifyNamespaceOwnership(n, l) ==
    /\ n.name = NameOf[l]
    /\ n.uid = l
    /\ n.control \in {Nil, ControlOf[l]}
    /\ lease[l].identity # Nil => n.identity \in {Nil, lease[l].identity}

\* Mutant: the probe before a cleanup is skipped.
MutantVerifyLiveTargetIdentity(expected, live) == TRUE

VerifyLiveTargetIdentity(expected, live) == expected = Nil \/ expected = live

-----------------------------------------------------------------------------
(* Reconcile of a live lease                                               *)

Goto(l, pc) == w' = [w EXCEPT ![l].pc = pc]

\* patchStatusIfChanged writes the working identity back on every way out.
Return(l, placed) ==
    /\ w' = [w EXCEPT ![l] = Resting]
    /\ lease' = [lease EXCEPT ![l].identity = w[l].identity, ![l].placed = placed]

\* resolveTargetSessionForProvision takes the ClusterTarget's identity, else
\* the lease's own, else probes.  Before the first provisioning the status
\* is persisted, and the working copy then starts over without identity.
Resolve(l) ==
    /\ w[l].pc = "idle"
    /\ lease[l].state = "live"
    /\ LET known == IF sticky[ControlOf[l]] # Nil THEN sticky[ControlOf[l]]
                    ELSE lease[l].identity
           identity == IF known # Nil THEN known ELSE Target(l)
       IN  /\ lease' = [lease EXCEPT ![l].identity =
                            IF lease[l].placed THEN @ ELSE identity]
           /\ w' = [w EXCEPT ![l] =
                       [pc |-> "get", sess |-> Target(l),
                        identity |-> IF lease[l].placed THEN identity ELSE Nil,
                        found |-> NoNamespace]]
    /\ UNCHANGED <<space, points, sticky, faults>>

\* What ensureExistingNamespace wants the labels and annotations to be; an
\* empty identity leaves the annotation alone.
Wanted(l, n) ==
    [Stamp(l, IF w[l].identity = Nil THEN n.identity ELSE w[l].identity)
        EXCEPT !.state = n.state]

EnsureGet(l) ==
    /\ w[l].pc = "get"
    /\ LET n == space[w[l].sess]
       IN  IF n.state = "none" THEN Goto(l, "create") /\ UNCHANGED lease
           ELSE IF n.state = "terminating" \/ ~CanAdoptNamespace(n, l)
           THEN Return(l, lease[l].placed)
           ELSE IF n = Wanted(l, n) THEN Goto(l, "record") /\ UNCHANGED lease
           ELSE w' = [w EXCEPT ![l].pc = "patch", ![l].found = n] /\ UNCHANGED lease
    /\ UNCHANGED <<space, points, sticky, faults>>

\* Create; AlreadyExists is an error.
EnsureCreate(l) ==
    /\ w[l].pc = "create"
    /\ IF space[w[l].sess].state = "none"
       THEN /\ space' = [space EXCEPT ![w[l].sess] = Stamp(l, w[l].identity)]
            /\ Goto(l, "record")
            /\ UNCHANGED lease
       ELSE /\ Return(l, lease[l].placed)
            /\ UNCHANGED space
    /\ UNCHANGED <<points, sticky, faults>>

\* A merge patch has no lock: the fields that differ from the Namespace that
\* was read go into whatever Namespace has the name by now.
EnsurePatch(l) ==
    /\ w[l].pc = "patch"
    /\ LET n == space[w[l].sess]
           old == w[l].found
           new == Wanted(l, old)
       IN  IF n.state = "none"
           THEN Return(l, lease[l].placed) /\ UNCHANGED space
           ELSE /\ space' = [space EXCEPT ![w[l].sess] =
                       [f \in DOMAIN n |-> IF old[f] = new[f] THEN n[f] ELSE new[f]]]
                /\ Goto(l, "record")
                /\ UNCHANGED lease
    /\ UNCHANGED <<points, sticky, faults>>

\* Mutant: the Namespace itself is recorded where its cluster's identity belongs.
MutantRecord(l) ==
    /\ w[l].pc = "record"
    /\ w' = [w EXCEPT ![l] = Resting]
    /\ lease' = [lease EXCEPT ![l].identity = w[l].found, ![l].placed = TRUE]
    /\ UNCHANGED <<space, points, sticky, faults>>

\* status.namespace is persisted.
Record(l) ==
    /\ w[l].pc = "record"
    /\ Return(l, TRUE)
    /\ UNCHANGED <<space, points, sticky, faults>>

-----------------------------------------------------------------------------
(* cleanupEnvironment                                                      *)

\* The finalizer goes, and with it the lease.
Release(l) ==
    /\ lease' = [lease EXCEPT ![l].state = "gone", ![l].blocked = FALSE]
    /\ w' = [w EXCEPT ![l] = Resting]

\* OwnershipMismatch: no requeue, the finalizer stays.
Refuse(l) ==
    /\ lease' = [lease EXCEPT ![l].blocked = TRUE]
    /\ w' = [w EXCEPT ![l] = Resting]

\* Nothing was provisioned, or the operator acknowledged the loss.
CleanupNothing(l) ==
    /\ w[l].pc = "idle" /\ lease[l].state = "deleting"
    /\ ~lease[l].placed \/ lease[l].ack
    /\ Release(l)
    /\ UNCHANGED <<space, points, sticky, faults>>

CleanupProbe(l) ==
    /\ w[l].pc = "idle" /\ lease[l].state = "deleting"
    /\ lease[l].placed /\ ~lease[l].ack
    /\ IF VerifyLiveTargetIdentity(lease[l].identity, Target(l))
       THEN /\ w' = [w EXCEPT ![l].pc = "cleanupGet", ![l].sess = Target(l)]
            /\ UNCHANGED lease
       ELSE Refuse(l)
    /\ UNCHANGED <<space, points, sticky, faults>>

\* Mutant: the check of the deletionTimestamp is inverted.
MutantCleanupGet(l) ==
    /\ w[l].pc = "cleanupGet"
    /\ LET n == space[w[l].sess]
       IN  IF n.state = "none" THEN Release(l)
           ELSE IF ~VerifyNamespaceOwnership(n, l) THEN Refuse(l)
           ELSE /\ w' = IF n.state = "active" THEN [w EXCEPT ![l] = Resting]
                        ELSE [w EXCEPT ![l].pc = "cleanupDelete", ![l].found = n]
                /\ UNCHANGED lease
    /\ UNCHANGED <<space, points, sticky, faults>>

CleanupGet(l) ==
    /\ w[l].pc = "cleanupGet"
    /\ LET n == space[w[l].sess]
       IN  IF n.state = "none" THEN Release(l)
           ELSE IF ~VerifyNamespaceOwnership(n, l) THEN Refuse(l)
           ELSE /\ w' = IF n.state = "terminating" THEN [w EXCEPT ![l] = Resting]
                        ELSE [w EXCEPT ![l].pc = "cleanupDelete", ![l].found = n]
                /\ UNCHANGED lease
    /\ UNCHANGED <<space, points, sticky, faults>>

\* Delete by name, without preconditions; NotFound is no error.
CleanupDelete(l) ==
    /\ w[l].pc = "cleanupDelete"
    /\ space' = [space EXCEPT ![w[l].sess].state =
                    IF @ = "none" THEN "none" ELSE "terminating"]
    /\ w' = [w EXCEPT ![l] = Resting]
    /\ UNCHANGED <<lease, points, sticky, faults>>

-----------------------------------------------------------------------------
(* Everybody else                                                          *)

\* Names are unique on a control cluster; a deleted name may be used again.
CreateLease(l) ==
    /\ lease[l].state = "absent"
    /\ \A m \in Leases : NameOf[m] = NameOf[l] /\ ControlOf[m] = ControlOf[l]
                           => lease[m].state \in {"absent", "gone"}
    /\ lease' = [lease EXCEPT ![l].state = "live"]
    /\ UNCHANGED <<space, points, sticky, w, faults>>

\* Deleted by hand or by the webhook, or expired.
EndLease(l) ==
    /\ lease[l].state = "live"
    /\ lease' = [lease EXCEPT ![l].state = "deleting"]
    /\ UNCHANGED <<space, points, sticky, w, faults>>

Acknowledge(l) ==
    /\ lease[l].blocked /\ ~lease[l].ack
    /\ lease' = [lease EXCEPT ![l].ack = TRUE]
    /\ UNCHANGED <<space, points, sticky, w, faults>>

\* reconcileHealth keeps the first identity that it sees.
HealthProbe(k) ==
    /\ sticky[k] = Nil
    /\ sticky' = [sticky EXCEPT ![k] = points[k]]
    /\ UNCHANGED <<lease, space, points, w, faults>>

SwapCredentials(k, c) ==
    /\ faults < MaxFaults
    /\ points[k] # c
    /\ points' = [points EXCEPT ![k] = c]
    /\ faults' = faults + 1
    /\ UNCHANGED <<lease, space, sticky, w>>

NamespaceGone(c) ==
    /\ space[c].state = "terminating"
    /\ space' = [space EXCEPT ![c] = NoNamespace]
    /\ UNCHANGED <<lease, points, sticky, w, faults>>

UserCreates(c) ==
    /\ faults < MaxFaults
    /\ space[c].state = "none"
    /\ space' = [space EXCEPT ![c] = Unmanaged]
    /\ faults' = faults + 1
    /\ UNCHANGED <<lease, points, sticky, w>>

UserDeletes(c) ==
    /\ faults < MaxFaults
    /\ space[c].state = "active"
    /\ space' = [space EXCEPT ![c].state = "terminating"]
    /\ faults' = faults + 1
    /\ UNCHANGED <<lease, points, sticky, w>>

-----------------------------------------------------------------------------

Init ==
    /\ lease = [l \in Leases |-> NoLease]
    /\ space = [c \in Clusters |-> NoNamespace]
    /\ points = [k \in Controls |-> Home]
    /\ sticky = [k \in Controls |-> Nil]
    /\ w = [l \in Leases |-> Resting]
    /\ faults = 0

Cleanup(l) ==
    CleanupNothing(l) \/ CleanupProbe(l) \/ CleanupGet(l) \/ CleanupDelete(l)

Provision(l) ==
    \/ Resolve(l) \/ EnsureGet(l) \/ EnsureCreate(l) \/ EnsurePatch(l) \/ Record(l)

Next ==
    \/ \E l \in Leases : \/ Provision(l) \/ Cleanup(l)
                         \/ CreateLease(l) \/ EndLease(l) \/ Acknowledge(l)
    \/ \E k \in Controls : HealthProbe(k) \/ \E c \in Clusters : SwapCredentials(k, c)
    \/ \E c \in Clusters : NamespaceGone(c) \/ UserCreates(c) \/ UserDeletes(c)

Spec == Init /\ [][Next]_vars

\* Workers run on (a cleanup under way is requeued), and terminating
\* Namespaces end.
Fairness ==
    /\ \A l \in Leases : WF_vars(Cleanup(l)) /\ WF_vars(w[l].pc # "idle" /\ Provision(l))
    /\ \A c \in Clusters : WF_vars(NamespaceGone(c))

FairSpec == Spec /\ Fairness

-----------------------------------------------------------------------------
(* Properties                                                              *)

\* Every variable has its type.
TypeOK ==
    /\ lease \in [Leases -> LeaseObject]
    /\ space \in [Clusters -> Namespace]
    /\ points \in [Controls -> Clusters]
    /\ sticky \in [Controls -> Clusters \cup {Nil}]
    /\ w \in [Leases -> Worker]
    /\ faults \in Nat

\* cleanupEnvironment deletes what is its own: unless the Namespace was
\* replaced or claimed between its Get and its Delete, the one it deletes
\* carries the lease's UID, on the cluster that the lease recorded, and the
\* lease itself is on its way out.
DeletesOwn ==
    [][\A l \in Leases, c \in Clusters :
         /\ w[l].pc = "cleanupDelete" /\ w'[l].pc = "idle"
         /\ w[l].sess = c
         /\ space[c] = w[l].found
         => /\ space[c].uid = l
            /\ lease[l].identity \in {Nil, c}
            /\ lease[l].state = "deleting"]_vars

\* RequireRemoteCleanup prefers a stuck lease to an orphan: when the finalizer
\* of a lease that knew its cluster has gone without an acknowledgement,
\* that cluster holds no Namespace with the lease's UID, also after a swap of
\* the credentials (the live identity is compared before the cleanup).
NoOrphanOnRecordedCluster ==
    \A l \in Leases :
        lease[l].state = "gone" /\ ~lease[l].ack /\ lease[l].identity # Nil
            => space[lease[l].identity].uid # l

\* A cleanup comes to an end: the lease goes, or it reports an
\* OwnershipMismatch for the operator (reconcileDelete, reconcileExpired).
CleanupEnds ==
    \A l \in Leases :
        lease[l].state = "deleting" ~> (lease[l].state = "gone" \/ lease[l].blocked)

\* KubeLease does not follow a credential swap: ensureNamespace creates a
\* Namespace only on the cluster whose identity the lease's session resolved
\* to (the ClusterTarget's sticky identity, or else the lease's own).
NeverFollows ==
    [][\A l \in Leases : w[l].pc = "create" /\ w'[l].pc = "record" =>
         w[l].identity \in {Nil, w[l].sess}]_vars
=============================================================================
