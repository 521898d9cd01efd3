-------------------------- MODULE ClusterPlacement --------------------------
(***************************************************************************)
(* Where leases run: the workers of the EnvironmentLease controller place  *)
(* several leases on several ClusterTargets (placement.Decide), share an   *)
(* outage tracker and a gate per target, and the ClusterTarget controller  *)
(* keeps the targets' health and their deletion.                           *)
(*                                                                         *)
(* A worker makes one API call, remote call or step on shared memory at a  *)
(* time.  The ClusterTarget controller reads and writes in one step: its   *)
(* writes conflict with any change of the target since the read, and a     *)
(* lease that begins to refer to a target meanwhile is no worse off than   *)
(* one that does so after the step.  Every lease here asks for a           *)
(* clusterRef or a placement; leases without either run locally.  The list *)
(* that Decide counts leases in lags; otherwise caches are prompt, a lease *)
(* ends by its deletion, and cleanup requires the remote cluster:          *)
(* LeaseReconcile has stale reads of a lease, deadlines and BestEffort,    *)
(* NamespaceOwnership identities.                                          *)
(* A status is what the code reads back of it; a write that changes only   *)
(* condition messages queues nothing here.                                 *)
(***************************************************************************)
EXTENDS Naturals, FiniteSets

CONSTANTS
    Nil,
    Leases,
    Targets,            \* ClusterTargets, numbered in the order of their names
    MaxConcurrentReconciles,    \* workers of the lease controller
    ClusterRefs,        \* spec.clusterRef at first: for each lease a target or Nil
    FromPolicy,         \* leases whose only selector is their policy's
    Hash,               \* the hash of each lease's UID
    MaxActiveLeases,    \* of each target, or Nil
    GateLimit,          \* slots per target
    MinBack, MaxBack,   \* shortest and longest outage window
    Retry,              \* targetUnavailableAfter and cleanupRequeueAfter
    Drift,              \* remoteDriftRequeue
    NewTargets,         \* targets that the controller has not seen yet
    Handled,            \* bound: leases that users delete or retarget
    Features,           \* what users, operators and clusters do
    Troubled,           \* bound: targets they do it to
    MaxEvents           \* bound: how often they do

ASSUME PlacementAssumption ==
    /\ IsFiniteSet(Leases) /\ IsFiniteSet(Targets)
    /\ Targets \subseteq Nat /\ Nil \notin Nat
    /\ ClusterRefs \subseteq [Leases -> Targets \cup {Nil}]
    /\ FromPolicy \subseteq Leases /\ Handled \subseteq Leases
    /\ NewTargets \subseteq Targets /\ Troubled \subseteq Targets
    /\ Hash \in [Leases -> Nat]
    /\ MaxActiveLeases \in [Targets -> Nat \cup {Nil}]
    /\ {MaxConcurrentReconciles, GateLimit} \subseteq Nat \ {0}
    /\ MaxBack \in Nat /\ MinBack \in 1..MaxBack
    /\ {Retry, Drift} \subseteq Nat \ {0}
    /\ MaxEvents \in Nat

VARIABLES
    lease,      \* the EnvironmentLeases
    stalled,    \* where the leases were when their informer stalled, or Nil
    env,        \* the clusters that hold a Namespace of each lease
    target,     \* the ClusterTargets
    link,       \* what a client of each target meets
    window,     \* the outage tracker: time left of each target's window
    queue,      \* the delay after which a lease is due, or Nil
    w,          \* the worker that reconciles a lease
    events,     \* what they did so far
    edits,      \* history: whether, and when, the clusterRef was changed
    unseen      \* history: the claims that the selection of a lease did not count

vars == <<lease, stalled, env, target, link, window, queue, w, events, edits, unseen>>
history == <<edits, unseen>>

-----------------------------------------------------------------------------

Phases == {"", "Pending", "Provisioning", "Active", "Failed", "Cleaning"}

\* namespace: status.namespace is set.  Ready is true in phase Active only.
Status == [phase: Phases, cluster: Targets \cup {Nil}, namespace: BOOLEAN]

NoStatus == [phase |-> "", cluster |-> Nil, namespace |-> FALSE]

\* ref is spec.clusterRef, or Nil for a placement.
Lease == [exists: BOOLEAN, deleting: BOOLEAN, ref: Targets \cup {Nil}, status: Status]

NoLease == [exists |-> FALSE, deleting |-> FALSE, ref |-> Nil, status |-> NoStatus]

\* matches: its labels match the selectors of the leases and their policies;
\* identity: status.remoteIdentity is set.  No decision reads status.capacity
\* (Reconcile counts leases itself), so it is left out.
Target == [exists: BOOLEAN, deleting: BOOLEAN, finalizer: BOOLEAN,
           enabled: BOOLEAN, matches: BOOLEAN, ready: BOOLEAN, identity: BOOLEAN]

NoTarget == [exists |-> FALSE, deleting |-> FALSE, finalizer |-> FALSE,
             enabled |-> FALSE, matches |-> FALSE, ready |-> FALSE, identity |-> FALSE]

\* A worker has a slot of its target's gate from "ensure" to "constraints"
\* and at "delete".
GatePCs == {"ensure", "record", "constraints", "delete"}

\* read is the lease as last read, st the status under construction, before
\* the status at the start, result as in LeaseReconcile.
Worker ==
    [pc: GatePCs \cup {"idle", "probe", "gate", "cleanupGate", "patch", "remove"},
     target: Targets \cup {Nil}, read: Lease, st: Status, before: Status, result: Nat \cup {Nil}]

Resting ==
    [pc |-> "idle", target |-> Nil, read |-> NoLease,
     st |-> NoStatus, before |-> NoStatus, result |-> Nil]

Lower(a, b) == IF a < b THEN a ELSE b

-----------------------------------------------------------------------------
(* placement.Decide                                                        *)

\* targetHealthyEnabled.
HealthyEnabled(t) ==
    target[t].exists /\ ~target[t].deleting /\ target[t].enabled /\ target[t].ready

Live(l) == lease[l].exists /\ ~lease[l].deleting

\* Where the leases are that count.
Placed == [l \in Leases |-> IF Live(l) THEN lease[l].status.cluster ELSE Nil]

\* Where the informer has them.
Counted == IF stalled = Nil THEN Placed ELSE stalled

\* CountActiveLeases, in a list of the leases.
ActiveLeases(list, t) == Cardinality({l \in Leases : list[l] = t})

\* Mutant: a target that is full takes one more.
MutantUnderSoftCapacity(list, t) ==
    MaxActiveLeases[t] = Nil \/ ActiveLeases(list, t) <= MaxActiveLeases[t]

UnderSoftCapacity(list, t) ==
    MaxActiveLeases[t] = Nil \/ ActiveLeases(list, t) < MaxActiveLeases[t]

Candidates ==
    {t \in Targets : /\ target[t].matches /\ HealthyEnabled(t)
                     /\ UnderSoftCapacity(Counted, t)}

\* The hash modulo the number of candidates, in the order of their names.
PickStable(l, candidates) ==
    CHOOSE t \in candidates :
        Cardinality({u \in candidates : u < t}) = Hash[l] % Cardinality(candidates)

Decision(kind, t) == [kind |-> kind, target |-> t]

SelectFromCandidates(l) ==
    IF Candidates = {} THEN Decision("pending", Nil)
    ELSE Decision("target", PickStable(l, Candidates))

\* Mutant: a provisioned lease is reselected, too.
MutantSticky(l) ==
    LET t == lease[l].status.cluster
    IN  t # Nil /\ target[t].matches /\ HealthyEnabled(t)

\* Soft capacity is not checked again; once provisioned, neither is health.
Sticky(l) ==
    LET t == lease[l].status.cluster
    IN  t # Nil /\ (lease[l].status.namespace \/ (target[t].matches /\ HealthyEnabled(t)))

\* A clusterRef comes first, also for a lease that is provisioned elsewhere.
Decide(l) ==
    LET t == lease[l].ref
    IN  IF t # Nil
        THEN IF ~target[t].exists THEN Decision("error", Nil)
             ELSE IF ~target[t].matches THEN Decision("violation", Nil)
             ELSE Decision("target", t)
        ELSE IF Sticky(l) THEN Decision("target", lease[l].status.cluster)
        ELSE SelectFromCandidates(l)

\* The lease occupies the target, or will when its worker stores the status.
Claiming(l, t) == lease[l].status.cluster = t \/ (w[l].pc # "idle" /\ w[l].st.cluster = t)

\* History: what a selection does not count.
Select(l, t) ==
    unseen' = IF t \in {lease[l].status.cluster, lease[l].ref} THEN unseen
              ELSE [unseen EXCEPT ![l][t] =
                       {k \in Leases \ {l} : Claiming(k, t) /\ Counted[k] # t}]

-----------------------------------------------------------------------------
(* remote/outage.go and remote/resolve.go                                  *)

\* Mutant: nothing limits the window.
MutantMarkedWindow(left) ==
    IF left = 0 THEN MinBack ELSE IF 2 * left < MinBack THEN MinBack ELSE 2 * left

\* MarkUnavailable: the window starts, or doubles what is left of it.
MarkedWindow(left) ==
    IF left = 0 THEN MinBack
    ELSE IF 2 * left < MinBack THEN MinBack ELSE Lower(2 * left, MaxBack)

Mark(t) == window' = [window EXCEPT ![t] = MarkedWindow(@)]

\* ResolveNamedTarget builds a client from the Secret; it does not connect.
Resolvable(t) ==
    /\ target[t].exists /\ ~target[t].deleting /\ target[t].enabled
    /\ link[t] # "badSecret"

HasSlot(t) ==
    Cardinality({l \in Leases : w[l].target = t /\ w[l].pc \in GatePCs}) < GateLimit

-----------------------------------------------------------------------------
(* The work queue                                                          *)

\* A watch event makes leases due at once.
Due(leases) == queue' = [l \in Leases |-> IF l \in leases THEN 0 ELSE queue[l]]

RequeueAfter(l, result) ==
    IF result = Nil THEN queue[l]
    ELSE IF queue[l] = Nil THEN result
    ELSE Lower(queue[l], result)

\* mapClusterTarget: leases placed there, leases that refer to it, and
\* Pending leases with a clusterRef or a placement of their own.
Watching(t) ==
    {l \in Leases : /\ lease[l].exists
                    /\ \/ lease[l].status.cluster = t
                       \/ lease[l].ref = t
                       \/ /\ lease[l].status.phase = "Pending"
                          /\ l \notin FromPolicy \/ lease[l].ref # Nil}

Goto(l, pc, st) == w' = [w EXCEPT ![l].pc = pc, ![l].st = st] /\ UNCHANGED queue

\* The slot is released; patchStatusIfChanged follows if there is a change.
Return(l, st, result) ==
    IF st = w[l].before
    THEN /\ w' = [w EXCEPT ![l] = Resting]
         /\ queue' = [queue EXCEPT ![l] = RequeueAfter(l, result)]
    ELSE /\ w' = [w EXCEPT ![l] = [Resting EXCEPT !.pc = "patch", !.st = st, !.result = result]]
         /\ UNCHANGED queue

-----------------------------------------------------------------------------
(* Reconcile of a lease: placement, the outage window and the session.     *)
(* All of it is done in memory, but for the probe of a cluster without a   *)
(* recorded identity.                                                      *)

\* A worker is free, and none has the lease.
CanStart(l) ==
    /\ queue[l] = 0
    /\ w[l].pc = "idle"
    /\ Cardinality({k \in Leases : w[k].pc # "idle"}) < MaxConcurrentReconciles

Begin(l, pc, t, st) ==
    /\ CanStart(l)
    /\ queue' = [queue EXCEPT ![l] = Nil]
    /\ w' = [w EXCEPT ![l] =
                [pc |-> pc, target |-> t, read |-> lease[l],
                 st |-> st, before |-> lease[l].status, result |-> Nil]]
    /\ UNCHANGED <<lease, stalled, env, target, link, events, edits>>

\* Reconcile returns early.
BeginReturn(l, st, result) ==
    /\ CanStart(l)
    /\ IF st = lease[l].status
       THEN queue' = [queue EXCEPT ![l] = result] /\ UNCHANGED w
       ELSE /\ queue' = [queue EXCEPT ![l] = Nil]
            /\ w' = [w EXCEPT ![l] = [Resting EXCEPT !.pc = "patch", !.st = st,
                                                     !.result = result]]
    /\ UNCHANGED <<lease, stalled, env, target, link, events, edits>>

BeginGone(l) ==
    /\ ~lease[l].exists
    /\ BeginReturn(l, lease[l].status, Nil)
    /\ UNCHANGED <<window, unseen>>

BeginViolation(l) ==
    /\ Live(l) /\ Decide(l).kind = "violation"
    /\ BeginReturn(l, [lease[l].status EXCEPT !.phase = "Failed"], Nil)
    /\ UNCHANGED <<window, unseen>>

\* Mutant: a Pending lease waits for an event of a ClusterTarget.
MutantBeginPending(l) ==
    /\ Live(l) /\ Decide(l).kind = "pending"
    /\ BeginReturn(l, [lease[l].status EXCEPT !.phase = "Pending"], Nil)
    /\ UNCHANGED <<window, unseen>>

BeginPending(l) ==
    /\ Live(l) /\ Decide(l).kind = "pending"
    /\ BeginReturn(l, [lease[l].status EXCEPT !.phase = "Pending"], Retry)
    /\ UNCHANGED <<window, unseen>>

\* The target of clusterRef is missing.  handleTargetError marks the cluster
\* of the status, if there is one.
BeginError(l) ==
    /\ Live(l) /\ Decide(l).kind = "error"
    /\ LET st == [lease[l].status EXCEPT !.phase = "Failed"]
       IN  IF st.cluster = Nil
           THEN BeginReturn(l, st, Retry) /\ UNCHANGED window
           ELSE BeginReturn(l, st, MarkedWindow(window[st.cluster])) /\ Mark(st.cluster)
    /\ UNCHANGED unseen

BeginBackoff(l) ==
    /\ Live(l) /\ Decide(l).kind = "target"
    /\ window[Decide(l).target] > 0
    /\ BeginReturn(l, lease[l].status, window[Decide(l).target])
    /\ UNCHANGED <<window, unseen>>

\* The working status names the target.
Assigned(l, t) == [lease[l].status EXCEPT !.cluster = t]

\* ResolveNamedTarget fails: handleTargetError.
BeginUnavailable(l) ==
    /\ Live(l) /\ Decide(l).kind = "target"
    /\ LET t == Decide(l).target
       IN  /\ window[t] = 0 /\ ~Resolvable(t)
           /\ BeginReturn(l, [Assigned(l, t) EXCEPT !.phase = "Failed"], MarkedWindow(0))
           /\ Mark(t) /\ Select(l, t)

\* The client is there; what follows may find the window open again.
BeginResolved(l) ==
    /\ Live(l) /\ Decide(l).kind = "target"
    /\ LET t == Decide(l).target
       IN  /\ window[t] = 0 /\ Resolvable(t)
           /\ Begin(l, "probe", t, Assigned(l, t)) /\ Select(l, t)
    /\ UNCHANGED window

\* The identity of the cluster is known, from the ClusterTarget or from an
\* earlier Reconcile of a lease that has the target, or ProbeRemoteIdentity
\* gets it, and the window is cleared ...
Probe(l) ==
    /\ w[l].pc = "probe"
    /\ LET t == w[l].target
       IN  /\ target[t].identity \/ w[l].before.cluster = t \/ link[t] = "up"
           /\ window' = [window EXCEPT ![t] = 0]
    /\ Goto(l, "gate", w[l].st)
    /\ UNCHANGED <<lease, stalled, env, target, link, events, history>>

\* ... or the probe fails.
ProbeFails(l) ==
    /\ w[l].pc = "probe"
    /\ LET t == w[l].target
       IN  /\ ~target[t].identity /\ link[t] # "up"
           /\ Mark(t)
           /\ Return(l, [w[l].st EXCEPT !.phase = "Failed"], MarkedWindow(window[t]))
    /\ UNCHANGED <<lease, stalled, env, target, link, events, history>>

-----------------------------------------------------------------------------
(* Reconcile of a lease: provisioning                                      *)

StartProvisioning(l, st) ==
    IF w[l].before.phase # "Active" /\ st.phase # "Failed"
    THEN [st EXCEPT !.phase = "Provisioning"] ELSE st

\* Status().Update and the Get after it; a conflict is an error.
Persist(l, next, st) ==
    IF lease[l] = w[l].read
    THEN LET written == [lease[l] EXCEPT !.status = w[l].st]
         IN  /\ lease' = [lease EXCEPT ![l] = written]
             /\ queue' = IF written = lease[l] THEN queue ELSE [queue EXCEPT ![l] = 0]
             /\ w' = [w EXCEPT ![l].pc = next, ![l].read = written, ![l].st = st]
    ELSE Return(l, w[l].st, 0) /\ UNCHANGED lease

\* With a slot of the gate, the selection is stored before the first
\* provisioning.
AcquireGate(l) ==
    /\ w[l].pc = "gate"
    /\ HasSlot(w[l].target)
    /\ LET st == StartProvisioning(l, w[l].st)
       IN  IF w[l].before.phase # "Active" /\ ~w[l].st.namespace
           THEN Persist(l, "ensure", st)
           ELSE Goto(l, "ensure", st) /\ UNCHANGED lease
    /\ UNCHANGED <<stalled, env, target, link, window, events, history>>

\* Create the Namespace, or find it and go on to its constraints at once.
EnsureNamespace(l) ==
    /\ w[l].pc = "ensure"
    /\ link[w[l].target] = "up"
    /\ env' = [env EXCEPT ![l] = @ \cup {w[l].target}]
    /\ IF w[l].st.namespace
       THEN Return(l, [w[l].st EXCEPT !.phase = "Active"], Drift)
       ELSE Goto(l, "record", [w[l].st EXCEPT !.namespace = TRUE])
    /\ UNCHANGED <<lease, stalled, target, link, window, events, history>>

RecordNamespace(l) ==
    /\ w[l].pc = "record"
    /\ Persist(l, "constraints", w[l].st)
    /\ UNCHANGED <<stalled, env, target, link, window, events, history>>

\* Quota, limits and network policy, then MarkReady.
EnsureConstraints(l) ==
    /\ w[l].pc = "constraints"
    /\ link[w[l].target] = "up"
    /\ Return(l, [w[l].st EXCEPT !.phase = "Active"], Drift)
    /\ UNCHANGED <<lease, stalled, env, target, link, window, events, history>>

\* An error, retried by the rate limiter; the tracker does not hear of it.
RemoteCallFails(l) ==
    /\ w[l].pc \in {"ensure", "constraints"}
    /\ link[w[l].target] # "up"
    /\ Return(l, [w[l].st EXCEPT !.phase = "Failed"], 0)
    /\ UNCHANGED <<lease, stalled, env, target, link, window, events, history>>

-----------------------------------------------------------------------------
(* Reconcile of a deleted lease                                            *)

CleanupTarget(l) == IF lease[l].ref # Nil THEN lease[l].ref ELSE lease[l].status.cluster

Cleaning(l) == [lease[l].status EXCEPT !.phase = "Cleaning"]

\* Nothing was provisioned, or the session is resolved.
BeginCleanup(l) ==
    /\ lease[l].exists /\ lease[l].deleting
    /\ \/ /\ ~lease[l].status.namespace
          /\ Begin(l, "remove", Nil, Cleaning(l))
       \/ /\ lease[l].status.namespace
          /\ Resolvable(CleanupTarget(l))
          /\ Begin(l, "cleanupGate", CleanupTarget(l), Cleaning(l))
    /\ UNCHANGED <<window, unseen>>

\* RemoteCleanupBlocked.
BeginBlocked(l) ==
    /\ lease[l].exists /\ lease[l].deleting /\ lease[l].status.namespace
    /\ ~Resolvable(CleanupTarget(l))
    /\ BeginReturn(l, Cleaning(l), Retry)
    /\ UNCHANGED <<window, unseen>>

AcquireCleanupGate(l) ==
    /\ w[l].pc = "cleanupGate"
    /\ HasSlot(w[l].target)
    /\ Goto(l, "delete", w[l].st)
    /\ UNCHANGED <<lease, stalled, env, target, link, window, events, history>>

\* Mutant: nobody comes back to see the Namespace gone.
MutantDeleteNamespace(l) ==
    /\ w[l].pc = "delete"
    /\ LET t == w[l].target
       IN  IF link[t] = "up" /\ t \notin env[l]
           THEN Goto(l, "remove", w[l].st) /\ UNCHANGED env
           ELSE /\ Return(l, w[l].st, Nil)
                /\ env' = IF link[t] = "up" THEN [env EXCEPT ![l] = @ \ {t}] ELSE env
    /\ UNCHANGED <<lease, stalled, target, link, window, events, history>>

\* The Namespace is gone, or is deleted and looked for again, or the call fails.
DeleteNamespace(l) ==
    /\ w[l].pc = "delete"
    /\ LET t == w[l].target
       IN  IF link[t] = "up" /\ t \notin env[l]
           THEN Goto(l, "remove", w[l].st) /\ UNCHANGED env
           ELSE /\ Return(l, w[l].st, Retry)
                /\ env' = IF link[t] = "up" THEN [env EXCEPT ![l] = @ \ {t}] ELSE env
    /\ UNCHANGED <<lease, stalled, target, link, window, events, history>>

\* The last status, then the finalizer, and the lease goes with it.
RemoveLease(l) ==
    /\ w[l].pc = "remove"
    /\ lease' = [lease EXCEPT ![l] = NoLease]
    /\ w' = [w EXCEPT ![l] = Resting]
    /\ queue' = [queue EXCEPT ![l] = 0]
    /\ UNCHANGED <<stalled, env, target, link, window, events, history>>

\* patchStatusIfChanged; its event makes the lease due again.
PatchStatus(l) ==
    /\ w[l].pc = "patch"
    /\ LET changed == lease[l].status # w[l].st
       IN  /\ lease' = [lease EXCEPT ![l].status = w[l].st]
           /\ queue' = [queue EXCEPT ![l] =
                           IF changed THEN 0 ELSE RequeueAfter(l, w[l].result)]
    /\ w' = [w EXCEPT ![l] = Resting]
    /\ UNCHANGED <<stalled, env, target, link, window, events, history>>

-----------------------------------------------------------------------------
(* The ClusterTarget controller                                            *)

\* Update of a ClusterTarget and its event.
WriteTarget(t, new) ==
    /\ target' = [target EXCEPT ![t] = new]
    /\ IF new = target[t] THEN UNCHANGED queue ELSE Due(Watching(t))

TargetAddFinalizer(t) ==
    /\ target[t].exists /\ ~target[t].deleting /\ ~target[t].finalizer
    /\ WriteTarget(t, [target[t] EXCEPT !.finalizer = TRUE])
    /\ UNCHANGED <<lease, stalled, env, link, window, w, events, history>>

\* reconcileHealth: disabled, no client, unreachable, or healthy, which also
\* records the identity.
Health(t) ==
    IF target[t].enabled /\ link[t] = "up"
    THEN [target[t] EXCEPT !.ready = TRUE, !.identity = TRUE]
    ELSE [target[t] EXCEPT !.ready = FALSE]

TargetHealth(t) ==
    /\ target[t].exists /\ ~target[t].deleting /\ target[t].finalizer
    /\ Health(t) # target[t]
    /\ WriteTarget(t, Health(t))
    /\ UNCHANGED <<lease, stalled, env, link, window, w, events, history>>

\* countReferencingLeases.
Referencing(t) == {l \in Leases : lease[l].exists /\ lease[l].ref = t}

\* reconcileDelete: leases still refer to the target ...
TargetHeld(t) ==
    /\ target[t].exists /\ target[t].deleting /\ target[t].ready
    /\ Referencing(t) # {}
    /\ WriteTarget(t, [target[t] EXCEPT !.ready = FALSE])
    /\ UNCHANGED <<lease, stalled, env, link, window, w, events, history>>

\* ... or its finalizer goes.
TargetRemove(t) ==
    /\ target[t].exists /\ target[t].deleting
    /\ Referencing(t) = {}
    /\ WriteTarget(t, NoTarget)
    /\ UNCHANGED <<lease, stalled, env, link, window, w, events, history>>

-----------------------------------------------------------------------------
(* Users, operators and the clusters                                       *)

Happens(t, feature) ==
    /\ t \in Troubled /\ feature \in Features
    /\ events < MaxEvents
    /\ events' = events + 1

Expire(l) ==
    /\ l \in Handled /\ Live(l)
    /\ lease' = [lease EXCEPT ![l].deleting = TRUE]
    /\ Due({l})
    /\ UNCHANGED <<stalled, env, target, link, window, w, events, history>>

\* The lease has a Namespace, or a worker is about to make it one.
Committed(l) ==
    lease[l].status.namespace \/ w[l].st.namespace \/ w[l].pc = "ensure"

\* Someone changes spec.clusterRef: nothing makes it immutable.
Retarget(l, t) ==
    /\ l \in Handled /\ "retarget" \in Features
    /\ lease[l].exists /\ lease[l].ref # t
    /\ events < MaxEvents /\ events' = events + 1
    /\ lease' = [lease EXCEPT ![l].ref = t]
    /\ edits' = [edits EXCEPT ![l] = IF @ = "late" \/ Committed(l) THEN "late" ELSE "early"]
    /\ Due({l})
    /\ UNCHANGED <<stalled, env, target, link, window, w, unseen>>

\* A target becomes unreachable, or its Secret unusable ...
LinkBreaks(t) ==
    /\ link[t] = "up"
    /\ \E broken \in {"down", "badSecret"} :
          /\ Happens(t, broken)
          /\ link' = [link EXCEPT ![t] = broken]
    /\ UNCHANGED <<lease, stalled, env, target, window, queue, w, history>>

\* ... and is repaired.
LinkRepaired(t) ==
    /\ link[t] # "up"
    /\ link' = [link EXCEPT ![t] = "up"]
    /\ UNCHANGED <<lease, stalled, env, target, window, queue, w, events, history>>

\* An operator disables a target or changes its labels, and takes it back.
Disable(t) ==
    /\ target[t].exists /\ target[t].enabled
    /\ Happens(t, "disable")
    /\ WriteTarget(t, [target[t] EXCEPT !.enabled = FALSE])
    /\ UNCHANGED <<lease, stalled, env, link, window, w, history>>

Relabel(t) ==
    /\ target[t].exists /\ target[t].matches
    /\ Happens(t, "relabel")
    /\ WriteTarget(t, [target[t] EXCEPT !.matches = FALSE])
    /\ UNCHANGED <<lease, stalled, env, link, window, w, history>>

Restore(t) ==
    /\ target[t].exists /\ ~(target[t].enabled /\ target[t].matches)
    /\ WriteTarget(t, [target[t] EXCEPT !.enabled = TRUE, !.matches = TRUE])
    /\ UNCHANGED <<lease, stalled, env, link, window, w, events, history>>

DeleteTarget(t) ==
    /\ target[t].exists /\ ~target[t].deleting
    /\ Happens(t, "delete")
    /\ WriteTarget(t, IF target[t].finalizer THEN [target[t] EXCEPT !.deleting = TRUE]
                      ELSE NoTarget)
    /\ UNCHANGED <<lease, stalled, env, link, window, w, history>>

\* The informer of the leases falls behind ...
Stall ==
    /\ stalled = Nil /\ "lag" \in Features
    /\ events < MaxEvents /\ events' = events + 1
    /\ stalled' = Placed
    /\ UNCHANGED <<lease, env, target, link, window, queue, w, history>>

\* ... and catches up.
Observe ==
    /\ stalled # Nil
    /\ stalled' = Nil
    /\ UNCHANGED <<lease, env, target, link, window, queue, w, events, history>>

\* Delays and outage windows run down.
Tick ==
    /\ \/ \E l \in Leases : queue[l] \notin {0, Nil}
       \/ \E t \in Targets : window[t] > 0
    /\ queue' = [l \in Leases |-> IF queue[l] \in {0, Nil} THEN queue[l] ELSE queue[l] - 1]
    /\ window' = [t \in Targets |-> IF window[t] = 0 THEN 0 ELSE window[t] - 1]
    /\ UNCHANGED <<lease, stalled, env, target, link, w, events, history>>

-----------------------------------------------------------------------------

\* New leases, which have their finalizer, and ClusterTargets, new or healthy.
Init ==
    /\ \E ref \in ClusterRefs :
          lease = [l \in Leases |-> [exists |-> TRUE, deleting |-> FALSE,
                                     ref |-> ref[l], status |-> NoStatus]]
    /\ stalled = Nil
    /\ env = [l \in Leases |-> {}]
    /\ target = [t \in Targets |->
                    [NoTarget EXCEPT !.exists = TRUE, !.enabled = TRUE, !.matches = TRUE,
                                     !.finalizer = t \notin NewTargets,
                                     !.ready = t \notin NewTargets,
                                     !.identity = t \notin NewTargets]]
    /\ link = [t \in Targets |-> "up"]
    /\ window = [t \in Targets |-> 0]
    /\ queue = [l \in Leases |-> 0]
    /\ w = [l \in Leases |-> Resting]
    /\ events = 0
    /\ edits = [l \in Leases |-> "no"]
    /\ unseen = [l \in Leases |-> [t \in Targets |-> {}]]

Reconcile(l) ==
    \/ /\ CanStart(l)
       /\ \/ BeginGone(l) \/ BeginViolation(l) \/ BeginPending(l)
          \/ BeginError(l) \/ BeginBackoff(l) \/ BeginUnavailable(l) \/ BeginResolved(l)
          \/ BeginCleanup(l) \/ BeginBlocked(l)
    \/ Probe(l) \/ ProbeFails(l) \/ AcquireGate(l)
    \/ EnsureNamespace(l) \/ RecordNamespace(l)
    \/ EnsureConstraints(l) \/ RemoteCallFails(l)
    \/ AcquireCleanupGate(l) \/ DeleteNamespace(l)
    \/ RemoveLease(l) \/ PatchStatus(l)

ReconcileTarget(t) ==
    \/ TargetAddFinalizer(t) \/ TargetHealth(t)
    \/ TargetHeld(t) \/ TargetRemove(t)

Next ==
    \/ \E l \in Leases : \/ Reconcile(l) \/ Expire(l)
                         \/ \E t \in Targets \cup {Nil} : Retarget(l, t)
    \/ \E t \in Targets : ReconcileTarget(t)
    \/ \E t \in Targets :
          \/ LinkBreaks(t) \/ LinkRepaired(t)
          \/ Disable(t) \/ Relabel(t) \/ Restore(t) \/ DeleteTarget(t)
    \/ Stall \/ Observe \/ Tick

Spec == Init /\ [][Next]_vars

\* Workers run, the queue and the gates are served in order (a lease or a
\* worker that waits has its turn), targets are reconciled at intervals and
\* time passes; the informer catches up.  Nothing is repaired, enabled or
\* deleted by necessity.
Fairness ==
    /\ \A l \in Leases : SF_vars(Reconcile(l))
    /\ \A t \in Targets : WF_vars(ReconcileTarget(t))
    /\ WF_vars(Observe)
    /\ WF_vars(Tick)

FairSpec == Spec /\ Fairness

-----------------------------------------------------------------------------
(* Properties                                                              *)

\* Every variable has its type; a delay or window never exceeds its bound.
TypeOK ==
    /\ lease \in [Leases -> Lease]
    /\ stalled \in [Leases -> Targets \cup {Nil}] \cup {Nil}
    /\ env \in [Leases -> SUBSET Targets]
    /\ target \in [Targets -> Target]
    /\ link \in [Targets -> {"up", "down", "badSecret"}]
    /\ window \in [Targets -> 0..MaxBack]
    /\ queue \in [Leases -> Nat \cup {Nil}]
    /\ w \in [Leases -> Worker]
    /\ events \in 0..MaxEvents
    /\ edits \in [Leases -> {"no", "early", "late"}]
    /\ unseen \in [Leases -> [Targets -> SUBSET Leases]]

\* The leases on a target that Decide selected for it.
SelectedFor(t) ==
    {l \in Leases : /\ Live(l) /\ lease[l].ref = Nil /\ edits[l] = "no"
                    /\ lease[l].status.cluster = t}

\* Soft capacity is overrun only by what a selection cannot see: among the
\* leases that were selected for a target there is one that still found room,
\* but for leases whose claim was in the hands of another worker, or stored
\* and not yet in the informer's list (CountActiveLeases, Decide, then the
\* write of status.cluster).  A target without capacity has none.
OverrunUnseen ==
    \A t \in Targets :
        MaxActiveLeases[t] # Nil /\ SelectedFor(t) # {} =>
            \E l \in SelectedFor(t) :
                Cardinality(SelectedFor(t) \ unseen[l][t]) <= MaxActiveLeases[t]

\* A Namespace is only ever on the cluster that the lease's status names, so
\* cleanup finds it: the selection is stored before provisioning, kept once
\* status.namespace is stored, and changed only while there is no Namespace.
\* A change of clusterRef before the selection is stored is noticed by the
\* conflict; one after it moves the lease and leaves the Namespace behind.
EnvironmentWhereRecorded ==
    \A l \in Leases :
        edits[l] # "late" =>
            \A t \in env[l] : lease[l].exists /\ lease[l].status.cluster = t

\* A target that nothing is wrong with.
GoodTarget(t) ==
    target[t].exists /\ ~target[t].deleting /\ target[t].enabled /\ link[t] = "up"

\* Nothing keeps the lease from its target, or from some target.
Placeable(l) ==
    LET st == lease[l].status
        ref == lease[l].ref
    IN  IF ref # Nil THEN target[ref].matches /\ GoodTarget(ref)
        ELSE IF st.namespace THEN GoodTarget(st.cluster)
        ELSE \E t \in Targets : /\ GoodTarget(t) /\ target[t].matches
                                /\ st.cluster = t \/ UnderSoftCapacity(Placed, t)

\* A live lease whose cluster stays well is provisioned in the end, whatever
\* outages and windows, full targets, other leases and waits at gates came
\* before, and whichever watch event it missed (resolveTargetSessionForProvision,
\* mapClusterTarget, the outage tracker and the gate).
Converges ==
    \A l \in Leases : []<>(Live(l) /\ Placeable(l) => lease[l].status.phase = "Active")

\* A deleted lease goes, once its cluster is well for long enough: the last
\* failure left a requeue behind (reconcileDelete, cleanupEnvironment).
CleanupConverges ==
    \A l \in Leases :
        []<>~(/\ lease[l].exists /\ lease[l].deleting
              /\ lease[l].status.namespace => GoodTarget(CleanupTarget(l)))

\* A ClusterTarget that is being deleted goes when the leases that refer to
\* it have been deleted, too: the finalizer waits for them, not for ever
\* (reconcileDelete of the ClusterTarget, cleanupEnvironment of the lease).
DrainedTargetGoes ==
    \A t \in Targets :
        (target[t].deleting /\ \A l \in Referencing(t) : lease[l].deleting)
            ~> ~target[t].exists
=============================================================================
