# KubeLease in TLA+

KubeLease gives out temporary Kubernetes environments. An `EnvironmentLease`
object asks for a Namespace with constraints for a limited time; a controller
provisions it, on its own cluster or on a remote `ClusterTarget`, keeps it
repaired, and tears it down when the lease expires, idles out or is deleted. A
kubectl plugin and an HTTP webhook create, extend, touch and expire leases.

This directory models the parts of the program that decide what exists and
when, checks them with TLC and proves their safety properties with TLAPS.
`PROJECT.json` holds the correspondence with the source (definition by
definition), the list of runs, the mutants that show that each property can
fail, the findings and the hazards.

## Inventory

| Part | State | Operations | What is hard about it |
|---|---|---|---|
| Lease deadlines (`internal/lease`) | timestamps in `status` | `EnsureTimestamps`, `SyncExpirationStatus`, `RecordActivity`, `NextReconcileAfter`, `ComputeExtendedTTL` | caps that must hold under renewals, heartbeats and edits in any order; a delay of exactly 0 |
| EnvironmentLease controller (`internal/controller`) | the lease, its finalizer, the Namespace, the work queue | `Reconcile` with its branches active, expired, deleted | cached reads, whole-status writes, crashes between two calls, deletion during provisioning |
| kubectl plugin (`internal/cli`) | none of its own | `create`, `touch`, `extend`, `expire` | read-compute-write against the controller |
| Ownership and identity (`internal/identity`, `internal/resources`) | labels and annotations of Namespaces, `status.cluster` | adopt, stamp, verify, delete | the same name wanted by several leases, control clusters and users; swapped credentials |
| ClusterTarget controller | sticky identity, Ready, capacity | health probe, deletion guard | identity drift, deletion while leases are placed |
| Placement (`internal/placement`) | `status.cluster.name` | `Decide` | sticky choice, soft capacity counted from a cached list before a race, a `clusterRef` that is edited |
| Remote access (`internal/remote`) | client cache, outage windows, per-target slots | resolve, mark, clear, acquire | shared backoff, workers waiting for slots |
| Policy (`internal/policy`) | none | `Resolve` | interplay of defaults, minima, maxima |
| Source webhook (`internal/sourcewebhook`) | none of its own; annotations on leases | create, expire, touch; GitHub pull-request events | repeated, lost and reordered deliveries; racing handlers |

The parts meet in the API server: controller, plugin and webhook read and write
the same lease objects, the lease and the ClusterTarget controller share the
ClusterTargets, and every write can wake the controller through its watches.

What makes the parts correct: no deadline over its cap; an expired or deleted
lease loses its Namespace before it loses its finalizer, and does lose both
eventually; no Namespace without a lease, and no second one for a lease; no
Namespace deleted that is not the lease's; no cluster followed by accident.

## Modules

| Module | Models |
|---|---|
| `LeaseTime` | the deadline arithmetic, as operators on a status record |
| `PolicyResolve` | `policy.Resolve`: defaults, minima, maxima and forced values, as operators (extends `LeaseTime`) |
| `LeaseReconcile` | one lease: the controller's worker, cache and queue, its clients, its policy, the cluster and the clock (extends `PolicyResolve`) |
| `LeaseLifecycle` | what the controller promises about a lease and its Namespaces: the abstract specification that `LeaseReconcile` implements |
| `ClusterPlacement` | several leases, workers and ClusterTargets: placement, outage windows, gates, the ClusterTarget controller |
| `NamespaceOwnership` | several leases, control clusters and remote clusters around one Namespace name |
| `SourceWebhook` | pull requests, their deliveries, generic requests, the webhook's handlers and the controller around one lease name |
| `LeaseReconcileProofs` | proofs about `LeaseReconcile`: types, order of the deadlines, finalizer; lemmas on its operators and steps |
| `LeaseRefinementProofs` | proof that it implements `LeaseLifecycle`, and what follows |
| `LeaseTeardownProofs` | proofs about the end of a lease; every step of `Reconcile` reduced to four kinds |
| `LeaseScheduleProofs` | proofs about what a `Reconcile` leaves behind: the next wake-up, the policy, the deadline |
| `LeaseLifecycleProofs`, `ClusterPlacementProofs`, `NamespaceOwnershipProofs`, `SourceWebhookProofs` | proofs about the module of the name |
| `MCLeaseReconcile`, `MCClusterPlacement`, `MCNamespaceOwnership` | instances for TLC |

### LeaseReconcile

`api` is the lease in the API server, `cache` the controller's copy of it, `ns`
the life cycle of each Namespace name, `nsCache` the copy of it in the manager's
informer, `w` the worker. A session of a local lease uses the manager's cached
client, one of a remote lease a client of its own without a cache (`SeenNs`). The program counter
`w.pc` names the next API call or clock reading of `Reconcile`; everything that
happens between two of them is one step, and every other action may come in
between. `w.obj` is the object as last read, `w.st` the status under
construction and `w.before` the status at the start, with which
`patchStatusIfChanged` compares.

* `Begin...` are the branches of `Reconcile` up to the first call after the
  `Get`; `Sync` and `CheckExpired` are two separate clock readings.
* `ResolveTarget` ... `Schedule` are `reconcileActive`; in it the `Get`
  (`KeepNamespace`, `NamespaceMissing`) and the `Create` (`CreateNamespace`) of
  the Namespace are two calls. `Cleanup...` are
  `cleanupEnvironment` with its two callers, `Patch...` is
  `patchStatusIfChanged`, then `RemoveFinalizer` and `DeleteLease`.
* `EditSpec`, `Expire`, `Touch...`, `Extend...` are the clients; a client that
  reads and writes in two calls is two actions.
* `CacheSync` is a watch event of the lease, `NamespaceSync` one of a local
  Namespace, `Resync` the informer's periodic one, `Crash` the loss of the
  process between two calls.

Abstractions, and why they are sound:

* The last `Get` and the `Delete` of `cleanupEnvironment` are one step; what can
  come between them is in `NamespaceOwnership`.
* An unreachable target fails at resolution, when its identity must be asked for,
  or at any later call; which of the two is left open.
* Time is in whole seconds, the precision in which the API server stores
  timestamps.
* `resourceVersion` is not a counter: an optimistic write fails exactly when the
  object it was prepared from differs from the stored one.
* The queue is controller-runtime's: one entry per key, the earliest time
  wins, taking the entry drops its timer. A rate-limited retry is immediate.
* `RequeueAfter: 0` is no requeue. A delay past `Horizon` ends at `Horizon`.
* A cached read may be older than the store only with the feature `"stale"`;
  the retries of `RetryOnConflict` run out only with `"exhausted"`.
* `observedGeneration`, events, metrics and the other conditions are written
  and never read back; they are left out.
* The three constraint objects count as one call that may fail.
* The webhook's `touch` is the plugin's, with a fresh clock reading for each
  attempt; every outcome of it is one of `TouchStart` and `TouchWrite`.
* Ownership checks, adoption and the force-cleanup annotation are in
  `NamespaceOwnership`, placement and shared targets in `ClusterPlacement`.

`policy` is the EnvironmentLeasePolicy that the lease refers to, or `Nil` while it
is missing. Reconcile resolves it once, after its `Get`, and works with the
result (`w.resolved`); `PolicyChange` may come at any later step. Without
policies in the instance the lease has no `policyRef` (`NoPolicy`).

### PolicyResolve

`Accepted` is the conjunction of all the checks that can end `Resolve` with an
error, `Resolve` the value otherwise; the code's order of checks only chooses the
message. `Nil` is an unset field. CPU and memory, of requests and of limits, are
compared with their ceilings in the same way and stand for one amount.

### LeaseLifecycle

Two variables: the lease (new, held by the finalizer, gone) and the life cycle of
each Namespace name. `Provision` needs the finalizer and no other Namespace,
`Release` needs that nothing is left. `LeaseReconcile` instantiates it with `lease`
derived from `api.exists` and `api.finalizer` and with its own `ns`; caches,
workers, status and time have no counterpart.

### ClusterPlacement

`Decide`, `Sticky`, `SelectFromCandidates` and `PickStable` are `placement.Decide`;
targets are numbers in the order of their names, since the code sorts by name
before it takes the hash. Whether a target's labels match is one Boolean.
`Begin...` are the outcomes of `resolveTargetSessionForProvision` (a violation,
Pending, an error, a window that is still open, an unresolvable target, a
session), which happen in memory before the first remote call. From there on a
worker makes one call per step: probe (none when the identity is on record; the
outage window is cleared after it), gate, write of the selection,
`ensureNamespace`, write of its name, constraints. `Persist` is an optimistic write
followed by a read. A worker waiting at a gate remains one of the
`MaxConcurrentReconciles`. `window` is what is left of a target's outage window;
only `handleTargetError` opens one (`Mark`). The controller of ClusterTargets reads
and writes in one step: its writes are optimistic, and a lease that begins to
refer to a target between the two is no worse off than one that does so after.
`Watching` is `mapClusterTarget`.

`CountActiveLeases` lists through the informer. `stalled` is what the list shows
from the moment the informer falls behind (`Stall`) until it catches up
(`Observe`); the whole list lags, not single leases. Users change `spec.clusterRef`
at any point (`Retarget`), since nothing makes it immutable. Two history variables
carry what properties need and no action reads: `unseen` keeps, for each selection,
the claims on the target that the count did not include, and `edits` whether a
clusterRef was changed before (`"early"`) or after (`"late"`) a worker was about to
create the Namespace.
 What operators and clusters do to a target (`LinkBreaks`,
`Disable`, `Relabel`, `DeleteTarget`) is bounded by `MaxEvents`; what undoes it is
free and never forced.

### NamespaceOwnership

Every lease wants the same Namespace name, with `spec.namespace.name` or after
drift. A cluster stands for its identity (the UID of its kube-system Namespace).
`points` is where the credentials of each control cluster's ClusterTarget lead,
`sticky` the identity that the ClusterTarget recorded. A session keeps the client
it was resolved with, so a swap in the middle of a Reconcile leaves that
Reconcile on the old cluster. The merge patch of `ensureExistingNamespace` sends
only the fields that differ from what was read, to whatever Namespace has the
name by then. The first provisioning persists the identity and then drops it
from its working copy, as the two re-reads in `reconcileActive` do.

### SourceWebhook

Pull requests of repositories in different organisations can have the same lease
name, and a generic client can ask for it; the module has one such name. `pr`,
`sent` and `net` are the senders' side: the state of each pull request, all
messages, and those under way. `h` are requests that are handled concurrently,
each at its next API call, with what it read before. A handler uses an uncached
client, so a read is current when it is made and old when it is used.
`EnsureGet`, `Create`, `Patch` are `ensureGitHubLease` with its callees, the first
two also `createLease`; `ExpireGet`, `MarkClosed`, `Delete` are
`expireGitHubLease`; `ExpireAnyGet` and `Delete` are `expireLease`. The controller
appears with the writes that concern the webhook, each a step: the finalizer, the
reason in the status, the removal of the finalizer after the last status write,
and the `Delete` by name after that. A lost, repeated or reordered message and a request
that ends early (API error, timeout, rejection by the policy) are faults. Message
IDs are numbered in the order of the events; `uid` counts the leases that have
had the name. Rejected signatures and tokens, other events and malformed payloads
end a request before any effect and are left out.

## Runs

| Run | Instance | Result |
|---|---|---|
| `lease_stale` | remote target, lagging cache, exhausted retries, touch, expire, one crash or outage; fixed name; ttl 3, idleTTL 2, horizon 3 | `TypeOK`, `DeadlinesOrdered`, `FinalizerHeldUntilNamespaceGone`, `CleanupIsFinal`, `TeardownJustified` hold |
| `lease_prompt` | prompt cache, edits between two specs, two policies that come, change and go, drift, expire, resync; generateName with two names | `NoOrphan`, `OneNamespace`, `ReadyHasNamespace`, `SettledObeysPolicy`, `NonRenewableNeverLater` hold, and `ImplementsLifecycle`: the specification implements `LeaseLifecycle` |
| `lease_remote` | remote target with an outage or a failing call, extend, one warning | `NeverUnscheduled` and, under fairness, `ExpiredIsCleaned` hold |
| `ownership_safe` | two leases of one name on two control clusters, two remote clusters, two faults | `TypeOK`, `NoOrphanOnRecordedCluster`, `DeletesOwn` and, under fairness, `CleanupEnds` hold |
| `source_webhook` | two repositories and generic requests for one lease name, two handlers, two messages, one fault, a lease from before or none | `TypeOK`, `ClosedIsHandled`, `SourceKept`, `ReasonKept` and, under fairness, `ClosedIsCleaned` hold |
| `placement` | two leases (by selector, or one with clusterRef; one with its policy's selector only), three targets with capacity 1, 1 and 0, one of them new, two workers, gates of one slot; one event: a trouble of target 1, a changed clusterRef of the first lease or a stalled list; the first lease may be deleted | `TypeOK`, `OverrunUnseen`, `EnvironmentWhereRecorded` and, under fairness, `Converges`, `CleanupConverges` hold |
| `lease_wakeup` | local lease, one Namespace deleted by hand | `NeverUnscheduled` violated |
| `lease_rejected` | the policy disappears; resyncs included | `ExpiredIsCleaned` violated |
| `lease_heartbeat` | touch beside one Reconcile | `HeartbeatNotLost` violated |
| `lease_generatename` | lagging cache, generateName | `OneNamespace` violated |
| `ownership_follow` | one credential swap | `NeverFollows` violated |
| `placement_drain` | one lease with clusterRef, one target that is deleted | `DrainedTargetGoes` violated |

The six violations are disagreements between the code and its own documents or
comments; the findings in `PROJECT.json` quote both sides.

* **Lost wake-up.** `NextReconcileAfter` returns 0 for "due now", and
  `reconcileActive` returns that 0 as `RequeueAfter`, which means never. It takes
  a deadline that passes while the Reconcile runs. Remote leases are polled and
  so escape it, which is why `lease_remote` passes.
* **Rejected leases do not expire.** The early returns for a missing or violated
  policy come before the expiry check, also for a lease that is provisioned.
* **Lost heartbeats.** The status written at the end of a Reconcile replaces the
  whole status, including a heartbeat stored meanwhile.
* **generateName leak.** The re-read after the persisted name may come from a
  cache that does not have it.
* **Following a swap.** Provisioning trusts the recorded identity and never
  compares it with the cluster that its client reaches.
* **A drain that waits for itself.** A ClusterTarget that is being deleted waits
  for the leases that refer to it; `ResolveNamedTarget` refuses such a target, so
  the cleanup of a lease that is drained afterwards is blocked. `BestEffort`, the
  force-cleanup acknowledgement or a finalizer removed by hand releases it, and
  leaves the Namespace.

What the passing runs exclude on purpose, because the code does not provide it:

* `FinalizerHeldUntilNamespaceGone` is checked for a remote lease. The Namespace
  `Get` of a local one (`environmentlease_controller.go:744`) reads an informer,
  and one that lags behind the creation reports NotFound: the finalizer then goes
  while the Namespace is live. With `Remote = FALSE` the instance of
  `lease_stale` violates the property in this way.
* `NoOrphan`, `OneNamespace` and `ImplementsLifecycle` are checked with prompt
  caches: with lagging ones a delayed `touch`, an edit or an extension can
  revive a lease that is being cleaned up, and a Namespace is then created for a
  lease that has gone. `NonRenewableNeverLater` needs a prompt cache as well, when
  the spec is edited.
* A crash between the creation of a Namespace and the write of its name. With
  generateName a second Namespace follows; if the lease is deleted then,
  `cleanupEnvironment` is done at once (`status.namespace` is empty, line 696) and
  the Namespace stays. So `lease_prompt` has no crash, and `NoOrphan` does not
  claim that case. For the same reason `NoOrphanOnRecordedCluster` and
  `EnvironmentWhereRecorded` have neither a crash nor a lost answer between the
  `Create` (line 840) and the status write (line 296).
* `EnvironmentWhereRecorded` excludes leases whose clusterRef is changed once a
  worker is about to create their Namespace (see the observations).
* `DeletesOwn` speaks of the Namespace that was verified: one that takes its
  name between the `Get` and the `Delete` is deleted with it, since `Delete` has no
  precondition. Nor does it see a Namespace whose UID the patch of
  `ensureExistingNamespace` overwrote. `NoOrphanOnRecordedCluster` speaks of leases that
  know the identity of their cluster.
* A lease that takes the name between the webhook's `Get` and its `Delete` is
  deleted, whatever repository it is of; no property denies it.
* `ReasonKept` speaks of cleanups whose Reconcile began after the deletion: one
  that read the lease before still replaces `SourceClosed` with its whole-status
  write. `SourceKept` excludes handlers that read a lease without a repository: two
  of them can move it from one repository to the other, because the merge patch
  carries no resourceVersion. `ClosedIsHandled` and `ClosedIsCleaned` speak of
  deliveries that arrive once and in order and of requests that are not cut off.
* `Converges` and `CleanupConverges` ask for a target that is well again and again;
  a target that was deleted with leases placed on it by selector (only `clusterRef`
  holds it) leaves them blocked.

### Observations without a run

Reading the code for the model brought up the following; each is visible in the
model, none has a run of its own.

* `Resolve` replaces an unset maxTTL by ttl after the bounds were checked, so a
  policy with `maxTTL.maximum` and no default does not bound it; the theorem
  `UnsetMaxTTLEscapesItsMaximum` exhibits it, `environmentleasepolicy_types.go:30`
  says "Lease values above this are rejected". In the same way a defaulted maxTTL
  may exceed `ttl.maximum`, where an explicit one is rejected (`resolve.go:98-104`).
* `renewable.force: false` without a default rejects leases that leave renewable
  unset, since the built-in default is true.
* `extend` can raise ttl above `ttl.maximum` while maxTTL allows it; the lease is
  then rejected and, as in `lease_rejected`, never cleaned up.
* A clusterRef that is changed, or set, for a provisioned lease moves it: `Decide` takes
  the clusterRef before it looks at `status.namespace` (`decide.go:102-111`), a second
  Namespace is created on the new cluster, and cleanup, which follows the clusterRef
  too (line 443 of the controller), never sees the first. The comment of `Decide`
  says "never migrate" of provisioned leases (`decide.go:71`, as its second rule), and
  `docs/multicluster.md:228` advises to "retarget leases" before a target is deleted.
  Without the condition on `edits`, `placement` violates `EnvironmentWhereRecorded`.
* `CountActiveLeases` reads the informer's list, so even a single worker can place a
  second lease on a full target.
* The gate has as many slots as the controller has workers by default, and a
  worker that waits at a gate is not free for another target, against
  `docs/design-decisions.md:93-95`.
* Only `handleTargetError` opens an outage window. A target that is offline but
  has a recorded identity still resolves, which clears the window, so its leases
  find the outage one by one, against `outage.go:23-24`.
* The GitHub delivery ID is an annotation of the lease and is forgotten with it:
  "opened", delivered again after the lease has gone, creates an environment
  that no later delivery ends, against `docs/github-integration.md:44`. A `Create` that
  loses against another repository's is answered 200, not 409.

### Bounds

`Horizon` is the time of the last deadline, so expiry, renewal and every order
of two deadlines happen; nothing new happens after it but waiting. Two names
show a second Namespace; a third adds nothing. `MaxFaults` bounds crashes, failed
calls, outages, policy losses and deletions by hand: one is enough to interrupt
a lease at every step, two in `NamespaceOwnership` allow a swap with a
replacement, or a swap there and back. Two leases are what a conflict needs.
In `SourceWebhook` every history that matters is two messages after an initial
lease that is new, of another repository, of none, or left over from a close that
was lost (which counts as the fault). In `ClusterPlacement` two leases and two
workers are what a race of placements needs, a gate of one slot makes one worker
wait, windows of 2 to 3 let one be extended up to its limit, three targets leave a
choice when one fails, and one event of each kind on target 1, at any step,
followed by its repair at any step or never, covers every interruption of a
placement. One change of a clusterRef, or one stretch in which the list of the
leases stands still, counts as the event; `Handled` says which lease users delete
and retarget. Events on several targets at once are beyond the instance.
Two policies and a missing one let a lease be accepted by one and not by the
other, or resolved differently by both.
`CHECK_DEADLOCK FALSE` is right in all runs: a lease that has been removed leaves
nothing to do.

### Fairness

`FairSpec` of `LeaseReconcile` assumes that the worker keeps running, the
informers catch up and resync (when the instance has resyncs), the clock
advances, terminating Namespaces end, and an unreachable target comes back.
These are what a running controller, an API server and a repaired cluster
provide. No client, crash, failure or policy change is ever forced.
`FairSpec` of `NamespaceOwnership` assumes that a Reconcile under way goes on,
that a cleanup that is not finished is requeued (`cleanupRequeueAfter`,
`targetUnavailableAfter`), and that terminating Namespaces end.
`FairSpec` of `SourceWebhook` assumes that a message whose turn it is is received
when a handler is idle, that handlers and the controller go on, and, by strong
fairness of `CleanupDone`, that one of the rounds of a cleanup finds the
Namespace gone.
`FairSpec` of `ClusterPlacement` assumes that workers run, that ClusterTargets are
reconciled (at intervals of `clusterTargetHealthAfter` and on events), that the
informer of the leases catches up and that time passes. The fairness of a lease's Reconcile is strong, because a lease due
in the queue, or a worker at a gate, is disabled again and again while others use
the worker or the slot: the work queue and Go's channels serve in order. Repairs
of links, labels and `enabled` are not forced; the properties speak of targets
that are well.

## Proofs

Every invariant and every action property that a passing run checks is also
proved, for all values of the constants that satisfy the named assumptions
(any number of names, specs, policies, leases, targets, clusters, handlers and
messages, any warnings, horizons and bounds). The runs show that the same
formulas can fail: each has a mutant that violates it.

| Theorem | States | Module | Hypothesis |
|---|---|---|---|
| `TypeCorrect` | `[]TypeOK` | `LeaseReconcileProofs` | |
| `DeadlinesStayOrdered` | `[]DeadlinesOrdered` | `LeaseReconcileProofs` | |
| `FinalizerSafe` | `FinalizerHeldUntilNamespaceGone` | `LeaseReconcileProofs` | the lease is remote, or no lagging reads |
| `LifecycleImplemented` | `ImplementsLifecycle` | `LeaseRefinementProofs` | `PromptCache` |
| `NothingOrphaned` | `[]NoOrphan` | `LeaseRefinementProofs` | `PromptCache` |
| `NeverTwoNamespaces` | `[]OneNamespace` | `LeaseRefinementProofs` | `PromptCache` |
| `ReadyIsNamed` | `[]ReadyHasNamespace` | `LeaseRefinementProofs` | `PromptReads` |
| `TeardownIsJustified` | `TeardownJustified` | `LeaseTeardownProofs` | |
| `CleanupNeverTakenBack` | `CleanupIsFinal` | `LeaseTeardownProofs` | |
| `AlwaysScheduled` | `[]NeverUnscheduled` | `LeaseScheduleProofs` | the lease is remote |
| `PolicyObeyed` | `[]SettledObeysPolicy` | `LeaseScheduleProofs` | |
| `NeverRenewed` | `NonRenewableNeverLater` | `LeaseScheduleProofs` | no lagging reads |
| `LifecycleBracketed` | `[](LTypeOK /\ Bracketed)` | `LeaseLifecycleProofs` | |
| `PlacementTypes` | `[]TypeOK` | `ClusterPlacementProofs` | |
| `EnvironmentsRecorded` | `[]EnvironmentWhereRecorded` | `ClusterPlacementProofs` | |
| `CapacityOverrunUnseen` | `[]OverrunUnseen` | `ClusterPlacementProofs` | |
| `OwnershipTypes` | `[]TypeOK` | `NamespaceOwnershipProofs` | |
| `NothingLeftBehind` | `[]NoOrphanOnRecordedCluster` | `NamespaceOwnershipProofs` | |
| `OnlyOwnDeleted` | `DeletesOwn` | `NamespaceOwnershipProofs` | |
| `WebhookTypes` | `[]TypeOK` | `SourceWebhookProofs` | |
| `RepositoryKept` | `SourceKept` | `SourceWebhookProofs` | |
| `ReasonPreserved` | `ReasonKept` | `SourceWebhookProofs` | |
| `ClosedPullRequestsHandled` | `[]ClosedIsHandled` | `SourceWebhookProofs` | |

### The hypotheses

A hypothesis restricts the features of the instance, and an instance that
satisfies it is one of the passing runs.

* `PromptCache`: no lagging reads, no exhausted retries, no crash, and cleanup
  does not give up on an unreachable target (`BestEffort`). Without the first,
  `lease_generatename` violates `OneNamespace`; a crash, or a status write that
  fails for good, between the creation of a generated Namespace and the write of
  its name leaves a second one; `BestEffort` is meant to leave a Namespace behind.
* `PromptReads`: only the lagging reads are excluded; crashes and exhausted
  retries are not.
* `FinalizerSafe`: a remote lease, or no lagging reads. It is about the Namespace
  `Get` of cleanup, which is cached for a local lease; lagging reads of the lease
  itself, crashes, outages and exhausted retries are included.
* `AlwaysScheduled`: the lease is remote, since `lease_wakeup` violates
  `NeverUnscheduled` for a local one.
* `NeverRenewed` excludes lagging reads: a Reconcile that began with an older
  spec and an older deadline would store that deadline again.

`SettledObeysPolicy` needs no hypothesis, although `lease_prompt` checks it with a
prompt cache: every write of the worker that changes the terms of a lease brings
an event, and with it another Reconcile, before the lease is at rest again.

### The inductive invariants

None of the properties is inductive as it stands. The strengthenings, each of
which TLC checked before it was proved:

* `IInv` (`Invariant`). A status is derived from the object that the worker read,
  with durations that were checked steps earlier, and is written from one copy
  of the lease to another. `IInv` asks for types and order in every status that
  exists anywhere (stored, cached, read, under construction, at the start), and,
  while the worker is between the validation and `EnsureTimestamps`, for valid
  durations in what it resolved (`ResolveOK`). `CleanupHolds` adds, for Namespace reads
  that are up to date (`FreshNs`), that the Namespace that cleanup found gone stays
  gone until the finalizer is removed, because only the worker creates Namespaces.
* `HInv` (`HeldInvariant`). While Reconcile is between the addition and the removal
  of the finalizer the lease is stored under it; the worker's status names the
  Namespace that the stored one names, or one that it has just created and not
  recorded; and every Namespace there is, is one of these. From it each step of
  `LeaseReconcile` maps to a step of `LeaseLifecycle` or to none.
* `ReadyInv`. Past `ensureNamespace` the working status has a name, and so has the
  stored one when it is read again.
* `TInv` (`TeardownInvariant`). Once the reason of `reconcileDelete` is in any copy of
  the status, every Reconcile is one of `reconcileDelete`; the deadline that
  `IsExpired` compares is the one derived from the object that was read, at any
  time (`DeadlineFixed`).
* `SInv` (`ScheduleInvariant`). A Reconcile that returns without a requeue has stored
  a status that is not Ready or found one in the cache; `SameStart` ties the cache
  to what the Reconcile started from while no event has come.
* `PolicyInv` (`PolicyInvariant`). While a Reconcile runs, an event is either due or has
  not come; as long as none has, the worker has the cached lease and what this
  resolves to now, so the terms it works out are the right ones. The exception,
  a re-read that returns the older lease, is covered by `TermsRight`: the stored terms
  then differ from the cached ones, and an event is on its way.
* `NotLater`. From `Resolve` to its last write a Reconcile of a non-renewable lease has
  a deadline that is not later than the stored one.
* `PInv` (`PlacementInvariant`). Per lease: what is stored, what the worker has
  selected and where Namespaces are agree (`StoredOK`, `WorkerOK`, `OnTarget`). What
  depends on the clusterRef is claimed while it was not changed late (`Kept`): an
  early change makes the write of the selection fail by its conflict, so no worker
  reaches `ensureNamespace` with the older reference.
* `ClaimsUnseen` (`ClaimsAreUnseen`). `OverrunUnseen` counts stored selections; the
  invariant counts those about to be stored too, and is stated for every subset
  of them, since leases leave in any order. A claim is new only in the step that
  decides it, when the counted ones are below the capacity; every other claim of
  that moment is in the `unseen` of the new one.
* `OInv` (`OwnershipInvariant`). No worker runs for a lease that is not there, an
  identity without a name is recorded only while the first provisioning runs, and
  a cleanup past the probe works on the recorded cluster.
* `WInv` (`WebhookInvariant`). What handlers and the controller hold between two calls:
  a handler past its check has read a lease of its own repository or of none, and
  a controller that read a deletion has read `SourceClosed` if it is there.
* `QInv` (`ClosingsSettle`). Messages are numbered as they are sent; without a fault the
  closing of a closed pull request is the last message of its repository that is
  under way, or is the only one that a handler has, or there is no live lease of
  the repository and no message of it (`Settled`).

### How the proofs are laid out

The lemmas on operators come first (`EnsureTimestampsOrdered`, `SyncExpirationStatusOK`,
`NextReconcileAfterType` by well-founded induction on the naturals, `SyncedTerms`, ...),
then the fields that a step of the worker leaves alone, then one lemma per group
of actions. In `LeaseTeardownProofs` every step of `Reconcile` is shown to be one of
four kinds (`Starts`, `Rereads`, `Advances`, `Returns`) and every other step to be
`Elsewhere`; the later invariants are proved by kind, not by action. In
`ClusterPlacementProofs`, `RankExists` shows that the rank by which `PickStable` chooses is
taken by some candidate: the number of smaller candidates is an injection of a
finite set into an interval of its size, hence onto it. This is what
`PlacementAssumption` asks for finite sets of leases and targets for; the
cardinalities of `OverrunUnseen` need it as well.

`UnsetMaxTTLEscapesItsMaximum` and its counterpart `PolicyLimitsHold` are about `Resolve`
alone: the limits of a policy hold for ttl and for every maxTTL that the lease or
a default sets, and for no other.

### Only model-checked

The liveness properties `ExpiredIsCleaned`, `CleanupEnds`, `ClosedIsCleaned`, `Converges` and
`CleanupConverges`: fairness and `ENABLED` are beyond the prover. The six violations
are shown by TLC's counterexamples.

## Not modelled

Webhook authentication (a comparison of bytes), metrics, printing, flag parsing,
the contents of quotas, limits and network policies, generated code, and the
client cache of `remote/provider.go`, whose key is a fingerprint of what a client is
built from. The derivation of a lease name from a pull request
(`github_identity.go`) is reduced to names that collide.

## Plan

The safety properties of the runs are proved. What is left:

1. Safety facts without a run that the proofs have brought into reach, such as
   warnings that are delivered at most once, or the outage windows of
   `ClusterPlacement` seen from one target.
2. The liveness properties by hand: the invariants above are what their
   arguments need, but no prover at hand checks the temporal steps.
3. The remaining parts marked "partly" in `PROJECT.json`: protected names in
   `NamespaceOwnership`, selectors beyond one Boolean in `ClusterPlacement`.
