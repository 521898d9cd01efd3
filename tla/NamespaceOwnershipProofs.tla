---------------------- MODULE NamespaceOwnershipProofs ----------------------
(***************************************************************************)
(* Machine-checked proofs about NamespaceOwnership, for every number of    *)
(* leases, control clusters, remote clusters and faults.                   *)
(***************************************************************************)
EXTENDS NamespaceOwnership, TLAPS

-----------------------------------------------------------------------------
(* The inductive invariant                                                 *)

\* A Namespace that is not there has no owner.
SpaceInv == \A c \in Clusters : space[c].state = "none" => space[c].uid = Nil

\* A lease and the worker v that reconciles it: no worker runs for a lease
\* that is not there, an identity is recorded before status.namespace only
\* while the first provisioning is under way (whose working copy knows none),
\* and a cleanup that has passed the probe works on the recorded cluster, on a
\* Namespace with the lease's UID.
WorkerInv(l, obj, v) ==
    /\ obj.state \in {"absent", "gone"} => v.pc = "idle"
    /\ ~obj.placed => v.identity = Nil
    /\ ~obj.placed /\ v.pc = "idle" => obj.identity = Nil
    /\ v.pc \in {"cleanupGet", "cleanupDelete"} =>
          obj.state = "deleting" /\ obj.placed /\ obj.identity \in {Nil, v.sess}
    /\ v.pc = "cleanupDelete" => v.found.uid = l

OInv ==
    /\ TypeOK
    /\ SpaceInv
    /\ \A l \in Leases : WorkerInv(l, lease[l], w[l])
    /\ NoOrphanOnRecordedCluster

-----------------------------------------------------------------------------
(* Steps                                                                   *)

\* The constants of the module have their types.
LEMMA ConstantTypes ==
    /\ NoLease \in LeaseObject /\ NoNamespace \in Namespace /\ Unmanaged \in Namespace
    /\ NoNamespace.state = "none" /\ NoNamespace.uid = Nil
    /\ Unmanaged.state = "active" /\ Unmanaged.uid = Nil
    /\ Resting \in Worker /\ Resting.pc = "idle" /\ Resting.identity = Nil
<1>1. NoLease \in LeaseObject
  BY DEF NoLease, LeaseObject
<1>2. NoNamespace \in Namespace /\ NoNamespace.state = "none" /\ NoNamespace.uid = Nil
  BY DEF NoNamespace, Namespace
<1>3. Unmanaged \in Namespace /\ Unmanaged.state = "active" /\ Unmanaged.uid = Nil
  BY <1>2 DEF Unmanaged, Namespace
<1>4. Resting \in Worker /\ Resting.pc = "idle" /\ Resting.identity = Nil
  BY <1>2, OwnershipAssumption DEF Resting, Worker
<1>5. QED
  BY <1>1, <1>2, <1>3, <1>4

\* What OInv says of one lease and its worker.
LEMMA Parts ==
    ASSUME OInv, NEW l \in Leases
    PROVE  /\ lease[l] \in LeaseObject /\ w[l] \in Worker /\ WorkerInv(l, lease[l], w[l])
           /\ w[l].sess \in Clusters /\ w[l].found \in Namespace
           /\ w[l].identity \in Clusters \cup {Nil}
           /\ lease[l].identity \in Clusters \cup {Nil} /\ lease[l].placed \in BOOLEAN
           /\ space[w[l].sess] \in Namespace
           /\ Target(l) \in Clusters /\ sticky[ControlOf[l]] \in Clusters \cup {Nil}
           /\ lease \in [Leases -> LeaseObject] /\ w \in [Leases -> Worker]
           /\ space \in [Clusters -> Namespace]
<1>1. /\ lease \in [Leases -> LeaseObject] /\ w \in [Leases -> Worker]
      /\ space \in [Clusters -> Namespace] /\ points \in [Controls -> Clusters]
      /\ sticky \in [Controls -> Clusters \cup {Nil}] /\ WorkerInv(l, lease[l], w[l])
  BY DEF OInv, TypeOK
<1>2. lease[l] \in LeaseObject /\ w[l] \in Worker
  BY <1>1
<1>3. /\ w[l].sess \in Clusters /\ w[l].found \in Namespace
      /\ w[l].identity \in Clusters \cup {Nil}
  BY <1>2 DEF Worker
<1>4. lease[l].identity \in Clusters \cup {Nil} /\ lease[l].placed \in BOOLEAN
  BY <1>2 DEF LeaseObject
<1>5. Target(l) \in Clusters /\ sticky[ControlOf[l]] \in Clusters \cup {Nil}
  BY <1>1, OwnershipAssumption DEF Target
<1>6. QED
  BY <1>1, <1>2, <1>3, <1>4, <1>5

\* A step of the worker of l, or of a user on l: the lease becomes obj, the
\* worker v, and no Namespace gets the UID of another lease.
LEMMA LeaseStep ==
    ASSUME OInv, NEW l \in Leases, NEW obj \in LeaseObject, NEW v \in Worker,
           lease' = [lease EXCEPT ![l] = obj], w' = [w EXCEPT ![l] = v],
           UNCHANGED <<points, sticky, faults>>,
           space' \in [Clusters -> Namespace], SpaceInv', WorkerInv(l, obj, v),
           \A m \in Leases \ {l}, c \in Clusters : space'[c].uid = m => space[c].uid = m,
           obj.state = "gone" /\ ~obj.ack /\ obj.identity # Nil
               => space'[obj.identity].uid # l
    PROVE  OInv'
<1>1. /\ lease \in [Leases -> LeaseObject] /\ w \in [Leases -> Worker]
  BY DEF OInv, TypeOK
<1>2. TypeOK'
  BY <1>1 DEF OInv, TypeOK
<1>3. \A m \in Leases : /\ m # l => lease'[m] = lease[m] /\ w'[m] = w[m]
                        /\ m = l => lease'[m] = obj /\ w'[m] = v
  BY <1>1
<1>4. \A m \in Leases : WorkerInv(m, lease'[m], w'[m])
  BY <1>3 DEF OInv
<1>5. NoOrphanOnRecordedCluster'
  <2> SUFFICES ASSUME NEW m \in Leases,
                      lease'[m].state = "gone", ~lease'[m].ack, lease'[m].identity # Nil
               PROVE  space'[lease'[m].identity].uid # m
    BY DEF NoOrphanOnRecordedCluster
  <2>1. CASE m = l
    BY <1>3, <2>1
  <2>2. CASE m # l
    <3>1. lease[m].identity \in Clusters
      BY <1>3, <2>2, Parts
    <3>2. QED
      BY <1>3, <2>2, <3>1 DEF OInv, NoOrphanOnRecordedCluster
  <2>3. QED
    BY <2>1, <2>2
<1>6. QED
  BY <1>2, <1>4, <1>5 DEF OInv

\* ... that leaves the clusters alone.
LEMMA QuietStep ==
    ASSUME OInv, NEW l \in Leases, NEW obj \in LeaseObject, NEW v \in Worker,
           lease' = [lease EXCEPT ![l] = obj], w' = [w EXCEPT ![l] = v],
           UNCHANGED <<space, points, sticky, faults>>, WorkerInv(l, obj, v),
           obj.state = "gone" /\ ~obj.ack /\ obj.identity # Nil
               => space[obj.identity].uid # l
    PROVE  OInv'
<1>1. SpaceInv' /\ space' \in [Clusters -> Namespace]
  BY DEF OInv, SpaceInv, TypeOK
<1>2. QED
  BY <1>1, LeaseStep

\* Return of a worker that provisions.
LEMMA ReturnStep ==
    ASSUME OInv, NEW l \in Leases, w[l].pc \in {"get", "create", "patch", "record"},
           NEW placed \in BOOLEAN, lease[l].placed => placed, Return(l, placed),
           UNCHANGED <<space, points, sticky, faults>>
    PROVE  OInv'
<1> DEFINE obj == [lease[l] EXCEPT !.identity = w[l].identity, !.placed = placed]
<1>1. /\ lease[l] \in LeaseObject /\ w[l] \in Worker /\ WorkerInv(l, lease[l], w[l])
      /\ w[l].identity \in Clusters \cup {Nil}
      /\ lease \in [Leases -> LeaseObject]
      /\ Resting \in Worker /\ Resting.pc = "idle" /\ Resting.identity = Nil
  BY Parts, ConstantTypes
<1>2. lease' = [lease EXCEPT ![l] = obj] /\ w' = [w EXCEPT ![l] = Resting]
  BY <1>1 DEF Return
<1>3. /\ obj \in LeaseObject /\ obj.identity = w[l].identity /\ obj.placed = placed
      /\ obj.state = lease[l].state
  BY <1>1 DEF LeaseObject
<1> HIDE DEF obj
<1>4. obj.state \notin {"absent", "gone"}
  BY <1>1, <1>3 DEF WorkerInv
<1>5. WorkerInv(l, obj, Resting)
  BY <1>1, <1>3, <1>4 DEF WorkerInv
<1>6. QED
  BY <1>1, <1>2, <1>3, <1>4, <1>5, QuietStep

\* A worker that provisions goes on, with the Namespace f that it read.
LEMMA GotoStep ==
    ASSUME OInv, NEW l \in Leases, w[l].pc \in {"get", "create", "patch", "record"},
           NEW pc \in {"create", "patch", "record"}, NEW f \in Namespace,
           w' = [w EXCEPT ![l].pc = pc, ![l].found = f],
           UNCHANGED <<lease, points, sticky, faults>>,
           space' \in [Clusters -> Namespace], SpaceInv',
           \A m \in Leases \ {l}, c \in Clusters : space'[c].uid = m => space[c].uid = m
    PROVE  OInv'
<1> DEFINE v == [w[l] EXCEPT !.pc = pc, !.found = f]
<1>1. /\ lease[l] \in LeaseObject /\ w[l] \in Worker /\ WorkerInv(l, lease[l], w[l])
      /\ lease \in [Leases -> LeaseObject] /\ w \in [Leases -> Worker]
  BY Parts
<1>2. lease' = [lease EXCEPT ![l] = lease[l]] /\ w' = [w EXCEPT ![l] = v]
  BY <1>1
<1>3. v \in Worker /\ v.pc = pc /\ v.identity = w[l].identity
  BY <1>1 DEF Worker
<1> HIDE DEF v
<1>4. lease[l].state # "gone"
  BY <1>1 DEF WorkerInv
<1>5. WorkerInv(l, lease[l], v)
  BY <1>1, <1>3 DEF WorkerInv
<1>6. QED
  BY <1>1, <1>2, <1>3, <1>4, <1>5, LeaseStep

\* Goto is a special case.
LEMMA GotoFound ==
    ASSUME OInv, NEW l \in Leases, NEW pc, Goto(l, pc)
    PROVE  w' = [w EXCEPT ![l].pc = pc, ![l].found = w[l].found]
<1>1. w \in [Leases -> Worker] /\ w[l] \in Worker
  BY Parts
<1>2. [w[l] EXCEPT !.pc = pc] = [w[l] EXCEPT !.pc = pc, !.found = w[l].found]
  BY <1>1 DEF Worker
<1>3. QED
  BY <1>1, <1>2 DEF Goto

\* The stamps of a lease name itself.
LEMMA StampType ==
    ASSUME NEW l \in Leases, NEW i \in Clusters \cup {Nil}
    PROVE  Stamp(l, i) \in Namespace /\ Stamp(l, i).uid = l /\ Stamp(l, i).state = "active"
BY OwnershipAssumption DEF Stamp, Namespace

\* Provisioning preserves the invariant.
LEMMA ProvisionPreserves ==
    ASSUME OInv, NEW l \in Leases, Provision(l)
    PROVE  OInv'
<1>1. /\ lease[l] \in LeaseObject /\ w[l] \in Worker /\ WorkerInv(l, lease[l], w[l])
      /\ w[l].sess \in Clusters /\ w[l].found \in Namespace
      /\ w[l].identity \in Clusters \cup {Nil}
      /\ lease[l].identity \in Clusters \cup {Nil} /\ lease[l].placed \in BOOLEAN
      /\ space[w[l].sess] \in Namespace
      /\ Target(l) \in Clusters /\ sticky[ControlOf[l]] \in Clusters \cup {Nil}
      /\ lease \in [Leases -> LeaseObject] /\ w \in [Leases -> Worker]
      /\ space \in [Clusters -> Namespace] /\ NoNamespace \in Namespace
  BY Parts, ConstantTypes
<1>2. SpaceInv
  BY DEF OInv
<1>3. UNCHANGED space => SpaceInv' /\ space' \in [Clusters -> Namespace]
  BY <1>1, <1>2 DEF SpaceInv
<1>4. CASE Resolve(l)
  <2> DEFINE known == IF sticky[ControlOf[l]] # Nil THEN sticky[ControlOf[l]]
                      ELSE lease[l].identity
             identity == IF known # Nil THEN known ELSE Target(l)
             obj == [lease[l] EXCEPT !.identity = IF lease[l].placed THEN @ ELSE identity]
             v == [pc |-> "get", sess |-> Target(l),
                   identity |-> IF lease[l].placed THEN identity ELSE Nil,
                   found |-> NoNamespace]
  <2>1. /\ lease[l].state = "live"
        /\ lease' = [lease EXCEPT ![l].identity = IF lease[l].placed THEN @ ELSE identity]
        /\ w' = [w EXCEPT ![l] = v] /\ UNCHANGED <<space, points, sticky, faults>>
    BY <1>4 DEF Resolve
  <2>2. identity \in Clusters \cup {Nil}
    BY <1>1
  <2> HIDE DEF known, identity
  <2>3. lease' = [lease EXCEPT ![l] = obj]
    BY <1>1, <2>1
  <2>4. /\ obj \in LeaseObject /\ obj.state = "live" /\ obj.placed = lease[l].placed
    BY <1>1, <2>1, <2>2 DEF LeaseObject
  <2>5. v \in Worker /\ v.pc = "get" /\ (~lease[l].placed => v.identity = Nil)
    BY <1>1, <2>2 DEF Worker
  <2> HIDE DEF obj, v
  <2>6. WorkerInv(l, obj, v)
    BY <2>4, <2>5 DEF WorkerInv
  <2>7. QED
    BY <2>1, <2>3, <2>4, <2>5, <2>6, QuietStep
<1>5. CASE EnsureGet(l)
  <2> DEFINE n == space[w[l].sess]
  <2>1. w[l].pc = "get" /\ UNCHANGED <<space, points, sticky, faults>>
    BY <1>5 DEF EnsureGet
  <2>2. CASE Return(l, lease[l].placed)
    BY <1>1, <2>1, <2>2, ReturnStep
  <2>3. ASSUME NEW pc \in {"create", "record"}, Goto(l, pc), UNCHANGED lease
        PROVE  OInv'
    <3>1. w' = [w EXCEPT ![l].pc = pc, ![l].found = w[l].found]
      BY <2>3, GotoFound
    <3>2. QED
      BY <1>1, <1>3, <2>1, <2>3, <3>1, GotoStep
  <2>4. CASE w' = [w EXCEPT ![l].pc = "patch", ![l].found = n] /\ UNCHANGED lease
    BY <1>1, <1>3, <2>1, <2>4, GotoStep
  <2>5. QED
    BY <1>5, <2>2, <2>3, <2>4 DEF EnsureGet
<1>6. CASE EnsureCreate(l)
  <2>1. w[l].pc = "create" /\ UNCHANGED <<points, sticky, faults>>
    BY <1>6 DEF EnsureCreate
  <2>2. CASE Return(l, lease[l].placed) /\ UNCHANGED space
    BY <1>1, <2>1, <2>2, ReturnStep
  <2>3. CASE /\ space' = [space EXCEPT ![w[l].sess] = Stamp(l, w[l].identity)]
             /\ Goto(l, "record") /\ UNCHANGED lease
    <3>1. space' \in [Clusters -> Namespace] /\ SpaceInv'
      BY <1>1, <1>2, <2>3, StampType DEF SpaceInv
    <3>2. \A m \in Leases \ {l}, c \in Clusters : space'[c].uid = m => space[c].uid = m
      BY <1>1, <2>3, StampType
    <3>3. w' = [w EXCEPT ![l].pc = "record", ![l].found = w[l].found]
      BY <2>3, GotoFound
    <3>4. QED
      BY <1>1, <2>1, <2>3, <3>1, <3>2, <3>3, GotoStep
  <2>4. QED
    BY <1>6, <2>2, <2>3 DEF EnsureCreate
<1>7. CASE EnsurePatch(l)
  <2> DEFINE n == space[w[l].sess]
             old == w[l].found
             new == Wanted(l, old)
             res == [f \in DOMAIN n |-> IF old[f] = new[f] THEN n[f] ELSE new[f]]
  <2>1. w[l].pc = "patch" /\ UNCHANGED <<points, sticky, faults>>
    BY <1>7 DEF EnsurePatch
  <2>2. CASE Return(l, lease[l].placed) /\ UNCHANGED space
    BY <1>1, <2>1, <2>2, ReturnStep
  <2>3. CASE /\ space[w[l].sess].state # "none"
             /\ space' = [space EXCEPT ![w[l].sess] = res]
             /\ Goto(l, "record") /\ UNCHANGED lease
    <3>1. n \in Namespace /\ old \in Namespace
      BY <1>1
    <3>2. new \in Namespace /\ new.uid = l /\ new.state = old.state
      <4> DEFINE i == IF w[l].identity = Nil THEN old.identity ELSE w[l].identity
      <4>1. i \in Clusters \cup {Nil} /\ old.state \in {"none", "active", "terminating"}
        BY <1>1, <3>1 DEF Namespace
      <4>2. new = [Stamp(l, i) EXCEPT !.state = old.state]
        BY DEF Wanted
      <4> HIDE DEF i, old, new
      <4>3. Stamp(l, i) \in Namespace /\ Stamp(l, i).uid = l
        BY <4>1, StampType
      <4>4. QED
        BY <4>1, <4>2, <4>3 DEF Namespace
    <3> HIDE DEF n, old, new
    <3>3. res \in Namespace /\ res.uid \in {n.uid, l} /\ res.state = n.state
      BY <3>1, <3>2 DEF Namespace
    <3>4. space' \in [Clusters -> Namespace] /\ SpaceInv'
      BY <1>1, <1>2, <2>3, <3>3 DEF SpaceInv, n
    <3>5. \A m \in Leases \ {l}, c \in Clusters : space'[c].uid = m => space[c].uid = m
      BY <1>1, <2>3, <3>3 DEF n
    <3>6. w' = [w EXCEPT ![l].pc = "record", ![l].found = w[l].found]
      BY <2>3, GotoFound
    <3>7. QED
      BY <1>1, <2>1, <2>3, <3>4, <3>5, <3>6, GotoStep
  <2>4. QED
    BY <1>7, <2>2, <2>3 DEF EnsurePatch
<1>8. CASE Record(l)
  <2>1. /\ w[l].pc = "record" /\ Return(l, TRUE)
        /\ UNCHANGED <<space, points, sticky, faults>>
    BY <1>8 DEF Record
  <2>2. QED
    BY <1>1, <2>1, ReturnStep
<1>9. QED
  BY <1>4, <1>5, <1>6, <1>7, <1>8 DEF Provision

\* Cleanup preserves the invariant: the finalizer goes when nothing was
\* provisioned (and no identity recorded), when the operator acknowledged, or
\* when the recorded cluster has no Namespace of the name.
LEMMA CleanupPreserves ==
    ASSUME OInv, NEW l \in Leases, Cleanup(l)
    PROVE  OInv'
<1>1. /\ lease[l] \in LeaseObject /\ w[l] \in Worker /\ WorkerInv(l, lease[l], w[l])
      /\ w[l].sess \in Clusters /\ w[l].found \in Namespace
      /\ lease[l].identity \in Clusters \cup {Nil}
      /\ space[w[l].sess] \in Namespace /\ Target(l) \in Clusters
      /\ lease \in [Leases -> LeaseObject] /\ w \in [Leases -> Worker]
      /\ space \in [Clusters -> Namespace]
      /\ Resting \in Worker /\ Resting.pc = "idle" /\ Resting.identity = Nil
  BY Parts, ConstantTypes
<1>2. SpaceInv
  BY DEF OInv
<1>3. ASSUME Release(l), UNCHANGED <<space, points, sticky, faults>>,
             \/ lease[l].identity = Nil \/ lease[l].ack
             \/ space[lease[l].identity].uid # l,
             ~lease[l].placed => lease[l].identity = Nil
      PROVE  OInv'
  <2> DEFINE obj == [lease[l] EXCEPT !.state = "gone", !.blocked = FALSE]
  <2>1. lease' = [lease EXCEPT ![l] = obj] /\ w' = [w EXCEPT ![l] = Resting]
    BY <1>1, <1>3 DEF Release
  <2>2. /\ obj \in LeaseObject /\ obj.state = "gone" /\ obj.placed = lease[l].placed
        /\ obj.identity = lease[l].identity /\ obj.ack = lease[l].ack
    BY <1>1 DEF LeaseObject
  <2> HIDE DEF obj
  <2>3. WorkerInv(l, obj, Resting)
    BY <1>1, <1>3, <2>2 DEF WorkerInv
  <2>4. QED
    BY <1>1, <1>3, <2>1, <2>2, <2>3, QuietStep
<1>4. ASSUME Refuse(l), UNCHANGED <<space, points, sticky, faults>>, lease[l].placed,
             lease[l].state = "deleting"
      PROVE  OInv'
  <2> DEFINE obj == [lease[l] EXCEPT !.blocked = TRUE]
  <2>1. lease' = [lease EXCEPT ![l] = obj] /\ w' = [w EXCEPT ![l] = Resting]
    BY <1>1, <1>4 DEF Refuse
  <2>2. obj \in LeaseObject /\ obj.state = "deleting" /\ obj.placed
    BY <1>1, <1>4 DEF LeaseObject
  <2> HIDE DEF obj
  <2>3. WorkerInv(l, obj, Resting)
    BY <1>1, <2>2 DEF WorkerInv
  <2>4. QED
    BY <1>1, <1>4, <2>1, <2>2, <2>3, QuietStep
<1>5. ASSUME NEW v \in Worker, w' = [w EXCEPT ![l] = v], WorkerInv(l, lease[l], v),
             UNCHANGED <<lease, points, sticky, faults>>,
             space' \in [Clusters -> Namespace], SpaceInv', lease[l].state # "gone",
             \A c \in Clusters : space'[c].uid = space[c].uid
      PROVE  OInv'
  <2>1. lease' = [lease EXCEPT ![l] = lease[l]]
    BY <1>1, <1>5
  <2>2. QED
    BY <1>1, <1>5, <2>1, LeaseStep
<1>6. UNCHANGED space => /\ SpaceInv' /\ space' \in [Clusters -> Namespace]
                         /\ \A c \in Clusters : space'[c].uid = space[c].uid
  BY <1>1, <1>2 DEF SpaceInv
<1>7. CASE CleanupNothing(l)
  <2>1. ~lease[l].placed => lease[l].identity = Nil
    BY <1>1, <1>7 DEF CleanupNothing, WorkerInv
  <2>2. QED
    BY <1>3, <1>7, <2>1 DEF CleanupNothing
<1>8. CASE CleanupProbe(l)
  <2> DEFINE v == [w[l] EXCEPT !.pc = "cleanupGet", !.sess = Target(l)]
  <2>1. /\ lease[l].state = "deleting" /\ lease[l].placed
        /\ UNCHANGED <<space, points, sticky, faults>>
    BY <1>8 DEF CleanupProbe
  <2>2. CASE Refuse(l)
    BY <1>4, <2>1, <2>2
  <2>3. CASE /\ VerifyLiveTargetIdentity(lease[l].identity, Target(l))
             /\ w' = [w EXCEPT ![l].pc = "cleanupGet", ![l].sess = Target(l)]
             /\ UNCHANGED lease
    <3>1. w' = [w EXCEPT ![l] = v]
      BY <1>1, <2>3
    <3>2. v \in Worker /\ v.pc = "cleanupGet" /\ v.sess = Target(l)
      BY <1>1 DEF Worker
    <3> HIDE DEF v
    <3>3. WorkerInv(l, lease[l], v)
      BY <2>1, <2>3, <3>2 DEF WorkerInv, VerifyLiveTargetIdentity
    <3>4. QED
      BY <1>5, <1>6, <2>1, <2>3, <3>1, <3>2, <3>3
  <2>4. QED
    BY <1>8, <2>2, <2>3 DEF CleanupProbe
<1>9. CASE CleanupGet(l)
  <2> DEFINE n == space[w[l].sess]
             v == [w[l] EXCEPT !.pc = "cleanupDelete", !.found = n]
  <2>1. w[l].pc = "cleanupGet" /\ UNCHANGED <<space, points, sticky, faults>>
    BY <1>9 DEF CleanupGet
  <2>2. /\ lease[l].state = "deleting" /\ lease[l].placed
        /\ lease[l].identity \in {Nil, w[l].sess}
    BY <1>1, <2>1 DEF WorkerInv
  <2>3. CASE n.state = "none" /\ Release(l)
    <3>1. n.uid # l
      BY <1>1, <1>2, <2>3, OwnershipAssumption DEF SpaceInv
    <3>2. QED
      BY <1>3, <2>1, <2>2, <2>3, <3>1
  <2>4. CASE Refuse(l)
    BY <1>4, <2>1, <2>2, <2>4
  <2>5. CASE w' = [w EXCEPT ![l] = Resting] /\ UNCHANGED lease
    <3>1. WorkerInv(l, lease[l], Resting)
      BY <1>1, <2>2 DEF WorkerInv
    <3>2. QED
      BY <1>1, <1>5, <1>6, <2>1, <2>2, <2>5, <3>1
  <2>6. CASE /\ VerifyNamespaceOwnership(n, l)
             /\ w' = [w EXCEPT ![l].pc = "cleanupDelete", ![l].found = n]
             /\ UNCHANGED lease
    <3>1. w' = [w EXCEPT ![l] = v]
      BY <1>1, <2>6
    <3>2. /\ v \in Worker /\ v.pc = "cleanupDelete" /\ v.sess = w[l].sess
          /\ v.found = n
      BY <1>1 DEF Worker
    <3>3. n.uid = l
      BY <2>6 DEF VerifyNamespaceOwnership
    <3> HIDE DEF n, v
    <3>4. WorkerInv(l, lease[l], v)
      BY <2>2, <3>2, <3>3 DEF WorkerInv
    <3>5. QED
      BY <1>5, <1>6, <2>1, <2>2, <2>6, <3>1, <3>2, <3>4
  <2>7. QED
    BY <1>9, <2>3, <2>4, <2>5, <2>6 DEF CleanupGet
<1>10. CASE CleanupDelete(l)
  <2> DEFINE c == w[l].sess
  <2>1. /\ w[l].pc = "cleanupDelete" /\ w' = [w EXCEPT ![l] = Resting]
        /\ UNCHANGED <<lease, points, sticky, faults>>
        /\ space' = [space EXCEPT ![c].state = IF @ = "none" THEN "none" ELSE "terminating"]
    BY <1>10 DEF CleanupDelete
  <2>2. lease[l].state = "deleting" /\ lease[l].placed
    BY <1>1, <2>1 DEF WorkerInv
  <2>3. c \in Clusters /\ space[c] \in Namespace
    BY <1>1
  <2> HIDE DEF c
  <2>4. /\ space' \in [Clusters -> Namespace]
        /\ \A d \in Clusters : /\ space'[d].uid = space[d].uid
                               /\ space'[d].state = "none" => space[d].state = "none"
    BY <1>1, <2>1, <2>3 DEF Namespace
  <2>5. SpaceInv'
    BY <1>2, <2>4 DEF SpaceInv
  <2>6. WorkerInv(l, lease[l], Resting)
    BY <1>1, <2>2 DEF WorkerInv
  <2>7. QED
    BY <1>1, <1>5, <2>1, <2>2, <2>4, <2>5, <2>6
<1>11. QED
  BY <1>7, <1>8, <1>9, <1>10 DEF Cleanup

\* Users who create, end and acknowledge leases preserve the invariant.
LEMMA UserPreserves ==
    ASSUME OInv, NEW l \in Leases, CreateLease(l) \/ EndLease(l) \/ Acknowledge(l)
    PROVE  OInv'
<1>1. /\ lease[l] \in LeaseObject /\ w[l] \in Worker /\ WorkerInv(l, lease[l], w[l])
      /\ lease \in [Leases -> LeaseObject] /\ w \in [Leases -> Worker]
  BY Parts
<1>2. UNCHANGED <<space, points, sticky, w, faults>> /\ w' = [w EXCEPT ![l] = w[l]]
  BY <1>1 DEF CreateLease, EndLease, Acknowledge
<1>3. CASE CreateLease(l) \/ EndLease(l)
  <2>1. PICK state \in {"live", "deleting"} :
           /\ lease' = [lease EXCEPT ![l].state = state]
           /\ state = "live" => lease[l].state = "absent"
           /\ state = "deleting" => lease[l].state = "live"
    BY <1>3 DEF CreateLease, EndLease
  <2> DEFINE obj == [lease[l] EXCEPT !.state = state]
  <2>2. lease' = [lease EXCEPT ![l] = obj]
    BY <1>1, <2>1
  <2>3. /\ obj \in LeaseObject /\ obj.state = state /\ obj.placed = lease[l].placed
        /\ obj.identity = lease[l].identity
    BY <1>1 DEF LeaseObject
  <2> HIDE DEF obj
  <2>4. WorkerInv(l, obj, w[l])
    BY <1>1, <2>1, <2>3 DEF WorkerInv
  <2>5. QED
    BY <1>1, <1>2, <2>1, <2>2, <2>3, <2>4, QuietStep
<1>4. CASE Acknowledge(l)
  <2> DEFINE obj == [lease[l] EXCEPT !.ack = TRUE]
  <2>1. lease' = [lease EXCEPT ![l] = obj]
    BY <1>1, <1>4 DEF Acknowledge
  <2>2. /\ obj \in LeaseObject /\ obj.state = lease[l].state /\ obj.placed = lease[l].placed
        /\ obj.identity = lease[l].identity /\ obj.ack
    BY <1>1 DEF LeaseObject
  <2> HIDE DEF obj
  <2>3. WorkerInv(l, obj, w[l])
    BY <1>1, <2>2 DEF WorkerInv
  <2>4. QED
    BY <1>1, <1>2, <2>1, <2>2, <2>3, QuietStep
<1>5. QED
  BY <1>3, <1>4

\* Probes, swaps of credentials, and Namespaces that users create and delete
\* or that end preserve the invariant: none gives a Namespace an owner.
LEMMA ClusterPreserves ==
    ASSUME OInv, UNCHANGED <<lease, w>>,
           \/ \E k \in Controls : HealthProbe(k) \/ \E c \in Clusters : SwapCredentials(k, c)
           \/ \E c \in Clusters : NamespaceGone(c) \/ UserCreates(c) \/ UserDeletes(c)
    PROVE  OInv'
<1>1. /\ space \in [Clusters -> Namespace] /\ SpaceInv /\ faults \in Nat
      /\ points \in [Controls -> Clusters] /\ sticky \in [Controls -> Clusters \cup {Nil}]
  BY DEF OInv, TypeOK
<1>2. faults' \in Nat
  BY <1>1 DEF HealthProbe, SwapCredentials, NamespaceGone, UserCreates, UserDeletes
<1>3. points' \in [Controls -> Clusters]
  BY <1>1 DEF HealthProbe, SwapCredentials, NamespaceGone, UserCreates, UserDeletes
<1>4. sticky' \in [Controls -> Clusters \cup {Nil}]
  BY <1>1 DEF HealthProbe, SwapCredentials, NamespaceGone, UserCreates, UserDeletes
<1> DEFINE NoNewOwner == \A c \in Clusters : space'[c].uid \in {space[c].uid, Nil}
<1>5. space' \in [Clusters -> Namespace] /\ SpaceInv' /\ NoNewOwner
  <2>1. CASE \E k \in Controls : HealthProbe(k) \/ \E c \in Clusters : SwapCredentials(k, c)
    <3>1. UNCHANGED space
      BY <2>1 DEF HealthProbe, SwapCredentials
    <3>2. QED
      BY <1>1, <3>1 DEF SpaceInv
  <2>2. ASSUME NEW c \in Clusters, NamespaceGone(c) \/ UserCreates(c)
        PROVE  space' \in [Clusters -> Namespace] /\ SpaceInv' /\ NoNewOwner
    <3>1. space' = [space EXCEPT ![c] = NoNamespace] \/ space' = [space EXCEPT ![c] = Unmanaged]
      BY <2>2 DEF NamespaceGone, UserCreates
    <3>2. QED
      BY <1>1, <3>1, ConstantTypes DEF SpaceInv
  <2>3. ASSUME NEW c \in Clusters, UserDeletes(c)
        PROVE  space' \in [Clusters -> Namespace] /\ SpaceInv' /\ NoNewOwner
    BY <1>1, <2>3 DEF UserDeletes, SpaceInv, Namespace
  <2>4. QED
    BY <2>1, <2>2, <2>3
<1>6. TypeOK'
  BY <1>2, <1>3, <1>4, <1>5 DEF OInv, TypeOK
<1>7. NoOrphanOnRecordedCluster'
  <2> SUFFICES ASSUME NEW l \in Leases, lease[l].state = "gone", ~lease[l].ack,
                      lease[l].identity # Nil
               PROVE  space'[lease[l].identity].uid # l
    BY DEF NoOrphanOnRecordedCluster
  <2>1. lease[l].identity \in Clusters
    BY Parts
  <2>2. QED
    BY <1>5, <2>1, OwnershipAssumption DEF OInv, NoOrphanOnRecordedCluster
<1>8. QED
  BY <1>5, <1>6, <1>7 DEF OInv

-----------------------------------------------------------------------------
(* The theorems                                                            *)

\* The inductive invariant holds in every reachable state.
THEOREM OwnershipInvariant == Spec => []OInv
<1>1. Init => OInv
  <2> SUFFICES ASSUME Init PROVE OInv
    OBVIOUS
  <2>1. TypeOK
    BY ConstantTypes, OwnershipAssumption DEF Init, TypeOK
  <2>2. SpaceInv
    BY ConstantTypes DEF Init, SpaceInv
  <2>3. \A l \in Leases : WorkerInv(l, lease[l], w[l])
    <3>1. NoLease.identity = Nil /\ NoLease.state = "absent"
      BY DEF NoLease
    <3>2. QED
      BY <3>1, ConstantTypes DEF Init, WorkerInv
  <2>4. NoOrphanOnRecordedCluster
    <3>1. NoLease.identity = Nil
      BY DEF NoLease
    <3>2. QED
      BY <3>1 DEF Init, NoOrphanOnRecordedCluster
  <2>5. QED
    BY <2>1, <2>2, <2>3, <2>4 DEF OInv
<1>2. OInv /\ [Next]_vars => OInv'
  <2> SUFFICES ASSUME OInv, [Next]_vars PROVE OInv'
    OBVIOUS
  <2>1. CASE \E l \in Leases : Provision(l)
    BY <2>1, ProvisionPreserves
  <2>2. CASE \E l \in Leases : Cleanup(l)
    BY <2>2, CleanupPreserves
  <2>3. CASE \E l \in Leases : CreateLease(l) \/ EndLease(l) \/ Acknowledge(l)
    BY <2>3, UserPreserves
  <2>4. CASE \/ \E k \in Controls : HealthProbe(k) \/ \E c \in Clusters : SwapCredentials(k, c)
             \/ \E c \in Clusters : NamespaceGone(c) \/ UserCreates(c) \/ UserDeletes(c)
    <3>1. UNCHANGED <<lease, w>>
      BY <2>4 DEF HealthProbe, SwapCredentials, NamespaceGone, UserCreates, UserDeletes
    <3>2. QED
      BY <2>4, <3>1, ClusterPreserves
  <2>5. CASE UNCHANGED vars
    <3>1. TypeOK' /\ SpaceInv' /\ NoOrphanOnRecordedCluster'
      BY <2>5 DEF vars, OInv, TypeOK, SpaceInv, NoOrphanOnRecordedCluster
    <3>2. \A l \in Leases : WorkerInv(l, lease'[l], w'[l])
      BY <2>5 DEF vars, OInv
    <3>3. QED
      BY <3>1, <3>2 DEF OInv
  <2>6. QED
    BY <2>1, <2>2, <2>3, <2>4, <2>5 DEF Next
<1>3. QED
  BY <1>1, <1>2, PTL DEF Spec

\* Type correctness: what is recorded as a cluster's identity is one.
THEOREM OwnershipTypes == Spec => []TypeOK
<1>1. OInv => TypeOK
  BY DEF OInv
<1>2. QED
  BY <1>1, OwnershipInvariant, PTL

\* cleanupEnvironment leaves no Namespace of the lease behind on the cluster
\* that the lease recorded, whoever swaps credentials, unless the operator
\* acknowledged the loss.
THEOREM NothingLeftBehind == Spec => []NoOrphanOnRecordedCluster
<1>1. OInv => NoOrphanOnRecordedCluster
  BY DEF OInv
<1>2. QED
  BY <1>1, OwnershipInvariant, PTL

\* cleanupEnvironment deletes a Namespace with the lease's own UID, on the
\* recorded cluster, of a lease that is being deleted, unless the Namespace was
\* replaced or claimed between its Get and its Delete.
THEOREM OnlyOwnDeleted == Spec => DeletesOwn
<1> DEFINE Own == \A l \in Leases, c \in Clusters :
                    /\ w[l].pc = "cleanupDelete" /\ w'[l].pc = "idle"
                    /\ w[l].sess = c
                    /\ space[c] = w[l].found
                    => /\ space[c].uid = l
                       /\ lease[l].identity \in {Nil, c}
                       /\ lease[l].state = "deleting"
<1>1. OInv /\ [Next]_vars => [Own]_vars
  BY DEF OInv, WorkerInv
<1>2. QED
  BY <1>1, OwnershipInvariant, PTL DEF Spec, DeletesOwn
=============================================================================
