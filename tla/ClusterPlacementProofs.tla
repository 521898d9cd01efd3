----------------------- MODULE ClusterPlacementProofs -----------------------
(***************************************************************************)
(* Machine-checked proofs about ClusterPlacement, for every finite set of  *)
(* leases and targets, every number of workers and every capacity.         *)
(***************************************************************************)
EXTENDS ClusterPlacement, FiniteSetTheorems, FunctionTheorems, TLAPS

-----------------------------------------------------------------------------
(* The inductive invariants                                                *)

\* The clusterRef of the lease was not changed once it was provisioned.
Kept(l) == edits[l] # "late"

\* What holds of every status, stored or under construction: the namespace
\* comes after the cluster, Active after the namespace.
Recorded(st) ==
    /\ st.namespace => st.cluster # Nil
    /\ st.phase = "Active" => st.namespace

\* A clusterRef and the cluster of a provisioned lease agree.
Agrees(r, st) == r # Nil /\ st.namespace => st.cluster = r

\* A status that may be stored in place of x's.  Here and below f says whether
\* the clusterRef was kept.
Follows(f, x, st) ==
    /\ Recorded(st)
    /\ f => /\ Agrees(x.ref, st)
            /\ x.status.namespace => st.namespace /\ st.cluster = x.status.cluster

\* A stored lease x with Namespaces on the clusters e.
StoredOK(f, x, e) ==
    /\ Recorded(x.status)
    /\ f => /\ Agrees(x.ref, x.status)
            /\ e # {} => x.exists
            /\ \A t \in e : x.status.cluster = t

\* ... and its worker k.
WorkerOK(f, x, e, k) ==
    /\ k.pc # "idle" => x.exists /\ Follows(f, x, k.st)
    /\ f => /\ k.before.namespace => x.status.namespace
            /\ k.pc = "idle" => (e # {} => x.status.namespace)
            /\ k.pc # "idle" =>
                  (e # {} => k.st.namespace /\ k.st.cluster = x.status.cluster)

\* ... on its way to a target,
OnTarget(f, x, e, k) ==
    /\ k.pc \in {"probe", "gate"} =>
          /\ k.target \in Targets
          /\ x.status = k.before
          /\ k.st = [x.status EXCEPT !.cluster = k.target]
          /\ k.read.ref # Nil => k.target = k.read.ref
    /\ k.pc \in {"ensure", "record", "constraints", "cleanupGate", "delete"} =>
          /\ k.target \in Targets
          /\ f => x.status.cluster = k.target /\ k.st.cluster = k.target
    /\ k.pc \in {"ensure", "record", "constraints"} => k.st.cluster = k.target
    /\ f /\ k.pc = "ensure" /\ x.ref # Nil => k.target = x.ref
    /\ k.pc \in {"record", "constraints"} => k.st.namespace
    /\ f /\ k.pc = "remove" => e = {}

LeaseOK(f, x, e, k) == StoredOK(f, x, e) /\ WorkerOK(f, x, e, k) /\ OnTarget(f, x, e, k)

PInv == TypeOK /\ \A l \in Leases : LeaseOK(Kept(l), lease[l], env[l], w[l])

\* The leases that were selected for a target, or are by their worker.
Claims(t) ==
    {l \in Leases : /\ Live(l) /\ lease[l].ref = Nil /\ edits[l] = "no"
                    /\ Claiming(l, t)}

\* Any of them, together, overrun the capacity only by what one of them did
\* not see.
ClaimsUnseen ==
    \A t \in Targets : MaxActiveLeases[t] # Nil =>
        \A S \in SUBSET Claims(t) : S # {} =>
            \E l \in S : Cardinality(S \ unseen[l][t]) <= MaxActiveLeases[t]

-----------------------------------------------------------------------------
(* PickStable                                                              *)

\* In a finite set of numbers the i-th smallest exists, for every i below its
\* size: counting the smaller elements is one-to-one, and so onto.
LEMMA RankExists ==
    ASSUME NEW S \in SUBSET Nat, IsFiniteSet(S), NEW i \in 0..(Cardinality(S) - 1)
    PROVE  \E t \in S : Cardinality({u \in S : u < t}) = i
<1> DEFINE N == Cardinality(S)
           Below(t) == {u \in S : u < t}
           rank == [t \in S |-> Cardinality(Below(t))]
<1>1. N \in Nat
  BY FS_CardinalityType
<1>2. ASSUME NEW t \in S
      PROVE  /\ IsFiniteSet(Below(t)) /\ Cardinality(Below(t)) \in Nat
             /\ IsFiniteSet(Below(t) \cup {t})
             /\ Cardinality(Below(t) \cup {t}) = Cardinality(Below(t)) + 1
  <2>1. Below(t) \in SUBSET S /\ t \notin Below(t)
    OBVIOUS
  <2>2. IsFiniteSet(Below(t))
    BY <2>1, FS_Subset
  <2> HIDE DEF Below
  <2>3. QED
    BY <2>1, <2>2, FS_CardinalityType, FS_AddElement
<1>3. ASSUME NEW t \in S
      PROVE  Cardinality(Below(t)) \in 0..(N - 1)
  <2>1. Below(t) \cup {t} \in SUBSET S
    OBVIOUS
  <2>2. Cardinality(Below(t) \cup {t}) <= N
    BY <2>1, FS_Subset
  <2> HIDE DEF Below, N
  <2>3. QED
    BY <1>1, <1>2, <2>2
<1>4. ASSUME NEW t \in S, NEW v \in S, t < v
      PROVE  Cardinality(Below(t)) < Cardinality(Below(v))
  <2>1. Below(t) \cup {t} \in SUBSET Below(v)
    <3>1. t \in Nat /\ v \in Nat /\ (\A u \in S : u \in Nat)
      OBVIOUS
    <3>2. \A u \in S : u < t => u < v
      BY <1>4, <3>1
    <3>3. QED
      BY <1>4, <3>2
  <2>2. IsFiniteSet(Below(v)) /\ Cardinality(Below(v)) \in Nat
    BY <1>2
  <2>3. Cardinality(Below(t) \cup {t}) <= Cardinality(Below(v))
    BY <2>1, <2>2, FS_Subset
  <2>4. QED
    BY <1>2, <2>2, <2>3
<1>5. rank \in [S -> 0..(N - 1)]
  BY <1>3
<1>6. \A t, v \in S : rank[t] = rank[v] => t = v
  <2> SUFFICES ASSUME NEW t \in S, NEW v \in S, t # v PROVE rank[t] # rank[v]
    OBVIOUS
  <2>1. t < v \/ v < t
    OBVIOUS
  <2>2. /\ rank[t] = Cardinality(Below(t)) /\ rank[v] = Cardinality(Below(v))
        /\ Cardinality(Below(t)) \in Nat /\ Cardinality(Below(v)) \in Nat
    BY <1>2
  <2> HIDE DEF rank, Below
  <2>3. QED
    BY <1>4, <2>1, <2>2
<1> HIDE DEF rank
<1>7. rank \in Injection(S, 0..(N - 1))
  BY <1>5, <1>6, Fun_IsInj
<1>8. IsFiniteSet(0..(N - 1)) /\ Cardinality(0..(N - 1)) = N
  BY <1>1, FS_Interval
<1>9. rank \in Surjection(S, 0..(N - 1))
  BY <1>7, <1>8, FS_Injection
<1>10. \A j \in 0..(N - 1) : \E t \in S : rank[t] = j
  BY <1>9 DEF Surjection
<1>11. PICK t \in S : rank[t] = i
  BY <1>10
<1>12. rank[t] = Cardinality(Below(t))
  BY DEF rank
<1>13. QED
  BY <1>11, <1>12

\* The hash always leads to one of the candidates.
LEMMA PickStableIsCandidate ==
    ASSUME NEW l \in Leases, NEW S \in SUBSET Targets, S # {}
    PROVE  PickStable(l, S) \in S
<1>1. S \in SUBSET Nat /\ IsFiniteSet(S) /\ Hash[l] \in Nat
  BY PlacementAssumption, FS_Subset
<1>2. Cardinality(S) \in Nat \ {0}
  BY <1>1, FS_CardinalityType, FS_EmptySet
<1>3. Hash[l] % Cardinality(S) \in 0..(Cardinality(S) - 1)
  BY <1>1, <1>2
<1>4. \E t \in S : Cardinality({u \in S : u < t}) = Hash[l] % Cardinality(S)
  BY <1>1, <1>3, RankExists
<1>5. QED
  BY <1>4 DEF PickStable

-----------------------------------------------------------------------------
(* Decisions and delays                                                    *)

\* Outage windows stay within their limit, and are never empty.
LEMMA MarkedWindowType ==
    ASSUME NEW left \in 0..MaxBack
    PROVE  MarkedWindow(left) \in 0..MaxBack
BY PlacementAssumption DEF MarkedWindow, Lower

\* What Decide selects: clusterRef, the target that the lease has already,
\* or a candidate.
LEMMA DecideTarget ==
    ASSUME TypeOK, NEW l \in Leases, Recorded(lease[l].status),
           Decide(l).kind = "target"
    PROVE  LET t == Decide(l).target
           IN  /\ t \in Targets
               /\ lease[l].ref # Nil => t = lease[l].ref
               /\ /\ Agrees(lease[l].ref, lease[l].status)
                  /\ lease[l].status.namespace
                  => t = lease[l].status.cluster
               /\ \/ lease[l].ref # Nil
                  \/ t = lease[l].status.cluster
                  \/ t \in Candidates
<1>1. /\ lease[l].ref \in Targets \cup {Nil}
      /\ lease[l].status.cluster \in Targets \cup {Nil}
  BY PlacementAssumption DEF TypeOK, Lease, Status
<1>2. CASE lease[l].ref # Nil
  <2>1. Decide(l).target = lease[l].ref
    BY <1>2 DEF Decide, Decision
  <2>2. QED
    BY <1>1, <1>2, <2>1 DEF Agrees
<1>3. CASE lease[l].ref = Nil /\ Sticky(l)
  <2>1. Decide(l).target = lease[l].status.cluster /\ lease[l].status.cluster # Nil
    BY <1>3 DEF Decide, Decision, Sticky
  <2>2. QED
    BY <1>1, <1>3, <2>1
<1>4. CASE lease[l].ref = Nil /\ ~Sticky(l)
  <2>1. Decide(l) = SelectFromCandidates(l)
    BY <1>4 DEF Decide
  <2>2. Candidates # {} /\ Decide(l).target = PickStable(l, Candidates)
    BY <2>1 DEF SelectFromCandidates, Decision
  <2>3. Candidates \in SUBSET Targets
    BY DEF Candidates
  <2>4. Decide(l).target \in Candidates
    BY <2>2, <2>3, PickStableIsCandidate
  <2>5. ~lease[l].status.namespace
    BY <1>4 DEF Sticky, Recorded
  <2>6. QED
    BY <1>4, <2>3, <2>4, <2>5
<1>5. QED
  BY <1>2, <1>3, <1>4

-----------------------------------------------------------------------------
(* Field by field: what the steps of a worker do to its lease              *)

\* The other leases, their Namespaces and their workers are left alone.
OthersKept(l) ==
    /\ edits' = edits
    /\ \A k \in Leases \ {l} :
          lease'[k] = lease[k] /\ env'[k] = env[k] /\ w'[k] = w[k]

\* A worker that has only patchStatusIfChanged left.
Patching(k, st) == k.pc = "patch" /\ k.st = st /\ k.before = NoStatus

LEMMA RestingFields ==
    /\ Resting \in Worker /\ NoStatus \in Status
    /\ Resting.pc = "idle" /\ Resting.before = NoStatus /\ ~NoStatus.namespace
    /\ \A st \in Status, result \in Nat \cup {Nil} :
          LET k == [Resting EXCEPT !.pc = "patch", !.st = st, !.result = result]
          IN  k \in Worker /\ Patching(k, st)
<1>1. NoStatus \in Status /\ ~NoStatus.namespace
  BY DEF NoStatus, Status, Phases
<1>2. Resting \in Worker /\ Resting.pc = "idle" /\ Resting.before = NoStatus
  BY <1>1 DEF Resting, NoLease, Worker, Lease, GatePCs
<1>3. ASSUME NEW st \in Status, NEW result \in Nat \cup {Nil}
      PROVE  LET k == [Resting EXCEPT !.pc = "patch", !.st = st, !.result = result]
             IN  k \in Worker /\ Patching(k, st)
  BY <1>2, <1>3 DEF Worker, GatePCs, Patching
<1>4. QED
  BY <1>1, <1>2, <1>3

\* A delay that was asked for.
LEMMA RequeueType ==
    ASSUME TypeOK, NEW l \in Leases, NEW result \in Nat \cup {Nil}
    PROVE  RequeueAfter(l, result) \in Nat \cup {Nil}
BY DEF TypeOK, RequeueAfter, Lower

LEMMA GotoFields ==
    ASSUME TypeOK, NEW l \in Leases, NEW pc, NEW st, Goto(l, pc, st)
    PROVE  /\ w'[l].pc = pc /\ w'[l].st = st /\ w'[l].target = w[l].target
           /\ w'[l].before = w[l].before /\ w'[l].read = w[l].read
           /\ \A k \in Leases \ {l} : w'[k] = w[k]
           /\ queue' = queue
           /\ pc \in GatePCs \cup {"gate", "remove"} /\ st \in Status =>
                 w' \in [Leases -> Worker]
<1>1. w \in [Leases -> Worker] /\ w' = [w EXCEPT ![l].pc = pc, ![l].st = st]
  BY DEF TypeOK, Goto
<1>2. w'[l] = [w[l] EXCEPT !.pc = pc, !.st = st] /\ w[l] \in Worker
  BY <1>1
<1>3. /\ w'[l].pc = pc /\ w'[l].st = st /\ w'[l].target = w[l].target
      /\ w'[l].before = w[l].before /\ w'[l].read = w[l].read
      /\ pc \in GatePCs \cup {"gate", "remove"} /\ st \in Status => w'[l] \in Worker
  BY <1>2 DEF Worker
<1>4. \A k \in Leases \ {l} : w'[k] = w[k]
  BY <1>1
<1>5. w'[l] \in Worker => w' \in [Leases -> Worker]
  BY <1>1
<1>6. QED
  BY <1>3, <1>4, <1>5 DEF Goto

LEMMA ReturnFields ==
    ASSUME TypeOK, NEW l \in Leases, NEW st \in Status, NEW result \in Nat \cup {Nil},
           Return(l, st, result)
    PROVE  /\ \/ w'[l] = Resting /\ st = w[l].before
              \/ Patching(w'[l], st)
           /\ \A k \in Leases \ {l} : w'[k] = w[k]
           /\ w' \in [Leases -> Worker]
           /\ queue' \in [Leases -> Nat \cup {Nil}]
<1> DEFINE p == [Resting EXCEPT !.pc = "patch", !.st = st, !.result = result]
<1>1. p \in Worker /\ Patching(p, st) /\ Resting \in Worker
  BY RestingFields
<1>2. RequeueAfter(l, result) \in Nat \cup {Nil}
  BY RequeueType
<1>3. \/ /\ st = w[l].before /\ w' = [w EXCEPT ![l] = Resting]
         /\ queue' = [queue EXCEPT ![l] = RequeueAfter(l, result)]
      \/ w' = [w EXCEPT ![l] = p] /\ queue' = queue
  BY DEF Return
<1> HIDE DEF p
<1>4. QED
  BY <1>1, <1>2, <1>3 DEF TypeOK

LEMMA BeginFields ==
    ASSUME TypeOK, NEW l \in Leases, NEW pc, NEW t, NEW st, Begin(l, pc, t, st)
    PROVE  /\ w[l].pc = "idle" /\ CanStart(l)
           /\ w'[l].pc = pc /\ w'[l].target = t /\ w'[l].st = st
           /\ w'[l].before = lease[l].status /\ w'[l].read = lease[l]
           /\ \A k \in Leases \ {l} : w'[k] = w[k]
           /\ UNCHANGED <<lease, stalled, env, target, link, events, edits>>
           /\ queue' \in [Leases -> Nat \cup {Nil}]
           /\ /\ pc \in {"probe", "gate", "remove", "cleanupGate"}
              /\ t \in Targets \cup {Nil} /\ st \in Status
              => w' \in [Leases -> Worker]
<1> DEFINE k == [pc |-> pc, target |-> t, read |-> lease[l],
                 st |-> st, before |-> lease[l].status, result |-> Nil]
<1>1. /\ w' = [w EXCEPT ![l] = k] /\ queue' = [queue EXCEPT ![l] = Nil]
      /\ UNCHANGED <<lease, stalled, env, target, link, events, edits>>
      /\ w[l].pc = "idle" /\ CanStart(l)
  BY DEF Begin, CanStart
<1>2. /\ k.pc = pc /\ k.target = t /\ k.st = st /\ k.before = lease[l].status
      /\ k.read = lease[l]
      /\ lease[l] \in Lease /\ lease[l].status \in Status
  BY DEF TypeOK, Lease
<1>3. /\ pc \in {"probe", "gate", "remove", "cleanupGate"}
      /\ t \in Targets \cup {Nil} /\ st \in Status
      => k \in Worker
  BY <1>2 DEF Worker
<1> HIDE DEF k
<1>4. QED
  BY <1>1, <1>2, <1>3 DEF TypeOK

LEMMA BeginReturnFields ==
    ASSUME TypeOK, NEW l \in Leases, NEW st \in Status, NEW result \in Nat \cup {Nil},
           BeginReturn(l, st, result)
    PROVE  /\ w[l].pc = "idle" /\ CanStart(l)
           /\ w' = w \/ Patching(w'[l], st)
           /\ st = lease[l].status => w' = w
           /\ \A k \in Leases \ {l} : w'[k] = w[k]
           /\ UNCHANGED <<lease, stalled, env, target, link, events, edits>>
           /\ w' \in [Leases -> Worker]
           /\ queue' \in [Leases -> Nat \cup {Nil}]
<1> DEFINE p == [Resting EXCEPT !.pc = "patch", !.st = st, !.result = result]
<1>1. p \in Worker /\ Patching(p, st)
  BY RestingFields
<1>2. /\ w' = w \/ w' = [w EXCEPT ![l] = p]
      /\ st = lease[l].status => w' = w
      /\ queue' = [queue EXCEPT ![l] = result] \/ queue' = [queue EXCEPT ![l] = Nil]
      /\ UNCHANGED <<lease, stalled, env, target, link, events, edits>>
      /\ w[l].pc = "idle" /\ CanStart(l)
  BY DEF BeginReturn, CanStart
<1> HIDE DEF p
<1>3. QED
  BY <1>1, <1>2 DEF TypeOK

LEMMA PersistFields ==
    ASSUME TypeOK, NEW l \in Leases, NEW next \in {"ensure", "constraints"},
           NEW st \in Status, Persist(l, next, st)
    PROVE  /\ \/ /\ lease'[l].status = w[l].st /\ lease'[l].exists = lease[l].exists
                 /\ lease'[l].deleting = lease[l].deleting
                 /\ lease'[l].ref = lease[l].ref /\ w[l].read = lease[l]
                 /\ w'[l].pc = next /\ w'[l].st = st /\ w'[l].target = w[l].target
                 /\ w'[l].before = w[l].before
              \/ /\ lease' = lease
                 /\ \/ w'[l] = Resting /\ w[l].st = w[l].before
                    \/ Patching(w'[l], w[l].st)
           /\ \A k \in Leases \ {l} : w'[k] = w[k] /\ lease'[k] = lease[k]
           /\ w' \in [Leases -> Worker]
           /\ lease' \in [Leases -> Lease]
           /\ queue' \in [Leases -> Nat \cup {Nil}]
<1>1. w[l] \in Worker /\ w[l].st \in Status /\ lease[l] \in Lease
  BY DEF TypeOK, Worker
<1>2. CASE lease[l] = w[l].read
  <2> DEFINE x == [lease[l] EXCEPT !.status = w[l].st]
             k == [w[l] EXCEPT !.pc = next, !.read = x, !.st = st]
  <2>1. /\ lease' = [lease EXCEPT ![l] = x]
        /\ queue' = queue \/ queue' = [queue EXCEPT ![l] = 0]
        /\ w' = [w EXCEPT ![l].pc = next, ![l].read = x, ![l].st = st]
    BY <1>2 DEF Persist
  <2>2. /\ x \in Lease /\ x.status = w[l].st /\ x.exists = lease[l].exists
        /\ x.deleting = lease[l].deleting /\ x.ref = lease[l].ref
    BY <1>1 DEF Lease
  <2> HIDE DEF x
  <2>3. /\ k \in Worker /\ k.pc = next /\ k.st = st /\ k.target = w[l].target
        /\ k.before = w[l].before
    BY <1>1, <2>2 DEF Worker, GatePCs
  <2>4. /\ w'[l] = k
        /\ \A j \in Leases \ {l} : w'[j] = w[j]
        /\ w' \in [Leases -> Worker]
    <3>1. w \in [Leases -> Worker]
      BY DEF TypeOK
    <3>2. w'[l] = k /\ \A j \in Leases \ {l} : w'[j] = w[j]
      BY <2>1, <3>1
    <3> HIDE DEF k
    <3>3. QED
      BY <2>1, <2>3, <3>1, <3>2
  <2> HIDE DEF k
  <2>5. QED
    BY <1>2, <2>1, <2>2, <2>3, <2>4 DEF TypeOK
<1>3. CASE lease[l] # w[l].read
  <2>1. Return(l, w[l].st, 0) /\ lease' = lease
    BY <1>3 DEF Persist
  <2>2. QED
    BY <1>1, <2>1, ReturnFields DEF TypeOK
<1>4. QED
  BY <1>2, <1>3

-----------------------------------------------------------------------------
(* The steps of Reconcile                                                  *)

\* The clusters that the lease x with worker k occupies or is about to.
Claimed(x, k) == {x.status.cluster} \cup (IF k.pc = "idle" THEN {} ELSE {k.st.cluster})

\* The cluster c is the one that the lease has, or was just selected for it.
Selection(l, c) ==
    \/ c = lease[l].status.cluster /\ unseen' = unseen
    \/ /\ c \in Targets /\ Select(l, c)
       /\ lease[l].ref = Nil => c \in {lease[l].status.cluster} \cup Candidates

\* A claim is new only when a worker has just selected a candidate.
ClaimsKept(l) ==
    \/ /\ unseen' = unseen
       /\ lease'[l].exists /\ ~lease'[l].deleting =>
             /\ Live(l) /\ lease'[l].ref = lease[l].ref
             /\ Claimed(lease'[l], w'[l]) \subseteq Claimed(lease[l], w[l])
    \/ /\ lease' = lease /\ w[l].pc = "idle"
       /\ \E c : /\ Selection(l, c)
                 /\ Claimed(lease[l], w'[l]) \subseteq {lease[l].status.cluster, c}

LEMMA SelectionType ==
    ASSUME TypeOK, NEW l \in Leases, NEW c, Selection(l, c)
    PROVE  unseen' \in [Leases -> [Targets -> SUBSET Leases]]
<1>1. unseen \in [Leases -> [Targets -> SUBSET Leases]]
  BY DEF TypeOK
<1>2. CASE unseen' = unseen
  BY <1>1, <1>2
<1>3. CASE unseen' # unseen
  <2>1. c \in Targets /\ Select(l, c)
    BY <1>3 DEF Selection
  <2>2. PICK S \in SUBSET Leases : unseen' = [unseen EXCEPT ![l][c] = S]
    BY <1>3, <2>1 DEF Select
  <2>3. QED
    BY <1>1, <2>1, <2>2
<1>4. QED
  BY <1>2, <1>3

\* What a step of l's worker keeps.
StepOK(l) ==
    /\ TypeOK'
    /\ OthersKept(l)
    /\ LeaseOK(Kept(l), lease'[l], env'[l], w'[l])
    /\ ClaimsKept(l)

LEMMA BeginReturnOK ==
    ASSUME PInv, NEW l \in Leases, NEW st \in Status, NEW result \in Nat \cup {Nil},
           BeginReturn(l, st, result), window' \in [Targets -> 0..MaxBack],
           lease[l].exists \/ st = lease[l].status,
           Follows(Kept(l), lease[l], st),
           Selection(l, st.cluster)
    PROVE  StepOK(l)
<1>1. TypeOK /\ LeaseOK(Kept(l), lease[l], env[l], w[l])
  BY DEF PInv
<1>2. /\ w[l].pc = "idle" /\ CanStart(l)
      /\ w' = w \/ (Patching(w'[l], st) /\ lease[l].exists)
      /\ \A k \in Leases \ {l} : w'[k] = w[k]
      /\ UNCHANGED <<lease, stalled, env, target, link, events, edits>>
      /\ w' \in [Leases -> Worker]
      /\ queue' \in [Leases -> Nat \cup {Nil}]
  BY <1>1, BeginReturnFields
<1>3. TypeOK' /\ OthersKept(l)
  BY <1>1, <1>2, SelectionType DEF TypeOK, OthersKept
<1>4. ClaimsKept(l)
  <2>1. Claimed(lease[l], w'[l]) \subseteq {lease[l].status.cluster, st.cluster}
    BY <1>2 DEF Claimed, Patching
  <2>2. QED
    BY <1>2, <2>1 DEF ClaimsKept
<1>5. LeaseOK(Kept(l), lease'[l], env'[l], w'[l])
  BY <1>1, <1>2, RestingFields
     DEF LeaseOK, StoredOK, WorkerOK, OnTarget, Patching, Follows, Recorded, Agrees
<1>6. QED
  BY <1>3, <1>4, <1>5 DEF StepOK

LEMMA ReturnOK ==
    ASSUME PInv, NEW l \in Leases, NEW st \in Status, NEW result \in Nat \cup {Nil},
           Return(l, st, result), w[l].pc # "idle",
           UNCHANGED <<lease, stalled, target, link, events, history>>,
           window' \in [Targets -> 0..MaxBack], env' \in [Leases -> SUBSET Targets],
           \A k \in Leases \ {l} : env'[k] = env[k],
           st.cluster = w[l].st.cluster, st.namespace = w[l].st.namespace,
           st.phase = "Active" => st.namespace,
           Kept(l) => /\ \A t \in env'[l] : lease[l].status.cluster = t
                      /\ env'[l] # {} => st.namespace
                      /\ env'[l] # env[l] => st.cluster = lease[l].status.cluster
    PROVE  StepOK(l)
<1>1. TypeOK /\ LeaseOK(Kept(l), lease[l], env[l], w[l])
  BY DEF PInv
<1>2. /\ \/ w'[l] = Resting /\ st = w[l].before
         \/ Patching(w'[l], st)
      /\ \A k \in Leases \ {l} : w'[k] = w[k]
      /\ w' \in [Leases -> Worker]
      /\ queue' \in [Leases -> Nat \cup {Nil}]
  BY <1>1, ReturnFields
<1>3. TypeOK' /\ OthersKept(l)
  BY <1>1, <1>2 DEF TypeOK, OthersKept, history
<1>4. ClaimsKept(l)
  BY <1>2, RestingFields DEF ClaimsKept, Claimed, Patching, Live, history
<1>5. Follows(Kept(l), lease[l], st) /\ lease[l].exists
  BY <1>1 DEF LeaseOK, WorkerOK, Follows, Recorded, Agrees
<1>6. Kept(l) => (env'[l] # {} => st.cluster = lease[l].status.cluster)
  BY <1>1 DEF LeaseOK, WorkerOK
<1>7. Kept(l) /\ st = w[l].before => (st.namespace => lease[l].status.namespace)
  BY <1>1 DEF LeaseOK, WorkerOK
<1>8. LeaseOK(Kept(l), lease'[l], env'[l], w'[l])
  <2>1. StoredOK(Kept(l), lease[l], env'[l])
    BY <1>1, <1>5 DEF LeaseOK, StoredOK
  <2>2. CASE w'[l] = Resting /\ st = w[l].before
    BY <1>7, <2>1, <2>2, RestingFields DEF LeaseOK, WorkerOK, OnTarget
  <2>3. CASE Patching(w'[l], st)
    BY <1>5, <1>6, <2>1, <2>3, RestingFields DEF LeaseOK, WorkerOK, OnTarget, Patching
  <2>4. QED
    BY <1>2, <2>2, <2>3
<1>9. QED
  BY <1>3, <1>4, <1>8 DEF StepOK

\* Marking a target unavailable.
LEMMA MarkType ==
    ASSUME TypeOK, NEW t \in Targets
    PROVE  /\ Mark(t) => window' \in [Targets -> 0..MaxBack]
           /\ MarkedWindow(window[t]) \in Nat \cup {Nil}
           /\ MarkedWindow(0) \in Nat \cup {Nil}
<1>1. window \in [Targets -> 0..MaxBack] /\ 0 \in 0..MaxBack
  BY PlacementAssumption DEF TypeOK
<1>2. MarkedWindow(window[t]) \in 0..MaxBack /\ MarkedWindow(0) \in 0..MaxBack
  BY <1>1, MarkedWindowType
<1>3. QED
  BY <1>1, <1>2 DEF Mark

\* The returns before anything is done.
LEMMA EarlyReturns ==
    ASSUME PInv, NEW l \in Leases,
           \/ BeginGone(l) \/ BeginViolation(l) \/ BeginPending(l) \/ BeginError(l)
           \/ BeginBackoff(l) \/ BeginUnavailable(l) \/ BeginBlocked(l)
    PROVE  StepOK(l)
<1> DEFINE s == lease[l].status
<1>1. /\ TypeOK /\ LeaseOK(Kept(l), lease[l], env[l], w[l]) /\ s \in Status
      /\ window \in [Targets -> 0..MaxBack] /\ Recorded(s)
      /\ Kept(l) => Agrees(lease[l].ref, s)
      /\ Nil \in Nat \cup {Nil} /\ Retry \in Nat \cup {Nil}
  BY PlacementAssumption DEF PInv, TypeOK, Lease, LeaseOK, StoredOK
<1>2. Follows(Kept(l), lease[l], s)
  BY <1>1 DEF Follows
<1>3. ASSUME NEW p \in {"Failed", "Pending", "Cleaning"}
      PROVE  LET st == [s EXCEPT !.phase = p]
             IN  st \in Status /\ st.cluster = s.cluster /\ Follows(Kept(l), lease[l], st)
  BY <1>1 DEF Status, Phases, Follows, Recorded, Agrees
<1>3a. unseen' = unseen => Selection(l, s.cluster)
  BY DEF Selection
<1> HIDE DEF s
<1>4. CASE BeginGone(l)
  <2>1. BeginReturn(l, s, Nil) /\ window' = window /\ unseen' = unseen
    BY <1>4 DEF BeginGone, s
  <2>2. QED
    BY <1>1, <1>2, <1>3a, <2>1, BeginReturnOK DEF s
<1>5. CASE BeginViolation(l)
  <2>1. /\ BeginReturn(l, [s EXCEPT !.phase = "Failed"], Nil) /\ window' = window /\ unseen' = unseen
        /\ lease[l].exists
    BY <1>5 DEF BeginViolation, s, Live
  <2>2. QED
    BY <1>1, <1>3, <1>3a, <2>1, BeginReturnOK DEF s
<1>6. CASE BeginPending(l)
  <2>1. /\ BeginReturn(l, [s EXCEPT !.phase = "Pending"], Retry) /\ window' = window /\ unseen' = unseen
        /\ lease[l].exists
    BY <1>6 DEF BeginPending, s, Live
  <2>2. QED
    BY <1>1, <1>3, <1>3a, <2>1, BeginReturnOK DEF s
<1>7. CASE BeginBlocked(l)
  <2>1. /\ BeginReturn(l, [s EXCEPT !.phase = "Cleaning"], Retry) /\ window' = window /\ unseen' = unseen
        /\ lease[l].exists
    BY <1>7 DEF BeginBlocked, Cleaning, s
  <2>2. QED
    BY <1>1, <1>3, <1>3a, <2>1, BeginReturnOK DEF s
<1>8. CASE BeginError(l)
  <2> DEFINE st == [s EXCEPT !.phase = "Failed"]
  <2>1. /\ lease[l].exists /\ unseen' = unseen
        /\ \/ BeginReturn(l, st, Retry) /\ window' = window
           \/ /\ st.cluster # Nil /\ Mark(st.cluster)
              /\ BeginReturn(l, st, MarkedWindow(window[st.cluster]))
    BY <1>8 DEF BeginError, s, Live
  <2>2. st \in Status /\ st.cluster = s.cluster /\ Follows(Kept(l), lease[l], st)
    BY <1>3
  <2> HIDE DEF st
  <2>3. CASE BeginReturn(l, st, Retry) /\ window' = window
    BY <1>1, <1>3a, <2>1, <2>2, <2>3, BeginReturnOK DEF s
  <2>4. CASE /\ st.cluster # Nil /\ Mark(st.cluster)
             /\ BeginReturn(l, st, MarkedWindow(window[st.cluster]))
    <3>1. st.cluster \in Targets
      BY <2>2, <2>4 DEF Status
    <3>2. window' \in [Targets -> 0..MaxBack] /\ MarkedWindow(window[st.cluster]) \in Nat \cup {Nil}
      BY <1>1, <2>4, <3>1, MarkType
    <3>3. QED
      BY <1>3a, <2>1, <2>2, <2>4, <3>2, BeginReturnOK DEF s
  <2>5. QED
    BY <2>1, <2>3, <2>4
<1>9. CASE BeginBackoff(l)
  <2> DEFINE t == Decide(l).target
  <2>1. /\ BeginReturn(l, s, window[t]) /\ window' = window /\ unseen' = unseen /\ lease[l].exists
        /\ Decide(l).kind = "target"
    BY <1>9 DEF BeginBackoff, s, Live
  <2>2. t \in Targets
    BY <1>1, <2>1, DecideTarget DEF s
  <2> HIDE DEF t
  <2>3. window[t] \in Nat \cup {Nil}
    BY <1>1, <2>2, PlacementAssumption
  <2>4. QED
    BY <1>1, <1>2, <1>3a, <2>1, <2>3, BeginReturnOK DEF s
<1>10. CASE BeginUnavailable(l)
  <2> DEFINE t == Decide(l).target
             st == [Assigned(l, t) EXCEPT !.phase = "Failed"]
  <2>1. /\ BeginReturn(l, st, MarkedWindow(0)) /\ Mark(t) /\ Select(l, t) /\ lease[l].exists
        /\ Decide(l).kind = "target"
    BY <1>10 DEF BeginUnavailable, Live
  <2>2. /\ t \in Targets
        /\ lease[l].ref # Nil => t = lease[l].ref
        /\ Kept(l) /\ s.namespace => t = s.cluster
        /\ lease[l].ref = Nil => t \in {s.cluster} \cup Candidates
    BY <1>1, <2>1, DecideTarget DEF s
  <2> HIDE DEF t
  <2>3. /\ st \in Status /\ st.cluster = t /\ st.namespace = s.namespace
        /\ st.phase = "Failed"
    BY <1>1, <2>2 DEF Assigned, s, Status, Phases
  <2> HIDE DEF st
  <2>4. Follows(Kept(l), lease[l], st)
    BY <1>1, <2>2, <2>3, PlacementAssumption DEF Follows, Recorded, Agrees, s
  <2>4a. Selection(l, st.cluster)
    BY <2>1, <2>2, <2>3 DEF Selection, s
  <2>5. window' \in [Targets -> 0..MaxBack] /\ MarkedWindow(0) \in Nat \cup {Nil}
    BY <1>1, <2>1, <2>2, MarkType
  <2>6. QED
    BY <2>1, <2>3, <2>4, <2>4a, <2>5, BeginReturnOK DEF s
<1>11. QED
  BY <1>4, <1>5, <1>6, <1>7, <1>8, <1>9, <1>10

\* A worker sets out for a target, or to clean up.
LEMMA BeginOK ==
    ASSUME PInv, NEW l \in Leases, BeginResolved(l) \/ BeginCleanup(l)
    PROVE  StepOK(l)
<1> DEFINE s == lease[l].status
<1>1. /\ TypeOK /\ LeaseOK(Kept(l), lease[l], env[l], w[l]) /\ s \in Status
      /\ Recorded(s) /\ lease[l].ref \in Targets \cup {Nil}
      /\ Kept(l) => Agrees(lease[l].ref, s)
  BY PlacementAssumption DEF PInv, TypeOK, Lease, LeaseOK, StoredOK
<1>2. ASSUME NEW pc \in {"probe", "gate", "remove", "cleanupGate"},
             NEW t \in Targets \cup {Nil}, NEW st \in Status, Begin(l, pc, t, st),
             window' = window, lease[l].exists, Follows(Kept(l), lease[l], st),
             pc \in {"probe", "gate"} =>
                /\ t \in Targets /\ st = [s EXCEPT !.cluster = t]
                /\ lease[l].ref # Nil => t = lease[l].ref,
             pc = "cleanupGate" =>
                t \in Targets /\ (Kept(l) => s.cluster = t /\ st.cluster = t),
             pc = "remove" => ~s.namespace,
             Selection(l, st.cluster)
      PROVE  StepOK(l)
  <2>1. /\ w[l].pc = "idle" /\ CanStart(l)
        /\ w'[l].pc = pc /\ w'[l].target = t /\ w'[l].st = st /\ w'[l].before = s
        /\ w'[l].read = lease[l]
        /\ \A k \in Leases \ {l} : w'[k] = w[k]
        /\ UNCHANGED <<lease, stalled, env, target, link, events, edits>>
        /\ queue' \in [Leases -> Nat \cup {Nil}]
        /\ w' \in [Leases -> Worker]
    BY <1>1, <1>2, BeginFields
  <2>2. TypeOK' /\ OthersKept(l)
    BY <1>1, <1>2, <2>1, SelectionType DEF TypeOK, OthersKept
  <2>3. ClaimsKept(l)
    <3>1. Claimed(lease[l], w'[l]) \subseteq {lease[l].status.cluster, st.cluster}
      BY <2>1 DEF Claimed
    <3>2. QED
      BY <1>2, <2>1, <3>1 DEF ClaimsKept
  <2>4. Kept(l) => (env[l] # {} => s.namespace)
    BY <1>1, <2>1 DEF LeaseOK, WorkerOK
  <2> HIDE DEF s
  <2>5. StoredOK(Kept(l), lease'[l], env'[l])
    BY <1>1, <2>1 DEF LeaseOK
  <2>6. WorkerOK(Kept(l), lease'[l], env'[l], w'[l])
    BY <1>2, <2>1, <2>4 DEF WorkerOK, Follows, s
  <2>7. OnTarget(Kept(l), lease'[l], env'[l], w'[l])
    BY <1>2, <2>1, <2>4 DEF OnTarget, s
  <2>8. QED
    BY <2>2, <2>3, <2>5, <2>6, <2>7 DEF StepOK, LeaseOK
<1>3. CASE BeginResolved(l)
  <2> DEFINE t == Decide(l).target
             st == [s EXCEPT !.cluster = t]
  <2>1. /\ Begin(l, "probe", t, st) /\ lease[l].exists /\ window' = window /\ Select(l, t)
        /\ Decide(l).kind = "target"
    BY <1>3 DEF BeginResolved, Assigned, Live
  <2>2. /\ t \in Targets
        /\ lease[l].ref # Nil => t = lease[l].ref
        /\ Kept(l) /\ s.namespace => t = s.cluster
        /\ lease[l].ref = Nil => t \in {s.cluster} \cup Candidates
    BY <1>1, <2>1, DecideTarget
  <2> HIDE DEF t
  <2>3. Selection(l, t)
    BY <2>1, <2>2 DEF Selection
  <2> HIDE DEF s
  <2>4. /\ st \in Status /\ st.cluster = t /\ st.namespace = s.namespace
        /\ st.phase = s.phase
    BY <1>1, <2>2 DEF Status
  <2>5. Follows(Kept(l), lease[l], st)
    BY <1>1, <2>2, <2>4, PlacementAssumption DEF Follows, Recorded, Agrees, s
  <2>6. QED
    BY <1>2, <2>1, <2>2, <2>3, <2>4, <2>5
<1>4. CASE BeginCleanup(l)
  <2> DEFINE st == [s EXCEPT !.phase = "Cleaning"]
  <2>1. /\ lease[l].exists /\ window' = window /\ unseen' = unseen
        /\ \/ ~s.namespace /\ Begin(l, "remove", Nil, st)
           \/ s.namespace /\ Begin(l, "cleanupGate", CleanupTarget(l), st)
    BY <1>4 DEF BeginCleanup, Cleaning
  <2>2. s.namespace => /\ CleanupTarget(l) \in Targets
                       /\ Kept(l) => CleanupTarget(l) = s.cluster
    BY <1>1 DEF CleanupTarget, Recorded, Agrees, Status
  <2> HIDE DEF s
  <2>3. /\ st \in Status /\ st.cluster = s.cluster /\ st.namespace = s.namespace
        /\ st.phase = "Cleaning"
    BY <1>1 DEF Status, Phases
  <2> HIDE DEF st
  <2>4. Follows(Kept(l), lease[l], st)
    BY <1>1, <2>3 DEF Follows, Recorded, Agrees, s
  <2>5. Selection(l, st.cluster)
    BY <2>1, <2>3 DEF Selection, s
  <2>6. QED
    BY <1>2, <2>1, <2>2, <2>3, <2>4, <2>5
<1>5. QED
  BY <1>3, <1>4

\* A worker goes on with its target.
LEMMA GotoOK ==
    ASSUME PInv, NEW l \in Leases, NEW pc \in GatePCs \cup {"gate", "remove"},
           NEW st \in Status, Goto(l, pc, st), w[l].pc # "idle",
           UNCHANGED <<lease, stalled, target, link, events, history>>,
           window' \in [Targets -> 0..MaxBack], env' \in [Leases -> SUBSET Targets],
           \A k \in Leases \ {l} : env'[k] = env[k],
           Follows(Kept(l), lease[l], st),
           StoredOK(Kept(l), lease[l], env'[l]),
           Kept(l) =>
              (env'[l] # {} => st.namespace /\ st.cluster = lease[l].status.cluster),
           st.cluster = w[l].st.cluster,
           \A k : /\ k.pc = pc /\ k.st = st /\ k.target = w[l].target
                  /\ k.before = w[l].before /\ k.read = w[l].read
                  => OnTarget(Kept(l), lease[l], env'[l], k)
    PROVE  StepOK(l)
<1>1. TypeOK /\ LeaseOK(Kept(l), lease[l], env[l], w[l])
  BY DEF PInv
<1>2. /\ w'[l].pc = pc /\ w'[l].st = st /\ w'[l].target = w[l].target
      /\ w'[l].before = w[l].before /\ w'[l].read = w[l].read
      /\ \A k \in Leases \ {l} : w'[k] = w[k]
      /\ queue' = queue /\ w' \in [Leases -> Worker]
  BY <1>1, GotoFields
<1>3. TypeOK' /\ OthersKept(l)
  BY <1>1, <1>2 DEF TypeOK, OthersKept, history
<1>4. ClaimsKept(l)
  BY <1>2 DEF ClaimsKept, Claimed, Live, history
<1>5. WorkerOK(Kept(l), lease'[l], env'[l], w'[l])
  BY <1>1, <1>2 DEF LeaseOK, WorkerOK, GatePCs
<1>6. OnTarget(Kept(l), lease'[l], env'[l], w'[l])
  BY <1>2
<1>7. QED
  BY <1>3, <1>4, <1>5, <1>6 DEF StepOK, LeaseOK

\* A worker stores the status under construction, or loses to a deletion.
LEMMA PersistOK ==
    ASSUME PInv, NEW l \in Leases, NEW next \in {"ensure", "constraints"},
           NEW st \in Status, Persist(l, next, st), w[l].pc # "idle",
           UNCHANGED <<stalled, env, target, link, window, events, history>>,
           w[l].target \in Targets, w[l].st.cluster = w[l].target,
           st.cluster = w[l].st.cluster, st.namespace = w[l].st.namespace,
           st.phase = "Active" => st.namespace,
           next = "constraints" => st.namespace,
           Kept(l) /\ next = "ensure" /\ w[l].read = lease[l] =>
              (lease[l].ref # Nil => w[l].target = lease[l].ref)
    PROVE  StepOK(l)
<1>1. /\ TypeOK /\ LeaseOK(Kept(l), lease[l], env[l], w[l]) /\ lease[l].exists
      /\ Follows(Kept(l), lease[l], w[l].st)
  BY DEF PInv, LeaseOK, WorkerOK
<1>2. /\ \/ /\ lease'[l].status = w[l].st /\ lease'[l].exists = lease[l].exists
            /\ lease'[l].deleting = lease[l].deleting
            /\ lease'[l].ref = lease[l].ref /\ w[l].read = lease[l]
            /\ w'[l].pc = next /\ w'[l].st = st /\ w'[l].target = w[l].target
            /\ w'[l].before = w[l].before
         \/ /\ lease' = lease
            /\ \/ w'[l] = Resting /\ w[l].st = w[l].before
               \/ Patching(w'[l], w[l].st)
      /\ \A k \in Leases \ {l} : w'[k] = w[k] /\ lease'[k] = lease[k]
      /\ w' \in [Leases -> Worker]
      /\ lease' \in [Leases -> Lease]
      /\ queue' \in [Leases -> Nat \cup {Nil}]
  BY <1>1, PersistFields
<1>3. TypeOK' /\ OthersKept(l)
  BY <1>1, <1>2 DEF TypeOK, OthersKept, history
<1>4. CASE /\ lease'[l].status = w[l].st /\ lease'[l].exists = lease[l].exists
           /\ lease'[l].deleting = lease[l].deleting
           /\ lease'[l].ref = lease[l].ref /\ w[l].read = lease[l]
           /\ w'[l].pc = next /\ w'[l].st = st /\ w'[l].target = w[l].target
           /\ w'[l].before = w[l].before
  <2>1. ClaimsKept(l)
    BY <1>4 DEF ClaimsKept, Claimed, Live, history
  <2>2. StoredOK(Kept(l), lease'[l], env'[l])
    BY <1>1, <1>4 DEF LeaseOK, StoredOK, WorkerOK, Follows
  <2>3. WorkerOK(Kept(l), lease'[l], env'[l], w'[l])
    BY <1>1, <1>4 DEF LeaseOK, WorkerOK, Follows, Recorded, Agrees
  <2>4. OnTarget(Kept(l), lease'[l], env'[l], w'[l])
    BY <1>1, <1>4 DEF OnTarget
  <2>5. QED
    BY <1>3, <2>1, <2>2, <2>3, <2>4 DEF StepOK, LeaseOK
<1>5. CASE /\ lease' = lease
           /\ \/ w'[l] = Resting /\ w[l].st = w[l].before
              \/ Patching(w'[l], w[l].st)
  <2>1. ClaimsKept(l)
    BY <1>5, RestingFields DEF ClaimsKept, Claimed, Patching, Live, history
  <2>2. StoredOK(Kept(l), lease'[l], env'[l])
    BY <1>1, <1>5 DEF LeaseOK
  <2>3. WorkerOK(Kept(l), lease'[l], env'[l], w'[l])
    BY <1>1, <1>5, RestingFields DEF LeaseOK, WorkerOK, Patching
  <2>4. OnTarget(Kept(l), lease'[l], env'[l], w'[l])
    BY <1>5, RestingFields DEF OnTarget, Patching
  <2>5. QED
    BY <1>3, <2>1, <2>2, <2>3, <2>4 DEF StepOK, LeaseOK
<1>6. QED
  BY <1>2, <1>4, <1>5

\* The phase is the only thing that provisioning changes on the way.
LEMMA PhaseFields ==
    ASSUME NEW st \in Status, NEW p \in Phases
    PROVE  LET x == [st EXCEPT !.phase = p]
           IN  x \in Status /\ x.cluster = st.cluster /\ x.namespace = st.namespace /\ x.phase = p
BY DEF Status

\* From the target to the environment.
LEMMA ProvisionOK ==
    ASSUME PInv, NEW l \in Leases,
           \/ Probe(l) \/ ProbeFails(l) \/ AcquireGate(l) \/ EnsureNamespace(l) \/ RecordNamespace(l)
           \/ EnsureConstraints(l) \/ RemoteCallFails(l)
    PROVE  StepOK(l)
<1> DEFINE s == lease[l].status
           t == w[l].target
           st == w[l].st
<1>1. /\ TypeOK /\ StoredOK(Kept(l), lease[l], env[l]) /\ WorkerOK(Kept(l), lease[l], env[l], w[l])
      /\ OnTarget(Kept(l), lease[l], env[l], w[l])
      /\ s \in Status /\ st \in Status /\ w[l].before \in Status
      /\ window \in [Targets -> 0..MaxBack] /\ env \in [Leases -> SUBSET Targets]
      /\ Drift \in Nat \cup {Nil} /\ 0 \in Nat \cup {Nil} /\ {"Active", "Failed", "Provisioning"} \subseteq Phases
      /\ w[l].pc \in {"probe", "gate", "ensure", "record", "constraints"}
  <2>1. w[l].pc \in {"probe", "gate", "ensure", "record", "constraints"}
    BY DEF Probe, ProbeFails, AcquireGate, EnsureNamespace, RecordNamespace, EnsureConstraints, RemoteCallFails
  <2>2. QED
    BY <2>1, PlacementAssumption DEF PInv, TypeOK, Lease, Worker, LeaseOK, Phases
<1>2. t \in Targets /\ st.cluster = t
  BY <1>1 DEF OnTarget, Status
<1>3. w[l].pc # "idle" /\ Follows(Kept(l), lease[l], st)
  BY <1>1 DEF WorkerOK
<1>4. ASSUME NEW p \in {"Active", "Failed"}, NEW result \in Nat \cup {Nil},
             Return(l, [st EXCEPT !.phase = p], result),
             UNCHANGED <<lease, stalled, target, link, events, env, history>>,
             window' \in [Targets -> 0..MaxBack], p = "Active" => st.namespace
      PROVE  StepOK(l)
  <2> DEFINE x == [st EXCEPT !.phase = p]
  <2>1. /\ x \in Status /\ x.cluster = st.cluster /\ x.namespace = st.namespace
        /\ x.phase = p
    BY <1>1, PhaseFields
  <2>2. Kept(l) => /\ \A u \in env[l] : s.cluster = u
                   /\ env[l] # {} => st.namespace
    BY <1>1 DEF StoredOK, WorkerOK
  <2> HIDE DEF x, s, st, t
  <2>3. QED
    BY <1>1, <1>3, <1>4, <2>1, <2>2, ReturnOK DEF x, s, st
<1>5. CASE Probe(l)
  <2>1. /\ w[l].pc = "probe" /\ UNCHANGED <<lease, stalled, env, target, link, events, history>>
        /\ window' = [window EXCEPT ![t] = 0] /\ Goto(l, "gate", st)
    BY <1>5 DEF Probe
  <2>2. window' \in [Targets -> 0..MaxBack]
    <3>1. 0 \in 0..MaxBack
      BY PlacementAssumption
    <3>2. QED
      BY <1>1, <2>1, <3>1
  <2>3. ASSUME NEW k, k.pc = "gate", k.st = st, k.target = t, k.before = w[l].before,
               k.read = w[l].read
        PROVE  OnTarget(Kept(l), lease[l], env[l], k)
    BY <1>1, <2>1, <2>3 DEF OnTarget
  <2>4. Kept(l) => (env[l] # {} => st.namespace /\ st.cluster = s.cluster)
    BY <1>1 DEF WorkerOK
  <2>5. QED
    BY <1>1, <1>3, <2>1, <2>2, <2>3, <2>4, GotoOK
<1>5a. CASE ProbeFails(l)
  <2>1. /\ UNCHANGED <<lease, stalled, env, target, link, events, history>>
        /\ Mark(t) /\ Return(l, [st EXCEPT !.phase = "Failed"], MarkedWindow(window[t]))
    BY <1>5a DEF ProbeFails
  <2>2. window' \in [Targets -> 0..MaxBack] /\ MarkedWindow(window[t]) \in Nat \cup {Nil}
    BY <1>1, <1>2, <2>1, MarkType
  <2>3. QED
    BY <1>4, <2>1, <2>2
<1>6. CASE AcquireGate(l)
  <2> DEFINE x == StartProvisioning(l, st)
  <2>1. /\ w[l].pc = "gate" /\ UNCHANGED <<stalled, env, target, link, window, events, history>>
        /\ \/ Persist(l, "ensure", x)
           \/ /\ Goto(l, "ensure", x) /\ lease' = lease
              /\ w[l].before.phase = "Active" \/ st.namespace
    BY <1>6 DEF AcquireGate
  <2>2. /\ x \in Status /\ x.cluster = st.cluster /\ x.namespace = st.namespace
        /\ x.phase \in {st.phase, "Provisioning"}
    BY <1>1, PhaseFields DEF StartProvisioning
  <2>3. x.phase = "Active" => x.namespace
    BY <1>3, <2>2 DEF Follows, Recorded
  <2> HIDE DEF x
  <2>4. CASE Persist(l, "ensure", x)
    <3>1. w[l].read = lease[l] => (lease[l].ref # Nil => t = lease[l].ref)
      BY <1>1, <2>1 DEF OnTarget
    <3>2. QED
      BY <1>2, <1>3, <2>1, <2>2, <2>3, <2>4, <3>1, PersistOK
  <2>5. CASE /\ Goto(l, "ensure", x) /\ lease' = lease
             /\ w[l].before.phase = "Active" \/ st.namespace
    <3>1. s = w[l].before /\ st = [s EXCEPT !.cluster = t]
      BY <1>1, <2>1 DEF OnTarget
    <3>2. st.namespace = s.namespace
      <4> HIDE DEF s, st
      <4>1. QED
        BY <1>1, <3>1 DEF Status
    <3>3. s.namespace
      BY <1>1, <2>5, <3>1, <3>2 DEF StoredOK, Recorded
    <3>4. Kept(l) => s.cluster = t /\ (lease[l].ref # Nil => t = lease[l].ref)
      BY <1>2, <1>3, <3>2, <3>3 DEF Follows, Agrees
    <3>5. ASSUME NEW k, k.pc = "ensure", k.st = x, k.target = t, k.before = w[l].before,
                 k.read = w[l].read
          PROVE  OnTarget(Kept(l), lease[l], env[l], k)
      BY <1>2, <2>2, <3>4, <3>5 DEF OnTarget
    <3>6. Follows(Kept(l), lease[l], x)
      BY <1>3, <2>2, <2>3 DEF Follows, Recorded, Agrees
    <3>7. QED
      BY <1>1, <1>2, <1>3, <2>1, <2>2, <2>5, <3>2, <3>3, <3>4, <3>5, <3>6, GotoOK DEF GatePCs
  <2>6. QED
    BY <2>1, <2>4, <2>5
<1>7. CASE EnsureNamespace(l)
  <2>1. /\ w[l].pc = "ensure" /\ UNCHANGED <<lease, stalled, target, link, window, events, history>>
        /\ env' = [env EXCEPT ![l] = @ \cup {t}]
        /\ \/ st.namespace /\ Return(l, [st EXCEPT !.phase = "Active"], Drift)
           \/ Goto(l, "record", [st EXCEPT !.namespace = TRUE])
    BY <1>7 DEF EnsureNamespace
  <2>2. /\ env' \in [Leases -> SUBSET Targets] /\ env'[l] = env[l] \cup {t}
        /\ \A k \in Leases \ {l} : env'[k] = env[k]
    BY <1>1, <1>2, <2>1
  <2>3. Kept(l) => s.cluster = t /\ (lease[l].ref # Nil => t = lease[l].ref)
    BY <1>1, <2>1 DEF OnTarget
  <2>4. StoredOK(Kept(l), lease[l], env'[l]) /\ (Kept(l) => \A u \in env'[l] : s.cluster = u)
    BY <1>1, <2>2, <2>3, <1>3 DEF StoredOK, WorkerOK
  <2>5. CASE st.namespace /\ Return(l, [st EXCEPT !.phase = "Active"], Drift)
    <3> DEFINE x == [st EXCEPT !.phase = "Active"]
    <3>1. /\ x \in Status /\ x.cluster = st.cluster /\ x.namespace = st.namespace
      BY <1>1, PhaseFields
    <3> HIDE DEF x, s, st, t
    <3>2. QED
      BY <1>1, <1>2, <1>3, <2>1, <2>2, <2>3, <2>4, <2>5, <3>1, ReturnOK DEF x, s, st, t
  <2>6. CASE Goto(l, "record", [st EXCEPT !.namespace = TRUE])
    <3> DEFINE x == [st EXCEPT !.namespace = TRUE]
    <3>1. x \in Status /\ x.cluster = st.cluster /\ x.namespace
      <4> HIDE DEF s, st, t
      <4>1. QED
        BY <1>1 DEF Status
    <3> HIDE DEF x
    <3>2. Follows(Kept(l), lease[l], x)
      BY <1>2, <1>3, <2>3, <3>1, PlacementAssumption DEF Follows, Recorded, Agrees
    <3>3. ASSUME NEW k, k.pc = "record", k.st = x, k.target = t, k.before = w[l].before,
                 k.read = w[l].read
          PROVE  OnTarget(Kept(l), lease[l], env'[l], k)
      BY <1>2, <2>3, <3>1, <3>3 DEF OnTarget
    <3>4. QED
      BY <1>1, <1>2, <1>3, <2>1, <2>2, <2>3, <2>4, <2>6, <3>1, <3>2, <3>3, GotoOK
         DEF x, GatePCs
  <2>7. QED
    BY <2>1, <2>5, <2>6
<1>8. CASE RecordNamespace(l)
  <2>1. /\ w[l].pc = "record" /\ UNCHANGED <<stalled, env, target, link, window, events, history>>
        /\ Persist(l, "constraints", st)
    BY <1>8 DEF RecordNamespace
  <2>2. st.namespace
    BY <1>1, <2>1 DEF OnTarget
  <2>3. QED
    BY <1>1, <1>2, <1>3, <2>1, <2>2, PersistOK
<1>9. CASE EnsureConstraints(l)
  <2>1. /\ w[l].pc = "constraints" /\ UNCHANGED <<lease, stalled, env, target, link, window, events, history>>
        /\ Return(l, [st EXCEPT !.phase = "Active"], Drift)
    BY <1>9 DEF EnsureConstraints
  <2>2. st.namespace
    BY <1>1, <2>1 DEF OnTarget
  <2>3. QED
    BY <1>1, <1>4, <2>1, <2>2
<1>10. CASE RemoteCallFails(l)
  <2>1. /\ UNCHANGED <<lease, stalled, env, target, link, window, events, history>>
        /\ Return(l, [st EXCEPT !.phase = "Failed"], 0)
    BY <1>10 DEF RemoteCallFails
  <2>2. QED
    BY <1>1, <1>4, <2>1
<1>11. QED
  BY <1>5, <1>5a, <1>6, <1>7, <1>8, <1>9, <1>10

\* Cleanup, and the last status.
LEMMA EndOK ==
    ASSUME PInv, NEW l \in Leases,
           \/ AcquireCleanupGate(l) \/ DeleteNamespace(l) \/ RemoveLease(l) \/ PatchStatus(l)
    PROVE  StepOK(l)
<1> DEFINE s == lease[l].status
           t == w[l].target
           st == w[l].st
<1>1. /\ TypeOK /\ StoredOK(Kept(l), lease[l], env[l]) /\ WorkerOK(Kept(l), lease[l], env[l], w[l])
      /\ OnTarget(Kept(l), lease[l], env[l], w[l])
      /\ lease[l] \in Lease /\ s \in Status /\ st \in Status /\ w[l].result \in Nat \cup {Nil}
      /\ window \in [Targets -> 0..MaxBack] /\ env \in [Leases -> SUBSET Targets]
      /\ Retry \in Nat \cup {Nil}
      /\ w[l].pc \in {"cleanupGate", "delete", "remove", "patch"}
  <2>1. w[l].pc \in {"cleanupGate", "delete", "remove", "patch"}
    BY DEF AcquireCleanupGate, DeleteNamespace, RemoveLease, PatchStatus
  <2>2. QED
    BY <2>1, PlacementAssumption DEF PInv, TypeOK, Lease, Worker, LeaseOK
<1>2. /\ w[l].pc # "idle" /\ lease[l].exists /\ Follows(Kept(l), lease[l], st)
      /\ Kept(l) => (env[l] # {} => st.namespace /\ st.cluster = s.cluster)
  BY <1>1 DEF WorkerOK
<1>3. CASE AcquireCleanupGate(l)
  <2>1. /\ w[l].pc = "cleanupGate" /\ Goto(l, "delete", st)
        /\ UNCHANGED <<lease, stalled, env, target, link, window, events, history>>
    BY <1>3 DEF AcquireCleanupGate
  <2>2. ASSUME NEW k, k.pc = "delete", k.st = st, k.target = t, k.before = w[l].before,
               k.read = w[l].read
        PROVE  OnTarget(Kept(l), lease[l], env[l], k)
    BY <1>1, <2>1, <2>2 DEF OnTarget
  <2>3. QED
    BY <1>1, <1>2, <2>1, <2>2, GotoOK DEF GatePCs
<1>4. CASE DeleteNamespace(l)
  <2>1. /\ w[l].pc = "delete" /\ UNCHANGED <<lease, stalled, target, link, window, events, history>>
        /\ \/ t \notin env[l] /\ Goto(l, "remove", st) /\ env' = env
           \/ /\ Return(l, st, Retry)
              /\ env' = [env EXCEPT ![l] = @ \ {t}] \/ env' = env
    BY <1>4 DEF DeleteNamespace
  <2>2. Kept(l) => s.cluster = t /\ st.cluster = t
    BY <1>1, <2>1 DEF OnTarget
  <2>3. CASE t \notin env[l] /\ Goto(l, "remove", st) /\ env' = env
    <3>1. Kept(l) => env[l] = {}
      BY <1>1, <2>2, <2>3 DEF StoredOK
    <3>2. ASSUME NEW k, k.pc = "remove", k.st = st, k.target = t, k.before = w[l].before,
                 k.read = w[l].read
          PROVE  OnTarget(Kept(l), lease[l], env[l], k)
      BY <3>1, <3>2 DEF OnTarget
    <3>3. QED
      BY <1>1, <1>2, <2>1, <2>3, <3>1, <3>2, GotoOK
  <2>4. CASE /\ Return(l, st, Retry)
             /\ env' = [env EXCEPT ![l] = @ \ {t}] \/ env' = env
    <3>1. /\ env' \in [Leases -> SUBSET Targets] /\ env'[l] \subseteq env[l]
          /\ \A k \in Leases \ {l} : env'[k] = env[k]
      BY <1>1, <2>4
    <3>2. Kept(l) => \A u \in env'[l] : s.cluster = u
      BY <1>1, <3>1 DEF StoredOK
    <3>3. Kept(l) => (env'[l] # {} => st.namespace)
      BY <1>2, <3>1
    <3>4. st.phase = "Active" => st.namespace
      BY <1>2 DEF Follows, Recorded
    <3>5. QED
      BY <1>1, <1>2, <2>1, <2>2, <2>4, <3>1, <3>2, <3>3, <3>4, ReturnOK
  <2>5. QED
    BY <2>1, <2>3, <2>4
<1>5. CASE RemoveLease(l)
  <2> DEFINE x == NoLease
  <2>1. /\ w[l].pc = "remove" /\ UNCHANGED <<stalled, env, target, link, window, events, history>>
        /\ lease' = [lease EXCEPT ![l] = x]
        /\ w' = [w EXCEPT ![l] = Resting]
        /\ queue' = [queue EXCEPT ![l] = 0]
    BY <1>5 DEF RemoveLease
  <2>2. x \in Lease /\ ~x.exists /\ x.status = NoStatus /\ x.ref = Nil
    BY RestingFields DEF Lease, NoLease
  <2> HIDE DEF x
  <2>3. TypeOK' /\ OthersKept(l) /\ lease'[l] = x /\ w'[l] = Resting
    BY <1>1, <2>1, <2>2, RestingFields DEF TypeOK, OthersKept, history
  <2>4. Kept(l) => env[l] = {}
    BY <1>1, <2>1 DEF OnTarget
  <2>5. Recorded(NoStatus) /\ Agrees(Nil, NoStatus)
    BY DEF Recorded, NoStatus, Agrees
  <2>6. LeaseOK(Kept(l), lease'[l], env'[l], w'[l])
    BY <2>1, <2>2, <2>3, <2>4, <2>5, RestingFields
       DEF LeaseOK, StoredOK, WorkerOK, OnTarget
  <2>7. ClaimsKept(l)
    BY <2>1, <2>2, <2>3 DEF ClaimsKept, history
  <2>8. QED
    BY <2>3, <2>6, <2>7 DEF StepOK
<1>6. CASE PatchStatus(l)
  <2> DEFINE x == [lease[l] EXCEPT !.status = st]
             q == IF s # st THEN 0 ELSE RequeueAfter(l, w[l].result)
  <2>1. /\ UNCHANGED <<stalled, env, target, link, window, events, history>>
        /\ lease' = [lease EXCEPT ![l].status = st]
        /\ w' = [w EXCEPT ![l] = Resting]
        /\ queue' = [queue EXCEPT ![l] = q]
    BY <1>6 DEF PatchStatus
  <2>2. /\ x \in Lease /\ x.status = st /\ x.exists = lease[l].exists
        /\ x.deleting = lease[l].deleting /\ x.ref = lease[l].ref
    BY <1>1 DEF Lease
  <2>3. q \in Nat \cup {Nil}
    BY <1>1, RequeueType
  <2>4. lease'[l] = x /\ lease' \in [Leases -> Lease] /\ \A k \in Leases \ {l} : lease'[k] = lease[k]
    <3>1. lease' = [lease EXCEPT ![l] = x] /\ lease \in [Leases -> Lease]
      BY <1>1, <2>1 DEF TypeOK
    <3> HIDE DEF x
    <3>2. QED
      BY <2>2, <3>1
  <2> HIDE DEF x, q, s, st
  <2>5. TypeOK' /\ OthersKept(l) /\ w'[l] = Resting
    BY <1>1, <2>1, <2>3, <2>4, RestingFields DEF TypeOK, OthersKept, history
  <2>6. ClaimsKept(l)
    BY <1>2, <2>1, <2>2, <2>4, <2>5, RestingFields DEF ClaimsKept, Claimed, Live, st, history
  <2>7. LeaseOK(Kept(l), lease'[l], env'[l], w'[l])
    BY <1>1, <1>2, <2>1, <2>2, <2>4, <2>5, RestingFields
       DEF LeaseOK, StoredOK, WorkerOK, OnTarget, Follows, s
  <2>8. QED
    BY <2>5, <2>6, <2>7 DEF StepOK
<1>7. QED
  BY <1>3, <1>4, <1>5, <1>6

\* Every step of Reconcile.
LEMMA ReconcileOK ==
    ASSUME PInv, NEW l \in Leases, Reconcile(l)
    PROVE  StepOK(l)
BY EarlyReturns, BeginOK, ProvisionOK, EndOK DEF Reconcile

-----------------------------------------------------------------------------
(* Everybody else                                                          *)

\* At most a lease is deleted.
Elsewhere ==
    /\ UNCHANGED <<env, w, history>>
    /\ \A l \in Leases :
          \/ lease'[l] = lease[l]
          \/ /\ lease'[l].status = lease[l].status /\ lease'[l].exists = lease[l].exists
             /\ lease'[l].deleting /\ lease'[l].ref = lease[l].ref

LEMMA DueType ==
    ASSUME TypeOK, NEW S, Due(S)
    PROVE  queue' \in [Leases -> Nat \cup {Nil}]
BY DEF TypeOK, Due

\* Writes to a ClusterTarget.
LEMMA WriteTargetOK ==
    ASSUME TypeOK, NEW t \in Targets, NEW new \in Target, WriteTarget(t, new),
           UNCHANGED <<lease, stalled, env, link, window, w, history>>, events' \in 0..MaxEvents
    PROVE  TypeOK' /\ Elsewhere
<1>1. target' \in [Targets -> Target]
  BY DEF WriteTarget, TypeOK
<1>2. queue' \in [Leases -> Nat \cup {Nil}]
  BY DueType DEF WriteTarget, TypeOK
<1>3. QED
  BY <1>1, <1>2 DEF TypeOK, Elsewhere, history

LEMMA OtherSteps ==
    ASSUME TypeOK,
           \/ \E l \in Leases : Expire(l)
           \/ \E t \in Targets : ReconcileTarget(t)
           \/ \E t \in Targets :
                 \/ LinkBreaks(t) \/ LinkRepaired(t)
                 \/ Disable(t) \/ Relabel(t) \/ Restore(t) \/ DeleteTarget(t)
           \/ Stall \/ Observe \/ Tick
           \/ UNCHANGED vars
    PROVE  TypeOK' /\ Elsewhere
<1>1. CASE UNCHANGED vars
  BY <1>1 DEF TypeOK, Elsewhere, history, vars
<1>2. ASSUME NEW l \in Leases, Expire(l)
      PROVE  TypeOK' /\ Elsewhere
  <2> DEFINE x == [lease[l] EXCEPT !.deleting = TRUE]
  <2>1. /\ UNCHANGED <<stalled, env, target, link, window, w, events, history>> /\ Due({l})
        /\ lease' = [lease EXCEPT ![l].deleting = TRUE]
        /\ lease \in [Leases -> Lease]
    BY <1>2 DEF Expire, TypeOK
  <2>2. /\ x \in Lease /\ x.status = lease[l].status /\ x.exists = lease[l].exists
        /\ x.deleting /\ x.ref = lease[l].ref
    BY <2>1 DEF Lease
  <2>3. lease' = [lease EXCEPT ![l] = x]
    BY <2>1
  <2> HIDE DEF x
  <2>4. queue' \in [Leases -> Nat \cup {Nil}]
    BY <2>1, DueType
  <2>5. QED
    BY <2>1, <2>2, <2>3, <2>4 DEF TypeOK, Elsewhere, history
<1>3. ASSUME NEW t \in Targets
      PROVE  /\ target[t] \in Target /\ NoTarget \in Target
             /\ [target[t] EXCEPT !.finalizer = TRUE] \in Target
             /\ [target[t] EXCEPT !.ready = FALSE] \in Target
             /\ [target[t] EXCEPT !.enabled = FALSE] \in Target
             /\ [target[t] EXCEPT !.matches = FALSE] \in Target
             /\ [target[t] EXCEPT !.deleting = TRUE] \in Target
             /\ [target[t] EXCEPT !.enabled = TRUE, !.matches = TRUE] \in Target
             /\ Health(t) \in Target
  <2>1. target[t] \in Target
    BY DEF TypeOK
  <2>2. QED
    BY <2>1 DEF Target, NoTarget, Health
<1>4. events \in 0..MaxEvents /\ \A t, f : Happens(t, f) => events' \in 0..MaxEvents
  BY PlacementAssumption DEF TypeOK, Happens
<1>5. ASSUME NEW t \in Targets, ReconcileTarget(t)
      PROVE  TypeOK' /\ Elsewhere
  <2>1. PICK new \in Target : WriteTarget(t, new)
    BY <1>3, <1>5
       DEF ReconcileTarget, TargetAddFinalizer, TargetHealth, TargetHeld, TargetRemove
  <2>2. UNCHANGED <<lease, stalled, env, link, window, w, events, history>>
    BY <1>5 DEF ReconcileTarget, TargetAddFinalizer, TargetHealth, TargetHeld, TargetRemove
  <2>3. QED
    BY <1>4, <2>1, <2>2, WriteTargetOK
<1>6. ASSUME NEW t \in Targets, Disable(t) \/ Relabel(t) \/ Restore(t) \/ DeleteTarget(t)
      PROVE  TypeOK' /\ Elsewhere
  <2>1. PICK new \in Target : WriteTarget(t, new)
    BY <1>3, <1>6 DEF Disable, Relabel, Restore, DeleteTarget
  <2>2. UNCHANGED <<lease, stalled, env, link, window, w, history>> /\ events' \in 0..MaxEvents
    BY <1>4, <1>6 DEF Disable, Relabel, Restore, DeleteTarget
  <2>3. QED
    BY <2>1, <2>2, WriteTargetOK
<1>7. ASSUME NEW t \in Targets, LinkBreaks(t) \/ LinkRepaired(t)
      PROVE  TypeOK' /\ Elsewhere
  <2>1. /\ UNCHANGED <<lease, stalled, env, target, window, queue, w, history>>
        /\ events' \in 0..MaxEvents
        /\ \E c \in {"up", "down", "badSecret"} : link' = [link EXCEPT ![t] = c]
    BY <1>4, <1>7 DEF LinkBreaks, LinkRepaired
  <2>2. QED
    BY <2>1 DEF TypeOK, Elsewhere, history
<1>8. CASE Tick
  <2>1. UNCHANGED <<lease, stalled, env, target, link, w, events, history>>
    BY <1>8 DEF Tick
  <2>2. queue \in [Leases -> Nat \cup {Nil}] /\ window \in [Targets -> 0..MaxBack]
    BY DEF TypeOK
  <2>3. queue' \in [Leases -> Nat \cup {Nil}]
    BY <1>8, <2>2 DEF Tick
  <2>4. window' \in [Targets -> 0..MaxBack]
    BY <1>8, <2>2, PlacementAssumption DEF Tick
  <2>5. QED
    BY <2>1, <2>3, <2>4 DEF TypeOK, Elsewhere, history
<1>9. CASE Stall \/ Observe
  <2>1. /\ UNCHANGED <<lease, env, target, link, window, queue, w, history>>
        /\ events' \in 0..MaxEvents /\ stalled' \in {Placed, Nil}
    BY <1>9, PlacementAssumption DEF Stall, Observe, TypeOK
  <2>2. Placed \in [Leases -> Targets \cup {Nil}]
    BY DEF Placed, TypeOK, Lease, Status
  <2>3. QED
    BY <2>1, <2>2 DEF TypeOK, Elsewhere, history
<1>10. QED
  BY <1>1, <1>2, <1>5, <1>6, <1>7, <1>8, <1>9

\* A clusterRef is changed: too late, or for a lease that has no Namespace and
\* whose worker, if it has one, will find the conflict.
LEMMA RetargetOK ==
    ASSUME PInv, NEW l \in Leases, NEW t \in Targets \cup {Nil}, Retarget(l, t)
    PROVE  /\ PInv'
           /\ \A u \in Targets : Claims(u)' \subseteq Claims(u)
           /\ unseen' = unseen
<1> DEFINE x == [lease[l] EXCEPT !.ref = t]
           late == edits[l] = "late" \/ Committed(l)
<1>1. /\ UNCHANGED <<stalled, env, target, link, window, w, unseen>> /\ Due({l})
      /\ lease' = [lease EXCEPT ![l].ref = t]
      /\ edits' = [edits EXCEPT ![l] = IF late THEN "late" ELSE "early"]
      /\ events' \in 0..MaxEvents
      /\ lease \in [Leases -> Lease] /\ edits \in [Leases -> {"no", "early", "late"}]
  BY PlacementAssumption DEF Retarget, PInv, TypeOK
<1>2. /\ x \in Lease /\ x.status = lease[l].status /\ x.exists = lease[l].exists
      /\ x.deleting = lease[l].deleting /\ x.ref = t
  BY <1>1 DEF Lease
<1>3. lease' = [lease EXCEPT ![l] = x]
  BY <1>1
<1> HIDE DEF x, late
<1>4. TypeOK'
  <2>1. queue' \in [Leases -> Nat \cup {Nil}]
    BY <1>1, DueType DEF PInv
  <2>2. QED
    BY <1>1, <1>2, <1>3, <2>1 DEF PInv, TypeOK
<1>5. ASSUME NEW k \in Leases
      PROVE  LeaseOK(Kept(k)', lease'[k], env'[k], w'[k])
  <2>1. LeaseOK(Kept(k), lease[k], env[k], w[k])
    BY DEF PInv
  <2>2. CASE k # l
    BY <1>1, <1>3, <2>1, <2>2 DEF Kept
  <2>3. CASE k = l
    <3>1. /\ lease'[l] = x /\ env' = env /\ w' = w
          /\ Kept(l)' => Kept(l) /\ ~Committed(l)
      BY <1>1, <1>3 DEF Kept, late
    <3>2. CASE ~Kept(l)'
      BY <1>2, <2>1, <2>3, <3>1, <3>2 DEF LeaseOK, StoredOK, WorkerOK, OnTarget, Follows
    <3>3. CASE Kept(l)'
      <4>1. /\ Kept(l) /\ ~lease[l].status.namespace /\ ~w[l].st.namespace
            /\ w[l].pc # "ensure"
        BY <3>1, <3>3 DEF Committed
      <4>2. StoredOK(Kept(l)', x, env[l])
        BY <1>2, <2>1, <2>3, <4>1 DEF LeaseOK, StoredOK, Agrees
      <4>3. WorkerOK(Kept(l)', x, env[l], w[l])
        BY <1>2, <2>1, <2>3, <4>1 DEF LeaseOK, WorkerOK, Follows, Agrees
      <4>4. OnTarget(Kept(l)', x, env[l], w[l])
        BY <1>2, <2>1, <2>3, <4>1 DEF LeaseOK, OnTarget
      <4>5. QED
        BY <2>3, <3>1, <4>2, <4>3, <4>4 DEF LeaseOK
    <3>4. QED
      BY <3>2, <3>3
  <2>4. QED
    BY <2>2, <2>3
<1>6. ASSUME NEW u \in Targets
      PROVE  Claims(u)' \subseteq Claims(u)
  BY <1>1, <1>2, <1>3 DEF Claims, Claiming, Live
<1>7. QED
  BY <1>1, <1>4, <1>5, <1>6 DEF PInv

-----------------------------------------------------------------------------
(* Placement                                                               *)

LEMMA InitOK ==
    ASSUME Init
    PROVE  PInv
<1>1. /\ events \in 0..MaxEvents /\ stalled = Nil
      /\ env = [l \in Leases |-> {}] /\ w = [l \in Leases |-> Resting]
      /\ queue \in [Leases -> Nat \cup {Nil}] /\ window \in [Targets -> 0..MaxBack]
      /\ link \in [Targets -> {"up", "down", "badSecret"}]
      /\ edits \in [Leases -> {"no", "early", "late"}]
      /\ unseen \in [Leases -> [Targets -> SUBSET Leases]]
  <2>1. 0 \in 0..MaxEvents /\ 0 \in 0..MaxBack /\ 0 \in Nat \cup {Nil}
    BY PlacementAssumption
  <2>2. QED
    BY <2>1 DEF Init
<1>2. target \in [Targets -> Target]
  BY DEF Init, NoTarget, Target
<1>3. /\ lease \in [Leases -> Lease]
      /\ \A l \in Leases : lease[l].exists /\ lease[l].status = NoStatus
  <2>1. PICK ref \in ClusterRefs :
            lease = [l \in Leases |-> [exists |-> TRUE, deleting |-> FALSE,
                                       ref |-> ref[l], status |-> NoStatus]]
    BY DEF Init
  <2>2. \A l \in Leases : ref[l] \in Targets \cup {Nil}
    BY PlacementAssumption
  <2>3. QED
    BY <2>1, <2>2, RestingFields DEF Lease
<1>4. TypeOK
  BY <1>1, <1>2, <1>3, RestingFields DEF TypeOK
<1>5. /\ Recorded(NoStatus)
      /\ \A r : Agrees(r, NoStatus)
  BY DEF Recorded, NoStatus, Agrees
<1>6. ASSUME NEW l \in Leases
      PROVE  LeaseOK(Kept(l), lease[l], env[l], w[l])
  BY <1>1, <1>3, <1>5, RestingFields DEF LeaseOK, StoredOK, WorkerOK, OnTarget
<1>7. QED
  BY <1>4, <1>6 DEF PInv

\* What a step does to the claims.
ClaimsStep ==
    \/ /\ \A t \in Targets : Claims(t)' \subseteq Claims(t)
       /\ unseen' = unseen
    \/ \E l \in Leases : OthersKept(l) /\ ClaimsKept(l)

LEMMA NextOK ==
    ASSUME PInv, [Next]_vars
    PROVE  PInv' /\ ClaimsStep
<1>1. ASSUME NEW l \in Leases, Reconcile(l)
      PROVE  PInv' /\ ClaimsStep
  <2>1. StepOK(l)
    BY <1>1, ReconcileOK
  <2>2. ASSUME NEW k \in Leases
        PROVE  LeaseOK(Kept(k)', lease'[k], env'[k], w'[k])
    BY <2>1 DEF PInv, StepOK, OthersKept, Kept
  <2>3. QED
    BY <2>1, <2>2 DEF PInv, StepOK, ClaimsStep
<1>2. CASE \/ \E l \in Leases : Expire(l)
           \/ \E t \in Targets : ReconcileTarget(t)
           \/ \E t \in Targets :
                 \/ LinkBreaks(t) \/ LinkRepaired(t)
                 \/ Disable(t) \/ Relabel(t) \/ Restore(t) \/ DeleteTarget(t)
           \/ Stall \/ Observe \/ Tick
           \/ UNCHANGED vars
  <2>1. TypeOK' /\ Elsewhere
    BY <1>2, OtherSteps DEF PInv
  <2>2. ASSUME NEW k \in Leases
        PROVE  LeaseOK(Kept(k)', lease'[k], env'[k], w'[k])
    <3>1. /\ lease'[k].status = lease[k].status /\ lease'[k].exists = lease[k].exists
          /\ lease'[k].ref = lease[k].ref /\ Kept(k)' = Kept(k) /\ env' = env /\ w' = w
          /\ LeaseOK(Kept(k), lease[k], env[k], w[k])
      BY <2>1 DEF PInv, Elsewhere, Kept, history
    <3>2. QED
      BY <3>1 DEF LeaseOK, StoredOK, WorkerOK, OnTarget, Follows
  <2>3. \A t \in Targets : Claims(t)' \subseteq Claims(t)
    BY <2>1 DEF Elsewhere, Claims, Claiming, Live, history
  <2>4. QED
    BY <2>1, <2>2, <2>3 DEF PInv, ClaimsStep, Elsewhere, history
<1>3. ASSUME NEW l \in Leases, NEW t \in Targets \cup {Nil}, Retarget(l, t)
      PROVE  PInv' /\ ClaimsStep
  BY <1>3, RetargetOK DEF ClaimsStep
<1>4. QED
  BY <1>1, <1>2, <1>3 DEF Next

\* A new claim is made where the counted leases leave room; a set of claims
\* with it holds no others than these and the ones it did not see.
LEMMA ClaimsStayUnseen ==
    ASSUME PInv, ClaimsUnseen, ClaimsStep
    PROVE  ClaimsUnseen'
<1> SUFFICES ASSUME NEW t \in Targets, MaxActiveLeases[t] # Nil,
                    NEW S \in SUBSET (Claims(t)'), S # {}
             PROVE  \E l \in S : Cardinality(S \ unseen'[l][t]) <= MaxActiveLeases[t]
  BY DEF ClaimsUnseen
<1>1. /\ IsFiniteSet(Leases) /\ MaxActiveLeases[t] \in Nat
      /\ Claims(t) \subseteq Leases /\ Claims(t)' \subseteq Leases
      /\ unseen \in [Leases -> [Targets -> SUBSET Leases]]
  BY PlacementAssumption DEF Claims, PInv, TypeOK
<1>2. CASE S \subseteq Claims(t) /\ \A l \in S : unseen'[l][t] = unseen[l][t]
  <2>1. PICK l \in S : Cardinality(S \ unseen[l][t]) <= MaxActiveLeases[t]
    BY <1>2 DEF ClaimsUnseen
  <2>2. QED
    BY <1>2, <2>1
<1>3. CASE (\A u \in Targets : Claims(u)' \subseteq Claims(u)) /\ unseen' = unseen
  BY <1>2, <1>3
<1>4. ASSUME NEW l \in Leases, OthersKept(l), ClaimsKept(l)
      PROVE  \E k \in S : Cardinality(S \ unseen'[k][t]) <= MaxActiveLeases[t]
  <2>1. \A k \in Leases \ {l} : k \in Claims(t)' => k \in Claims(t) /\ Claiming(k, t)
    BY <1>4 DEF OthersKept, Claims, Claiming, Live
  <2>2. CASE /\ unseen' = unseen
             /\ lease'[l].exists /\ ~lease'[l].deleting =>
                   /\ Live(l) /\ lease'[l].ref = lease[l].ref
                   /\ Claimed(lease'[l], w'[l]) \subseteq Claimed(lease[l], w[l])
    <3>1. l \in Claims(t)' => l \in Claims(t)
      BY <1>4, <2>2 DEF OthersKept, Claims, Claiming, Claimed, Live
    <3>2. QED
      BY <1>1, <1>2, <2>1, <2>2, <3>1
  <2>3. ASSUME NEW c, lease' = lease, w[l].pc = "idle", Selection(l, c),
               Claimed(lease[l], w'[l]) \subseteq {lease[l].status.cluster, c}
        PROVE  \E k \in S : Cardinality(S \ unseen'[k][t]) <= MaxActiveLeases[t]
    <3>1. l \in Claims(t)' => /\ Live(l) /\ lease[l].ref = Nil /\ edits[l] = "no"
                              /\ t \in {lease[l].status.cluster, c}
      BY <1>4, <2>3 DEF OthersKept, Claims, Claiming, Claimed, Live
    <3>2. Live(l) /\ lease[l].ref = Nil /\ edits[l] = "no" /\ lease[l].status.cluster = t
             => l \in Claims(t)
      BY DEF Claims, Claiming
    <3>3. CASE l \notin S
      <4>1. \A k \in S : unseen'[k][t] = unseen[k][t]
        BY <1>1, <2>3, <3>3 DEF Selection, Select
      <4>2. QED
        BY <1>1, <1>2, <2>1, <3>3, <4>1
    <3>4. CASE l \in S /\ t = lease[l].status.cluster
      <4>1. \A k \in S : unseen'[k][t] = unseen[k][t]
        BY <1>1, <2>3, <3>4 DEF Selection, Select
      <4>2. QED
        BY <1>1, <1>2, <2>1, <3>1, <3>2, <3>4, <4>1
    <3>5. CASE l \in S /\ t # lease[l].status.cluster
      <4> DEFINE C == {k \in Leases : Counted[k] = t}
      <4>1. /\ t = c /\ Select(l, t) /\ t \in Candidates /\ t # lease[l].ref
        BY <2>3, <3>1, <3>5, PlacementAssumption DEF Selection
      <4>2. unseen'[l][t] = {k \in Leases \ {l} : Claiming(k, t) /\ Counted[k] # t}
        BY <1>1, <3>5, <4>1 DEF Select
      <4>3. S \ unseen'[l][t] \in SUBSET (C \cup {l})
        BY <1>1, <2>1, <4>2
      <4>4. Cardinality(C) < MaxActiveLeases[t]
        BY <4>1 DEF Candidates, UnderSoftCapacity, ActiveLeases
      <4>5. C \in SUBSET Leases
        OBVIOUS
      <4> HIDE DEF C
      <4>6. IsFiniteSet(C) /\ Cardinality(C) \in Nat
        BY <1>1, <4>5, FS_Subset, FS_CardinalityType
      <4>7. /\ IsFiniteSet(C \cup {l}) /\ Cardinality(C \cup {l}) \in Nat
            /\ Cardinality(C \cup {l}) <= Cardinality(C) + 1
        <5>1. /\ IsFiniteSet(C \cup {l})
              /\ Cardinality(C \cup {l}) =
                    IF l \in C THEN Cardinality(C) ELSE Cardinality(C) + 1
          BY <4>6, FS_AddElement
        <5>2. QED
          BY <4>6, <5>1
      <4>8. /\ Cardinality(S \ unseen'[l][t]) <= Cardinality(C \cup {l})
            /\ Cardinality(S \ unseen'[l][t]) \in Nat
        BY <4>3, <4>7, FS_Subset, FS_CardinalityType
      <4>9. Cardinality(S \ unseen'[l][t]) <= MaxActiveLeases[t]
        BY <1>1, <4>4, <4>6, <4>7, <4>8
      <4>10. QED
        BY <3>5, <4>9
    <3>6. QED
      BY <3>3, <3>4, <3>5
  <2>4. QED
    BY <1>4, <2>2, <2>3 DEF ClaimsKept
<1>5. QED
  BY <1>3, <1>4 DEF ClaimsStep

-----------------------------------------------------------------------------
(* The theorems                                                            *)

\* The inductive invariant of every lease and its worker.
THEOREM PlacementInvariant == Spec => []PInv
<1>1. Init => PInv
  BY InitOK
<1>2. PInv /\ [Next]_vars => PInv'
  BY NextOK
<1>3. QED
  BY <1>1, <1>2, PTL DEF Spec

\* Type correctness: in particular PickStable always finds a candidate, and
\* no outage window grows past its limit.
THEOREM PlacementTypes == Spec => []TypeOK
<1>1. PInv => TypeOK
  BY DEF PInv
<1>2. QED
  BY <1>1, PlacementInvariant, PTL

\* A Namespace is only ever on the cluster that the lease's status names, so
\* cleanup finds it, unless the clusterRef was changed once it was provisioned.
THEOREM EnvironmentsRecorded == Spec => []EnvironmentWhereRecorded
<1>1. PInv => EnvironmentWhereRecorded
  BY DEF PInv, LeaseOK, StoredOK, EnvironmentWhereRecorded, Kept
<1>2. QED
  BY <1>1, PlacementInvariant, PTL

\* Every set of claims on a target is within its capacity, but for claims that
\* one of them did not see when it was made.
THEOREM ClaimsAreUnseen == Spec => []ClaimsUnseen
<1>1. Init => ClaimsUnseen
  <2> SUFFICES ASSUME Init, NEW t \in Targets
               PROVE  Claims(t) = {}
    BY DEF ClaimsUnseen
  <2>1. \A l \in Leases : w[l].pc = "idle" /\ lease[l].status.cluster = Nil
    <3>1. PICK ref \in ClusterRefs :
              lease = [l \in Leases |-> [exists |-> TRUE, deleting |-> FALSE,
                                         ref |-> ref[l], status |-> NoStatus]]
      BY DEF Init
    <3>2. QED
      BY <3>1, RestingFields DEF Init, NoStatus
  <2>2. QED
    BY <2>1, PlacementAssumption DEF Claims, Claiming
<1>2. PInv /\ ClaimsUnseen /\ [Next]_vars => ClaimsUnseen'
  BY NextOK, ClaimsStayUnseen
<1>3. QED
  BY <1>1, <1>2, PlacementInvariant, PTL DEF Spec

\* Soft capacity is overrun only by leases that a selection could not see.
THEOREM CapacityOverrunUnseen == Spec => []OverrunUnseen
<1>1. ClaimsUnseen => OverrunUnseen
  <2> SUFFICES ASSUME ClaimsUnseen, NEW t \in Targets, MaxActiveLeases[t] # Nil,
                      SelectedFor(t) # {}
               PROVE  \E l \in SelectedFor(t) :
                         Cardinality(SelectedFor(t) \ unseen[l][t]) <= MaxActiveLeases[t]
    BY DEF OverrunUnseen
  <2>1. SelectedFor(t) \in SUBSET Claims(t)
    BY DEF SelectedFor, Claims, Claiming
  <2>2. QED
    BY <2>1 DEF ClaimsUnseen
<1>2. QED
  BY <1>1, ClaimsAreUnseen, PTL
=============================================================================
