------------------------ MODULE SourceWebhookProofs ------------------------
(***************************************************************************)
(* Machine-checked proofs about SourceWebhook, for every number of         *)
(* repositories, handlers, messages and faults.                            *)
(***************************************************************************)
EXTENDS SourceWebhook, FiniteSetTheorems, TLAPS

-----------------------------------------------------------------------------
(* The inductive invariant                                                 *)

\* A deletion that has not gone through yet waits for the finalizer.
Pending(l) == l.deleting => l.exists /\ l.finalizer

\* What a handler holds: GitHub's messages only get past a lease of their own
\* repository or of none, and only a lease that was not being deleted is
\* marked as closed.
HandlerInv(v) ==
    /\ v.pc # "idle" => v.msg \in Message
    /\ v.pc = "patch" => v.msg.source # Nil
    /\ v.pc \in {"patch", "status", "delete"} /\ v.msg.source # Nil =>
          v.found.source \in {Nil, v.msg.source}
    /\ v.pc = "status" => v.found.exists /\ ~v.found.deleting

\* What the controller's worker holds: the lease it read under the finalizer is
\* still there, and once it has read a deletion the reason changes no more.
WorkerInv ==
    ctl.pc \in {"read", "remove"} =>
      /\ ctl.found.exists
      /\ ctl.pc = "remove" => ctl.found.finalizer
      /\ ctl.found.finalizer => lease.exists /\ lease.finalizer
      /\ ctl.found.deleting =>
            /\ ctl.found.finalizer /\ lease.deleting
            /\ lease.reason = "SourceClosed" => ctl.found.reason = "SourceClosed"

WInv ==
    /\ TypeOK
    /\ IsFiniteSet(sent)
    /\ Pending(lease)
    /\ WorkerInv
    /\ \A i \in Handlers : HandlerInv(h[i])

-----------------------------------------------------------------------------
(* Leases                                                                  *)

\* A stored lease, or what is left of one.
Stored(l) == l \in Lease /\ (l.exists \/ l = Gone(l))

\* What stands for no lease at all.
LEMMA NoLeaseType == NoLease \in Lease /\ ~NoLease.exists /\ NoLease.source = Nil
BY SourceAssumption DEF NoLease, Lease

\* The types of the fields that the steps work with.
LEMMA LeaseType ==
    ASSUME NEW l \in Lease
    PROVE  /\ l.uid \in Nat /\ l.source \in Sources \cup {Nil}
           /\ l.reason \in {"", "SourceClosed", "Other"}
BY SourceAssumption DEF Lease

\* What is left of a lease that is gone, or that only was read.
LEMMA GoneType ==
    ASSUME NEW l \in Lease
    PROVE  /\ Stored(Gone(l)) /\ Pending(Gone(l)) /\ Gone(l) \in Lease
           /\ ~Gone(l).exists /\ ~Gone(l).deleting /\ Gone(l).uid = l.uid
           /\ Seen(l) \in Lease /\ Seen(l).source = l.source /\ Seen(l).uid = l.uid
<1>1. /\ NoLease \in Lease /\ ~NoLease.exists /\ ~NoLease.deleting
  BY NoLeaseType DEF NoLease
<1>2. l.uid \in Nat /\ l.source \in Sources \cup {Nil}
  BY DEF Lease
<1>3. /\ Gone(l) \in Lease /\ ~Gone(l).exists /\ ~Gone(l).deleting /\ Gone(l).uid = l.uid
  BY <1>1, <1>2 DEF Gone, Lease
<1>4. Gone(Gone(l)) = Gone(l)
  <2>1. \A k : Gone(k) = [NoLease EXCEPT !.uid = k.uid]
    BY DEF Gone
  <2>2. QED
    BY <1>3, <2>1
<1>5. Stored(Gone(l)) /\ Pending(Gone(l))
  BY <1>3, <1>4 DEF Stored, Pending
<1>6. Seen(l) \in Lease /\ Seen(l).source = l.source /\ Seen(l).uid = l.uid
  BY <1>2, <1>3 DEF Seen, Lease
<1>7. QED
  BY <1>3, <1>5, <1>6

\* Delete keeps a stored lease in order.
LEMMA DeletedType ==
    ASSUME NEW l \in Lease, l.exists
    PROVE  /\ Stored(Deleted(l)) /\ Pending(Deleted(l))
           /\ l.finalizer => /\ Deleted(l).exists /\ Deleted(l).deleting
                             /\ Deleted(l).finalizer /\ Deleted(l).uid = l.uid
                             /\ Deleted(l).source = l.source
                             /\ Deleted(l).reason = l.reason
           /\ ~l.finalizer => ~Deleted(l).exists
<1>1. CASE l.finalizer
  BY <1>1 DEF Deleted, Stored, Pending, Lease
<1>2. CASE ~l.finalizer
  BY <1>2, GoneType DEF Deleted
<1>3. QED
  BY <1>1, <1>2

\* The fields of a lease after a write.
LEMMA LeaseFields ==
    ASSUME NEW l \in Lease, l.exists, Pending(l)
    PROVE  /\ \A r \in {"", "SourceClosed", "Other"} :
                 LET k == [l EXCEPT !.reason = r]
                 IN  /\ Stored(k) /\ Pending(k) /\ k.exists /\ k.reason = r
                     /\ k.deleting = l.deleting /\ k.finalizer = l.finalizer
                     /\ k.uid = l.uid /\ k.source = l.source
           /\ LET k == [l EXCEPT !.finalizer = TRUE]
              IN  /\ Stored(k) /\ Pending(k) /\ k.exists /\ k.finalizer
                  /\ k.uid = l.uid /\ k.source = l.source /\ k.reason = l.reason
                  /\ k.deleting = l.deleting
           /\ LET k == [l EXCEPT !.finalizer = FALSE]
              IN  /\ Stored(k) /\ k.exists /\ k.deleting = l.deleting
                  /\ k.uid = l.uid /\ k.source = l.source /\ k.reason = l.reason
BY DEF Lease, Stored, Pending

\* patchGitHubMetadata.
Patched(l, s, q) == [l EXCEPT !.source = s, !.request = q]

\* The fields of a lease after it.
LEMMA PatchedFields ==
    ASSUME NEW l \in Lease, l.exists, Pending(l), NEW s \in Sources \cup {Nil},
           NEW q \in 0..MaxEvents
    PROVE  LET k == Patched(l, s, q)
           IN  /\ Stored(k) /\ Pending(k) /\ k.exists /\ k.source = s
               /\ k.deleting = l.deleting /\ k.finalizer = l.finalizer
               /\ k.uid = l.uid /\ k.reason = l.reason
BY DEF Lease, Stored, Pending, Patched

-----------------------------------------------------------------------------
(* Steps                                                                   *)

\* What WInv says of the parts that a step works with.
LEMMA Parts ==
    ASSUME WInv
    PROVE  /\ Stored(lease) /\ lease \in Lease /\ Pending(lease) /\ ctl \in Worker
           /\ ctl.found \in Lease /\ h \in [Handlers -> Handler] /\ faults \in Nat
           /\ NoLease \in Lease /\ Idle \in Handler /\ HandlerInv(Idle)
           /\ Resting \in Worker
           /\ \A i \in Handlers : /\ h[i] \in Handler /\ h[i].found \in Lease
                                  /\ h[i].pc # "idle" => h[i].msg \in Message
                                  /\ HandlerInv(h[i])
<1>1. NoLease \in Lease
  BY NoLeaseType
<1>2. QED
  BY <1>1 DEF WInv, TypeOK, Stored, HandlerInv, Handler, Worker, Idle, Resting

\* The worker's view survives a write of somebody else that takes neither the
\* finalizer nor the deletion back, and gives no reason to a deleted lease.
LEMMA WorkerKept ==
    ASSUME WorkerInv, UNCHANGED ctl,
           lease.exists /\ lease.finalizer => lease'.exists /\ lease'.finalizer,
           lease.deleting => lease'.deleting,
           lease.deleting /\ lease'.reason = "SourceClosed" => lease.reason = "SourceClosed"
    PROVE  WorkerInv'
BY DEF WorkerInv

\* A step of handler i.
LEMMA HandlerStep ==
    ASSUME WInv, NEW i \in Handlers, NEW v \in Handler, HandlerInv(v),
           h' = [h EXCEPT ![i] = v], UNCHANGED <<github, ctl>>, faults' \in Nat,
           Stored(lease'), Pending(lease'), WorkerInv'
    PROVE  WInv'
<1>1. h' \in [Handlers -> Handler] /\ \A j \in Handlers : HandlerInv(h'[j])
  BY DEF WInv, TypeOK
<1>2. QED
  BY <1>1 DEF WInv, TypeOK, Stored, github

\* ... that leaves the lease alone.
LEMMA QuietHandlerStep ==
    ASSUME WInv, NEW i \in Handlers, NEW v \in Handler, HandlerInv(v),
           h' = [h EXCEPT ![i] = v], UNCHANGED <<github, lease, ctl>>, faults' \in Nat
    PROVE  WInv'
<1>1. WorkerInv'
  BY WorkerKept DEF WInv
<1>2. QED
  BY <1>1, HandlerStep, Parts

\* A step of the controller, or of "expire".
LEMMA ControlStep ==
    ASSUME WInv, UNCHANGED <<github, h, faults>>, ctl' \in Worker,
           Stored(lease'), Pending(lease'), WorkerInv'
    PROVE  WInv'
BY DEF WInv, TypeOK, Stored, github

\* GitHub and the generic clients send.
LEMMA SendPreserves ==
    ASSUME WInv, NEW s, NEW action, Send(s, action),
           pr' \in [Sources -> {"none", "open", "closed"}],
           \/ s \in Sources /\ action \in {"opened", "closed", "reopened"}
           \/ s = Nil /\ action \in {"create", "expire"}
    PROVE  WInv'
<1> DEFINE id == Cardinality(sent) + 1
           m == [id |-> id, source |-> s, action |-> action]
<1>1. /\ id <= MaxEvents /\ sent' = sent \cup {m} /\ net' = net \cup {m}
      /\ UNCHANGED <<lease, h, ctl, faults>>
  BY DEF Send
<1>2. id \in 1..MaxEvents
  <2>1. Cardinality(sent) \in Nat
    BY FS_CardinalityType DEF WInv
  <2>2. QED
    BY <1>1, <2>1, SourceAssumption
<1> HIDE DEF id
<1>3. m \in Message
  BY <1>2 DEF Message
<1> HIDE DEF m
<1>4. IsFiniteSet(sent')
  BY <1>1, FS_AddElement DEF WInv
<1>5. TypeOK'
  BY <1>1, <1>3 DEF WInv, TypeOK
<1>6. WorkerInv'
  BY <1>1, WorkerKept DEF WInv
<1>7. QED
  BY <1>1, <1>4, <1>5, <1>6 DEF WInv

\* Messages are sent, lost and repeated.
LEMMA NetPreserves ==
    ASSUME WInv,
           \/ \E s \in Sources : Open(s) \/ Close(s) \/ Reopen(s)
           \/ Request
           \/ \E m \in sent : Lose(m) \/ Redeliver(m)
    PROVE  WInv'
<1>1. pr \in [Sources -> {"none", "open", "closed"}]
  BY DEF WInv, TypeOK
<1>2. CASE \E s \in Sources : Open(s) \/ Close(s) \/ Reopen(s)
  <2>1. PICK s \in Sources : Open(s) \/ Close(s) \/ Reopen(s)
    BY <1>2
  <2>2. pr' \in [Sources -> {"none", "open", "closed"}]
    BY <1>1, <2>1 DEF Open, Close, Reopen
  <2>3. QED
    BY <2>1, <2>2, SendPreserves DEF Open, Close, Reopen
<1>3. CASE Request
  BY <1>1, <1>3, SendPreserves DEF Request
<1>4. CASE \E m \in sent : Lose(m) \/ Redeliver(m)
  <2>1. PICK m \in sent : Lose(m) \/ Redeliver(m)
    BY <1>4
  <2>2. /\ UNCHANGED <<pr, sent, lease, h, ctl>> /\ faults' = faults + 1
        /\ net' \subseteq sent
    BY <2>1 DEF Lose, Redeliver, Fault, WInv, TypeOK
  <2>3. WorkerInv'
    BY <2>2, WorkerKept DEF WInv
  <2>4. QED
    BY <2>2, <2>3 DEF WInv, TypeOK
<1>5. QED
  BY <1>2, <1>3, <1>4

\* A handler takes a message.
LEMMA ReceivePreserves ==
    ASSUME WInv, NEW i \in Handlers, NEW m \in sent, Receive(i, m)
    PROVE  WInv'
<1> DEFINE v == [pc |-> IF m.action \in {"closed", "expire"} THEN "expireGet"
                        ELSE "ensureGet",
                 msg |-> m, found |-> NoLease]
<1>1. /\ h' = [h EXCEPT ![i] = v] /\ net' = net \ {m}
      /\ UNCHANGED <<pr, sent, lease, ctl>>
  BY DEF Receive
<1>2. faults' \in Nat
  BY DEF Receive, Fault, WInv, TypeOK
<1>3. m \in Message /\ NoLease \in Lease
  BY NoLeaseType DEF WInv, TypeOK
<1>4. v \in Handler /\ HandlerInv(v)
  BY <1>3 DEF Handler, HandlerInv
<1> HIDE DEF v
<1>5. WorkerInv'
  BY <1>1, WorkerKept DEF WInv
<1>6. h' \in [Handlers -> Handler] /\ \A j \in Handlers : HandlerInv(h'[j])
  BY <1>1, <1>4 DEF WInv, TypeOK
<1>7. QED
  BY <1>1, <1>2, <1>5, <1>6 DEF WInv, TypeOK

\* The handlers.
LEMMA HandlePreserves ==
    ASSUME WInv, NEW i \in Handlers, Handle(i) \/ GiveUp(i)
    PROVE  WInv'
<1>1. /\ Stored(lease) /\ lease \in Lease /\ Pending(lease) /\ ctl \in Worker
      /\ NoLease \in Lease /\ Idle \in Handler /\ HandlerInv(Idle)
      /\ h \in [Handlers -> Handler] /\ faults \in Nat
      /\ h[i] \in Handler /\ h[i].found \in Lease /\ HandlerInv(h[i])
      /\ h[i].pc # "idle" => h[i].msg \in Message
  BY Parts
<1>2. ASSUME NEW pc \in {"create", "patch", "status", "delete"}, NEW found \in Lease,
             Goto(i, pc, found), h[i].msg \in Message, UNCHANGED <<github, ctl, faults>>,
             HandlerInv([pc |-> pc, msg |-> h[i].msg, found |-> found]),
             Stored(lease'), Pending(lease'), WorkerInv'
      PROVE  WInv'
  <2> DEFINE v == [h[i] EXCEPT !.pc = pc, !.found = found]
  <2>1. h' = [h EXCEPT ![i] = v]
    BY <1>1, <1>2 DEF Goto
  <2>2. v \in Handler /\ v.pc = pc /\ v.msg = h[i].msg /\ v.found = found
    BY <1>1, <1>2 DEF Handler
  <2> HIDE DEF v
  <2>3. HandlerInv(v)
    BY <1>2, <2>2 DEF HandlerInv
  <2>4. QED
    BY <1>1, <1>2, <2>1, <2>2, <2>3, HandlerStep
<1>3. ASSUME Answer(i), UNCHANGED <<github, lease, ctl>>, faults' \in Nat
      PROVE  WInv'
  BY <1>1, <1>3, QuietHandlerStep DEF Answer
<1>4. ASSUME Answer(i), UNCHANGED <<github, ctl>>, faults' \in Nat,
             Stored(lease'), Pending(lease'), WorkerInv'
      PROVE  WInv'
  BY <1>1, <1>4, HandlerStep DEF Answer
<1>14. UNCHANGED <<lease, ctl>> => WorkerInv'
  BY WorkerKept DEF WInv
<1>5. CASE GiveUp(i)
  BY <1>1, <1>3, <1>5 DEF GiveUp, Fault
<1>6. CASE EnsureGet(i)
  <2>1. /\ h[i].pc = "ensureGet" /\ h[i].msg \in Message
        /\ UNCHANGED <<github, lease, ctl, faults>>
    BY <1>1, <1>6 DEF EnsureGet
  <2>2. CASE Answer(i)
    BY <1>1, <1>3, <2>1, <2>2
  <2>3. CASE Goto(i, "create", NoLease)
    <3>1. HandlerInv([pc |-> "create", msg |-> h[i].msg, found |-> NoLease])
      BY <2>1 DEF HandlerInv
    <3>2. QED
      BY <1>1, <1>2, <1>14, <2>1, <2>3, <3>1
  <2>4. CASE /\ Goto(i, "patch", [NoLease EXCEPT !.source = lease.source])
             /\ h[i].msg.source # Nil /\ ~GithubIdentityConflict(lease, h[i].msg)
    <3> DEFINE f == [NoLease EXCEPT !.source = lease.source]
    <3>1. f \in Lease /\ f.source = lease.source
      BY <1>1 DEF Lease
    <3>2. lease.source \in {Nil, h[i].msg.source}
      BY <2>4 DEF GithubIdentityConflict
    <3> HIDE DEF f
    <3>3. HandlerInv([pc |-> "patch", msg |-> h[i].msg, found |-> f])
      BY <2>1, <2>4, <3>1, <3>2 DEF HandlerInv
    <3>4. Goto(i, "patch", f)
      BY <2>4 DEF f
    <3>5. QED
      BY <1>1, <1>2, <1>14, <2>1, <3>1, <3>3, <3>4
  <2>5. QED
    BY <1>6, <2>2, <2>3, <2>4 DEF EnsureGet
<1>7. CASE Create(i)
  <2> DEFINE new == [NoLease EXCEPT !.exists = TRUE, !.uid = lease.uid + 1,
                                    !.source = h[i].msg.source,
                                    !.request = h[i].msg.id]
  <2>1. /\ h[i].pc = "create" /\ h[i].msg \in Message /\ Answer(i)
        /\ UNCHANGED <<github, ctl, faults>>
        /\ lease' = IF lease.exists THEN lease ELSE new
    BY <1>1, <1>7 DEF Create
  <2>2. CASE lease.exists
    BY <1>1, <1>3, <2>1, <2>2
  <2>3. CASE ~lease.exists
    <3>1. h[i].msg.source \in Sources \cup {Nil} /\ h[i].msg.id \in 0..MaxEvents
      BY <2>1, SourceAssumption DEF Message
    <3>2. lease.uid + 1 \in Nat
      <4>1. lease.uid \in Nat
        BY <1>1, LeaseType
      <4>2. QED
        BY <4>1
    <3>3. new \in Lease /\ new.exists /\ ~new.deleting
      BY <1>1, <3>1, <3>2 DEF Lease, NoLease
    <3>4. lease' = new
      BY <2>1, <2>3
    <3> HIDE DEF new
    <3>5. Stored(lease') /\ Pending(lease')
      BY <3>3, <3>4 DEF Stored, Pending
    <3>6. WorkerInv'
      BY <1>1, <2>1, <2>3, WorkerKept DEF WInv, Pending
    <3>7. QED
      BY <1>1, <1>4, <2>1, <3>5, <3>6
  <2>4. QED
    BY <2>2, <2>3
<1>8. CASE Patch(i)
  <2> DEFINE s == IF h[i].found.source = h[i].msg.source THEN lease.source
                  ELSE h[i].msg.source
  <2>1. /\ h[i].pc = "patch" /\ h[i].msg \in Message /\ Answer(i)
        /\ UNCHANGED <<github, ctl, faults>>
        /\ lease' = IF lease.exists
                    THEN [lease EXCEPT !.source = s, !.request = h[i].msg.id]
                    ELSE lease
    BY <1>1, <1>8 DEF Patch
  <2>2. CASE lease.exists
    <3>1. h[i].msg.source \in Sources \cup {Nil} /\ h[i].msg.id \in 0..MaxEvents
      BY <2>1, SourceAssumption DEF Message
    <3>2. s \in Sources \cup {Nil}
      BY <1>1, <3>1 DEF Lease
    <3> HIDE DEF s
    <3>3. lease' = Patched(lease, s, h[i].msg.id)
      BY <2>1, <2>2 DEF Patched
    <3>6. /\ Stored(lease') /\ Pending(lease') /\ lease'.exists
          /\ lease'.deleting = lease.deleting /\ lease'.finalizer = lease.finalizer
          /\ lease'.reason = lease.reason
      <4>1. lease \in Lease /\ lease.exists /\ Pending(lease)
        BY <1>1, <2>2
      <4>2. QED
        BY <3>1, <3>2, <3>3, <4>1, PatchedFields
    <3>4. WorkerInv'
      BY <2>1, <3>6, WorkerKept DEF WInv
    <3>5. QED
      BY <1>1, <1>4, <2>1, <3>6, <3>4
  <2>3. CASE ~lease.exists
    BY <1>1, <1>3, <2>1, <2>3
  <2>4. QED
    BY <2>2, <2>3
<1>9. CASE ExpireGet(i)
  <2>1. /\ h[i].pc = "expireGet" /\ h[i].msg \in Message
        /\ UNCHANGED <<github, lease, ctl, faults>>
    BY <1>1, <1>9 DEF ExpireGet
  <2>2. CASE Answer(i)
    BY <1>1, <1>3, <2>1, <2>2
  <2>3. CASE /\ Goto(i, "status", lease) /\ lease.exists /\ ~lease.deleting
             /\ ~GithubIdentityConflict(lease, h[i].msg)
    <3>1. HandlerInv([pc |-> "status", msg |-> h[i].msg, found |-> lease])
      BY <1>1, <2>1, <2>3 DEF HandlerInv, GithubIdentityConflict
    <3>2. QED
      BY <1>1, <1>2, <1>14, <2>1, <2>3, <3>1
  <2>4. QED
    BY <1>9, <2>2, <2>3 DEF ExpireGet
<1>10. CASE ExpireAnyGet(i)
  <2>1. /\ h[i].pc = "expireGet" /\ h[i].msg \in Message /\ h[i].msg.source = Nil
        /\ UNCHANGED <<github, lease, ctl, faults>>
    BY <1>1, <1>10 DEF ExpireAnyGet
  <2>2. CASE Answer(i)
    BY <1>1, <1>3, <2>1, <2>2
  <2>3. CASE Goto(i, "delete", Seen(lease))
    <3>1. Seen(lease) \in Lease
      BY <1>1, GoneType
    <3>2. HandlerInv([pc |-> "delete", msg |-> h[i].msg, found |-> Seen(lease)])
      BY <2>1, <3>1 DEF HandlerInv
    <3>3. QED
      BY <1>1, <1>2, <1>14, <2>1, <2>3, <3>1, <3>2
  <2>4. QED
    BY <1>10, <2>2, <2>3 DEF ExpireAnyGet
<1>11. CASE MarkClosed(i)
  <2>1. /\ h[i].pc = "status" /\ h[i].msg \in Message /\ UNCHANGED <<github, ctl, faults>>
        /\ Goto(i, "delete", Seen(h[i].found))
        /\ \/ lease = h[i].found /\ lease' = [lease EXCEPT !.reason = "SourceClosed"]
           \/ UNCHANGED lease
    BY <1>1, <1>11 DEF MarkClosed
  <2>2. Seen(h[i].found) \in Lease /\ Seen(h[i].found).source = h[i].found.source
    BY <1>1, GoneType
  <2>3. HandlerInv([pc |-> "delete", msg |-> h[i].msg, found |-> Seen(h[i].found)])
    BY <1>1, <2>1, <2>2 DEF HandlerInv
  <2>5. CASE UNCHANGED lease
    BY <1>1, <1>2, <1>14, <2>1, <2>2, <2>3, <2>5
  <2>6. CASE lease = h[i].found /\ lease' = [lease EXCEPT !.reason = "SourceClosed"]
    <3>1. lease.exists /\ ~lease.deleting
      BY <1>1, <2>1, <2>6 DEF HandlerInv
    <3>2. /\ Stored(lease') /\ Pending(lease') /\ lease'.exists
          /\ lease'.finalizer = lease.finalizer
      BY <1>1, <2>6, <3>1, LeaseFields
    <3>3. WorkerInv'
      BY <2>1, <3>1, <3>2, WorkerKept DEF WInv
    <3>4. QED
      BY <1>2, <2>1, <2>2, <2>3, <3>2, <3>3
  <2>7. QED
    BY <2>1, <2>5, <2>6
<1>12. CASE Delete(i)
  <2>1. /\ Answer(i) /\ UNCHANGED <<github, ctl, faults>>
        /\ lease' = IF lease.exists THEN Deleted(lease) ELSE lease
    BY <1>12 DEF Delete
  <2>2. CASE lease.exists
    <3>1. Stored(lease') /\ Pending(lease')
      BY <1>1, <2>1, <2>2, DeletedType
    <3>2. WorkerInv'
      BY <1>1, <2>1, <2>2, DeletedType, WorkerKept DEF WInv, Pending
    <3>3. QED
      BY <1>1, <1>4, <2>1, <3>1, <3>2
  <2>3. CASE ~lease.exists
    BY <1>1, <1>3, <2>1, <2>3
  <2>4. QED
    BY <2>2, <2>3
<1>13. QED
  BY <1>5, <1>6, <1>7, <1>8, <1>9, <1>10, <1>11, <1>12 DEF Handle

\* The controller and "expire".
LEMMA ControlPreserves ==
    ASSUME WInv, Reconcile \/ Control \/ Expire
    PROVE  WInv'
<1>1. /\ Stored(lease) /\ lease \in Lease /\ Pending(lease) /\ ctl \in Worker
      /\ ctl.found \in Lease /\ Resting \in Worker /\ WorkerInv
  BY Parts DEF WInv
<1>2. ASSUME ctl' = Resting \/ ctl' = [Resting EXCEPT !.pc = "delete"]
      PROVE  ctl' \in Worker /\ WorkerInv'
  <2>1. Resting.pc = "idle"
    BY DEF Resting
  <2>2. ctl' \in Worker /\ ctl'.pc \in {"idle", "delete"}
    BY <1>1, <1>2, <2>1 DEF Worker
  <2>3. QED
    BY <2>2 DEF WorkerInv
<1>3. CASE Reconcile
  <2>1. /\ ctl' = [pc |-> "read", found |-> lease] /\ lease.exists
        /\ UNCHANGED <<github, lease, h, faults>>
    BY <1>3 DEF Reconcile
  <2>2. ctl' \in Worker
    BY <1>1, <2>1 DEF Worker
  <2>3. WorkerInv'
    BY <1>1, <2>1 DEF WorkerInv, Pending
  <2>4. QED
    BY <1>1, <2>1, <2>2, <2>3, ControlStep
<1>4. CASE AddFinalizer
  <2>1. /\ ctl.pc = "read" /\ ctl' = Resting /\ UNCHANGED <<github, h, faults>>
        /\ lease' = IF lease = ctl.found THEN [lease EXCEPT !.finalizer = TRUE] ELSE lease
    BY <1>4 DEF AddFinalizer
  <2>2. Stored(lease') /\ Pending(lease')
    BY <1>1, <2>1, LeaseFields DEF WorkerInv
  <2>3. QED
    BY <1>2, <2>1, <2>2, ControlStep
<1>5. ASSUME NEW reason \in {"", "SourceClosed", "Other"}, PatchStatus(reason, Resting),
             lease.exists
      PROVE  WInv'
  <2>1. Stored(lease') /\ Pending(lease')
    BY <1>1, <1>5, LeaseFields DEF PatchStatus
  <2>2. QED
    BY <1>2, <1>5, <2>1, ControlStep DEF PatchStatus
<1>6. \A d \in {"", "Other"} : SyncedReason(d) \in {"", "SourceClosed", "Other"}
  BY DEF SyncedReason
<1>7. CASE WriteActive
  <2>1. lease.exists
    BY <1>1, <1>7 DEF WriteActive, WorkerInv
  <2>2. PICK reason \in {ctl.found.reason, lease.reason, SyncedReason("")} :
           PatchStatus(reason, Resting)
    BY <1>7 DEF WriteActive
  <2>3. reason \in {"", "SourceClosed", "Other"}
    BY <1>1, <1>6, <2>2, LeaseType
  <2>4. QED
    BY <1>5, <2>1, <2>2, <2>3
<1>8. CASE WriteExpired
  BY <1>1, <1>5, <1>6, <1>8 DEF WriteExpired, WorkerInv
<1>9. CASE WriteCleaning
  BY <1>1, <1>5, <1>6, <1>9 DEF WriteCleaning, WorkerInv
<1>10. CASE RemoveFinalizer
  <2>1. /\ ctl.pc = "remove" /\ UNCHANGED <<github, h, faults>>
        /\ ctl' = Resting \/ ctl' = [Resting EXCEPT !.pc = "delete"]
        /\ lease' = IF lease.deleting THEN Gone(lease) ELSE [lease EXCEPT !.finalizer = FALSE]
    BY <1>10 DEF RemoveFinalizer
  <2>2. lease.exists
    BY <1>1, <2>1 DEF WorkerInv
  <2>3. CASE lease.deleting
    BY <1>1, <1>2, <2>1, <2>3, GoneType, ControlStep
  <2>4. CASE ~lease.deleting
    <3>1. Stored(lease') /\ lease'.deleting = lease.deleting
      BY <1>1, <2>1, <2>2, <2>4, LeaseFields
    <3>2. Pending(lease')
      BY <2>4, <3>1 DEF Pending
    <3>3. QED
      BY <1>2, <2>1, <3>1, <3>2, ControlStep
  <2>5. QED
    BY <2>3, <2>4
<1>11. CASE DeleteExpired
  <2>1. /\ ctl' = Resting /\ UNCHANGED <<github, h, faults>>
        /\ lease' = IF lease.exists THEN Deleted(lease) ELSE lease
    BY <1>11 DEF DeleteExpired
  <2>2. Stored(lease') /\ Pending(lease')
    BY <1>1, <2>1, DeletedType
  <2>3. QED
    BY <1>2, <2>1, <2>2, ControlStep
<1>12. CASE ExpiredDone \/ CleanupDone
  <2> DEFINE reason == SyncedReason("Other")
             next == [ctl EXCEPT !.pc = "remove"]
  <2>1. /\ ctl.pc = "read" /\ ctl.found.finalizer /\ PatchStatus(reason, next)
    BY <1>1, <1>12 DEF ExpiredDone, CleanupDone, WorkerInv
  <2>2. next \in Worker /\ next.pc = "remove" /\ next.found = ctl.found
    BY <1>1 DEF Worker
  <2>3. /\ reason \in {"", "SourceClosed", "Other"}
        /\ reason = "SourceClosed" => ctl.found.reason = "SourceClosed"
    BY <1>6 DEF SyncedReason
  <2> HIDE DEF reason, next
  <2>4. ctl' = next /\ lease' = [lease EXCEPT !.reason = reason] /\ UNCHANGED <<github, h, faults>>
    BY <2>1 DEF PatchStatus
  <2>5. lease.exists /\ lease.finalizer /\ ctl.found.exists
    BY <1>1, <2>1 DEF WorkerInv
  <2>6. /\ Stored(lease') /\ Pending(lease') /\ lease'.exists /\ lease'.finalizer
        /\ lease'.deleting = lease.deleting /\ lease'.reason = reason
    <3>1. /\ Stored(lease') /\ Pending(lease') /\ lease'.exists /\ lease'.reason = reason
          /\ lease'.deleting = lease.deleting /\ lease'.finalizer = lease.finalizer
      BY <1>1, <2>3, <2>4, <2>5, LeaseFields
    <3>2. QED
      BY <2>5, <3>1
  <2>7. WorkerInv'
    <3>1. ctl'.pc = "remove" /\ ctl'.found = ctl.found
      BY <2>2, <2>4
    <3>2. ctl.found.deleting => lease'.deleting
      BY <1>1, <2>1, <2>6 DEF WorkerInv
    <3>3. lease'.reason = "SourceClosed" => ctl.found.reason = "SourceClosed"
      BY <2>3, <2>6
    <3>4. QED
      BY <2>1, <2>5, <2>6, <3>1, <3>2, <3>3 DEF WorkerInv
  <2>8. QED
    BY <2>2, <2>4, <2>6, <2>7, ControlStep
<1>13. CASE Expire
  <2>1. /\ lease.exists /\ ~lease.deleting /\ lease' = Deleted(lease)
        /\ UNCHANGED <<github, h, ctl, faults>>
    BY <1>13 DEF Expire
  <2>2. Stored(lease') /\ Pending(lease')
    BY <1>1, <2>1, DeletedType
  <2>3. WorkerInv'
    BY <1>1, <2>1, DeletedType, WorkerKept
  <2>4. QED
    BY <1>1, <2>1, <2>2, <2>3, ControlStep
<1>14. QED
  BY <1>3, <1>4, <1>7, <1>8, <1>9, <1>10, <1>11, <1>12, <1>13 DEF Control

-----------------------------------------------------------------------------
(* The theorems                                                            *)

\* The inductive invariant holds in every reachable state.
THEOREM WebhookInvariant == Spec => []WInv
<1>1. Init => WInv
  <2> SUFFICES ASSUME Init PROVE WInv
    OBVIOUS
  <2>1. PICK owner \in Sources \cup {Nil}, state \in {"open", "closed"} :
           /\ pr = [s \in Sources |-> IF s = owner THEN state ELSE "none"]
           /\ lease \in {[NoLease EXCEPT !.exists = TRUE, !.uid = 1, !.source = owner]}
                        \cup (IF owner = Nil THEN {NoLease} ELSE {})
           /\ faults = IF owner # Nil /\ state = "closed" THEN 1 ELSE 0
    BY DEF Init
  <2>2. NoLease \in Lease /\ ~NoLease.exists /\ ~NoLease.deleting /\ NoLease.uid = 0
    BY NoLeaseType DEF NoLease
  <2>3. NoLease = Gone(NoLease)
    BY <2>2 DEF Gone, Lease
  <2>4. LET l == [NoLease EXCEPT !.exists = TRUE, !.uid = 1, !.source = owner]
        IN  l \in Lease /\ l.exists /\ ~l.deleting
    BY <2>2 DEF Lease
  <2>5. Stored(lease) /\ ~lease.deleting
    BY <2>1, <2>2, <2>3, <2>4 DEF Stored
  <2>6. h \in [Handlers -> Handler] /\ \A i \in Handlers : h[i] = Idle
    BY <2>2 DEF Init, Idle, Handler
  <2>7. HandlerInv(Idle)
    BY DEF HandlerInv, Idle
  <2>8. ctl \in Worker /\ ctl.pc = "idle"
    BY <2>2 DEF Init, Resting, Worker
  <2>9. pr \in [Sources -> {"none", "open", "closed"}]
    BY <2>1
  <2>10. faults \in Nat /\ sent = {} /\ net = {}
    BY <2>1 DEF Init
  <2>11. IsFiniteSet(sent)
    BY <2>10, FS_EmptySet
  <2>12. QED
    BY <2>5, <2>6, <2>7, <2>8, <2>9, <2>10, <2>11
       DEF WInv, TypeOK, Stored, Pending, WorkerInv
<1>2. WInv /\ [Next]_vars => WInv'
  <2> SUFFICES ASSUME WInv, [Next]_vars PROVE WInv'
    OBVIOUS
  <2>1. CASE \E m \in sent, i \in Handlers : Receive(i, m)
    BY <2>1, ReceivePreserves
  <2>2. CASE \E i \in Handlers : Handle(i) \/ GiveUp(i)
    BY <2>2, HandlePreserves
  <2>3. CASE Reconcile \/ Control \/ Expire
    BY <2>3, ControlPreserves
  <2>4. CASE UNCHANGED vars
    <3>1. WorkerInv'
      BY <2>4, WorkerKept DEF vars, WInv
    <3>2. QED
      BY <2>4, <3>1 DEF vars, WInv, TypeOK
  <2>5. QED
    BY <2>1, <2>2, <2>3, <2>4, NetPreserves DEF Next
<1>3. QED
  BY <1>1, <1>2, PTL DEF Spec

\* Type correctness: nothing is written to a lease that is gone, however the
\* handlers, the controller and the users interleave.
THEOREM WebhookTypes == Spec => []TypeOK
<1>1. WInv => TypeOK
  BY DEF WInv
<1>2. QED
  BY <1>1, WebhookInvariant, PTL

-----------------------------------------------------------------------------
(* Action properties                                                       *)

\* What a step may do to a lease that stays: only a handler that patches
\* touches its repository, and only the controller's worker or a handler that
\* marks a lease as closed its reason.
LEMMA LeaseSteps ==
    ASSUME WInv, [Next]_vars
    PROVE  \/ lease' = lease
           \/ \E i \in Handlers : Create(i) \/ Patch(i) \/ MarkClosed(i) \/ Delete(i)
           \/ Control \/ Expire
<1>1. \A s, a : Send(s, a) => lease' = lease
  BY DEF Send
<1>2. (\E s \in Sources : Open(s) \/ Close(s) \/ Reopen(s)) \/ Request => lease' = lease
  BY <1>1 DEF Open, Close, Reopen, Request
<1>3. \A m \in sent : Lose(m) \/ Redeliver(m) \/ (\E i \in Handlers : Receive(i, m))
         => lease' = lease
  BY DEF Lose, Redeliver, Receive
<1>4. \A i \in Handlers : GiveUp(i) \/ EnsureGet(i) \/ ExpireGet(i) \/ ExpireAnyGet(i)
         => lease' = lease
  BY DEF GiveUp, EnsureGet, ExpireGet, ExpireAnyGet
<1>5. Reconcile \/ UNCHANGED vars => lease' = lease
  BY DEF Reconcile, vars
<1>6. QED
  BY <1>2, <1>3, <1>4, <1>5 DEF Next, Handle

\* Deletions keep the repository, the uid and the reason of a lease that stays.
LEMMA DeleteKeeps ==
    ASSUME NEW l \in Lease, l.exists, Deleted(l).exists
    PROVE  Deleted(l).source = l.source /\ Deleted(l).reason = l.reason
BY DeletedType

\* The controller writes the status of the lease that is there.
LEMMA ControlWrites ==
    ASSUME WInv, Control \/ Expire, lease.exists, lease'.exists
    PROVE  /\ lease'.source = lease.source
           /\ \/ lease'.reason = lease.reason
              \/ ctl.pc = "read" /\ ~ctl.found.deleting
              \/ ctl.pc = "read" /\ lease'.reason = SyncedReason("Other")
<1>1. lease \in Lease /\ Pending(lease) /\ ctl.found \in Lease /\ WorkerInv
  BY Parts DEF WInv
<1>2. \A d \in {"", "Other"} : SyncedReason(d) \in {"", "SourceClosed", "Other"}
  BY DEF SyncedReason
<1>3. ASSUME NEW reason \in {"", "SourceClosed", "Other"}, NEW next,
             PatchStatus(reason, next)
      PROVE  lease'.source = lease.source /\ lease'.reason = reason
  BY <1>1, <1>3, LeaseFields DEF PatchStatus
<1>4. CASE AddFinalizer
  BY <1>1, <1>4, LeaseFields DEF AddFinalizer
<1>5. CASE WriteActive
  <2>1. PICK reason \in {ctl.found.reason, lease.reason, SyncedReason("")} :
           PatchStatus(reason, Resting)
    BY <1>5 DEF WriteActive
  <2>2. reason \in {"", "SourceClosed", "Other"}
    BY <1>1, <1>2, <2>1, LeaseType
  <2>3. QED
    BY <1>3, <1>5, <2>1, <2>2 DEF WriteActive
<1>6. CASE WriteExpired
  BY <1>2, <1>3, <1>6 DEF WriteExpired
<1>7. CASE WriteCleaning \/ ExpiredDone \/ CleanupDone
  BY <1>2, <1>3, <1>7 DEF WriteCleaning, ExpiredDone, CleanupDone
<1>8. CASE RemoveFinalizer
  <2>1. ~lease.deleting
    BY <1>1, <1>8, GoneType DEF RemoveFinalizer
  <2>2. QED
    BY <1>1, <1>8, <2>1, LeaseFields DEF RemoveFinalizer
<1>9. CASE DeleteExpired
  BY <1>1, <1>9, DeleteKeeps DEF DeleteExpired
<1>10. CASE Expire
  BY <1>1, <1>10, DeleteKeeps DEF Expire
<1>11. QED
  BY <1>4, <1>5, <1>6, <1>7, <1>8, <1>9, <1>10 DEF Control

\* The handlers' writes to a lease that stays.
LEMMA HandlerWrites ==
    ASSUME WInv, NEW i \in Handlers, Create(i) \/ Patch(i) \/ MarkClosed(i) \/ Delete(i),
           lease.exists, lease'.exists
    PROVE  /\ \/ lease'.source = lease.source
              \/ h[i].pc = "patch" /\ h[i].found.source # h[i].msg.source
           /\ lease'.reason = lease.reason \/ lease'.reason = "SourceClosed"
<1>1. /\ lease \in Lease /\ Pending(lease) /\ h[i].found \in Lease
      /\ h[i].pc # "idle" => h[i].msg \in Message
  BY Parts
<1>2. CASE Create(i)
  BY <1>2 DEF Create
<1>3. CASE Patch(i)
  <2> DEFINE s == IF h[i].found.source = h[i].msg.source THEN lease.source
                  ELSE h[i].msg.source
  <2>1. /\ h[i].pc = "patch" /\ h[i].msg \in Message
        /\ lease' = [lease EXCEPT !.source = s, !.request = h[i].msg.id]
    BY <1>1, <1>3 DEF Patch
  <2>2. h[i].msg.source \in Sources \cup {Nil} /\ h[i].msg.id \in 0..MaxEvents
    BY <2>1, SourceAssumption DEF Message
  <2>3. s \in Sources \cup {Nil}
    BY <1>1, <2>2 DEF Lease
  <2>4. s = lease.source \/ h[i].found.source # h[i].msg.source
    OBVIOUS
  <2> HIDE DEF s
  <2>5. lease' = Patched(lease, s, h[i].msg.id)
    BY <2>1 DEF Patched
  <2>6. lease'.source = s /\ lease'.reason = lease.reason
    BY <1>1, <2>2, <2>3, <2>5, PatchedFields
  <2>7. QED
    BY <2>1, <2>4, <2>6
<1>4. CASE MarkClosed(i)
  <2>1. CASE lease' = lease
    BY <2>1
  <2>2. CASE lease' = [lease EXCEPT !.reason = "SourceClosed"]
    <3>1. lease'.source = lease.source /\ lease'.reason = "SourceClosed"
      BY <1>1, <2>2, LeaseFields
    <3>2. QED
      BY <3>1
  <2>3. QED
    BY <1>4, <2>1, <2>2 DEF MarkClosed
<1>5. CASE Delete(i)
  BY <1>1, <1>5, DeleteKeeps DEF Delete
<1>6. QED
  BY <1>2, <1>3, <1>4, <1>5

\* A lease stays with its repository: patchGitHubMetadata sends the annotation
\* only when it read a lease without one.
THEOREM RepositoryKept == Spec => SourceKept
<1> DEFINE Kept == /\ lease.exists /\ lease'.exists /\ lease'.uid = lease.uid
                   /\ lease.source # Nil
                   /\ \A i \in Handlers : h[i].pc = "patch" => h[i].found.source # Nil
                   => lease'.source = lease.source
<1>1. WInv /\ [Next]_vars => [Kept]_vars
  <2> SUFFICES ASSUME WInv, [Next]_vars, lease.exists, lease'.exists,
                      \A i \in Handlers : h[i].pc = "patch" => h[i].found.source # Nil
               PROVE  lease'.source = lease.source
    OBVIOUS
  <2>1. ASSUME NEW i \in Handlers, Create(i) \/ Patch(i) \/ MarkClosed(i) \/ Delete(i)
        PROVE  lease'.source = lease.source
    <3>1. h[i].pc = "patch" => h[i].found.source = h[i].msg.source
      BY DEF WInv, HandlerInv
    <3>2. QED
      BY <2>1, <3>1, HandlerWrites
  <2>2. QED
    BY <2>1, LeaseSteps, ControlWrites
<1>2. QED
  BY <1>1, WebhookInvariant, PTL DEF Spec, SourceKept

\* SourceClosed on a lease that is being deleted survives the controller's
\* status writes, once no Reconcile from before the deletion is under way.
THEOREM ReasonPreserved == Spec => ReasonKept
<1> DEFINE Kept == /\ lease.deleting /\ lease.reason = "SourceClosed"
                   /\ ctl.pc = "read" => ctl.found.deleting
                   => lease'.reason = "SourceClosed" \/ ~lease'.exists
<1>1. WInv /\ [Next]_vars => [Kept]_vars
  <2> SUFFICES ASSUME WInv, [Next]_vars, lease.deleting, lease.reason = "SourceClosed",
                      ctl.pc = "read" => ctl.found.deleting, lease'.exists
               PROVE  lease'.reason = "SourceClosed"
    OBVIOUS
  <2>1. lease.exists
    BY DEF WInv, Pending
  <2>2. ctl.pc = "read" => SyncedReason("Other") = "SourceClosed"
    BY DEF WInv, WorkerInv, SyncedReason
  <2>3. QED
    BY <2>1, <2>2, LeaseSteps, ControlWrites, HandlerWrites
<1>2. QED
  BY <1>1, WebhookInvariant, PTL DEF Spec, ReasonKept

-----------------------------------------------------------------------------
(* Closed pull requests                                                    *)

\* A lease of the repository that nobody has deleted.
Live(l, s) == l.exists /\ ~l.deleting /\ l.source = s

\* Messages are numbered in the order in which they are sent.
Numbered ==
    /\ \A m \in sent : m.id <= Cardinality(sent)
    /\ \A m, n \in sent : m.id = n.id => m = n

\* What a handler works on.
Holds(v) ==
    /\ v.msg \in sent \cup {Nil}
    /\ v.pc = "idle" <=> v.msg = Nil
    /\ v.msg # Nil /\ v.msg.action = "closed" => v.pc \in {"expireGet", "status", "delete"}

\* No other handler than i has a message of the repository, and none is coming.
Alone(i, s) ==
    /\ \A m \in net : m.source # s
    /\ \A j \in Handlers : j # i /\ h[j].msg # Nil => h[j].msg.source # s

\* How the closing of a pull request gets through: it is the last message under
\* way, or the only one that is handled, or it has left no lease.
Settled(s) ==
    \/ \E c \in net : /\ c.source = s /\ c.action = "closed"
                      /\ \A m \in sent : m.source = s => m.id <= c.id
    \/ \E i \in Handlers : /\ h[i].msg # Nil /\ h[i].msg.source = s
                           /\ h[i].msg.action = "closed" /\ Alone(i, s)
    \/ /\ ~Live(lease, s)
       /\ \A i \in Handlers : h[i].msg # Nil => h[i].msg.source # s
       /\ \A m \in net : m.source # s

QInv ==
    /\ Numbered
    /\ \A i \in Handlers : Holds(h[i])
    /\ faults = 0 =>
         /\ \A i \in Handlers : h[i].msg \notin net
         /\ \A s \in Sources : pr[s] = "closed" => Settled(s)

\* GitHub and the generic clients send: the newest message has the highest
\* number, and is not handled yet.
LEMMA SendSettles ==
    ASSUME WInv, WInv', QInv, NEW r, NEW action, Send(r, action),
           \A s \in Sources : \/ r # s /\ pr'[s] = pr[s]
                              \/ r = s /\ (pr'[s] = "closed" => action = "closed")
    PROVE  QInv'
<1> DEFINE id == Cardinality(sent) + 1
           m == [id |-> id, source |-> r, action |-> action]
<1>1. /\ sent' = sent \cup {m} /\ net' = net \cup {m}
      /\ UNCHANGED <<lease, h, ctl, faults>>
  BY DEF Send
<1>2. Cardinality(sent) \in Nat /\ IsFiniteSet(sent) /\ net \subseteq sent
  BY FS_CardinalityType DEF WInv, TypeOK
<1>3. m.id = id /\ m.source = r /\ m.action = action /\ id \in Nat /\ id > Cardinality(sent)
  BY <1>2
<1> HIDE DEF id, m
<1>4. \A n \in sent : n.id \in Nat /\ n.id < id
  <2>1. \A n \in sent : n.id \in Nat /\ n.id <= Cardinality(sent)
    BY SourceAssumption DEF QInv, Numbered, WInv, TypeOK, Message
  <2>2. QED
    BY <1>2, <1>3, <2>1
<1>5. m \notin sent
  BY <1>3, <1>4
<1>6. Cardinality(sent') = id
  BY <1>1, <1>2, <1>5, FS_AddElement DEF id
<1>7. Numbered'
  BY <1>1, <1>3, <1>4, <1>6 DEF QInv, Numbered
<1>8. \A i \in Handlers : Holds(h[i])'
  BY <1>1 DEF QInv, Holds
<1>9. ASSUME faults' = 0
      PROVE  \A i \in Handlers : h'[i].msg \notin net'
  <2>1. ASSUME NEW i \in Handlers PROVE h[i].msg \notin net /\ h[i].msg # m
    <3>1. h[i].msg \in sent \cup {Nil} /\ h[i].msg \notin net
      BY <1>1, <1>9 DEF QInv, Holds
    <3>2. m # Nil
      BY <1>1, MessageAssumption DEF WInv, TypeOK
    <3>3. QED
      BY <1>5, <3>1, <3>2
  <2>2. QED
    BY <1>1, <2>1
<1>10. ASSUME faults' = 0, NEW s \in Sources, pr'[s] = "closed" PROVE Settled(s)'
  <2>1. CASE r = s
    <3>1. \A n \in sent' : n.id <= m.id
      BY <1>1, <1>3, <1>4
    <3>2. QED
      BY <1>1, <1>3, <1>10, <2>1, <3>1 DEF Settled
  <2>2. CASE r # s
    <3>1. Settled(s)
      BY <1>1, <1>10, <2>2 DEF QInv
    <3>2. QED
      BY <1>1, <1>3, <2>2, <3>1 DEF Settled, Alone
  <2>3. QED
    BY <2>1, <2>2
<1>11. QED
  BY <1>7, <1>8, <1>9, <1>10 DEF QInv

\* The controller and "expire" create no lease and take no deletion back.
LEMMA ControlKeeps ==
    ASSUME WInv, Control \/ Expire, lease'.exists
    PROVE  lease.exists /\ (lease.deleting => lease'.deleting)
<1>1. lease \in Lease /\ Pending(lease) /\ ctl.found \in Lease /\ WorkerInv
  BY Parts DEF WInv
<1>2. ASSUME NEW reason \in {"", "SourceClosed", "Other"}, NEW next,
             PatchStatus(reason, next), lease.exists
      PROVE  lease'.deleting = lease.deleting
  BY <1>1, <1>2, LeaseFields DEF PatchStatus
<1>3. \A d \in {"", "Other"} : SyncedReason(d) \in {"", "SourceClosed", "Other"}
  BY DEF SyncedReason
<1>4. CASE AddFinalizer
  <2>1. CASE lease = ctl.found
    <3>1. lease.exists /\ lease' = [lease EXCEPT !.finalizer = TRUE]
      BY <1>1, <1>4, <2>1 DEF AddFinalizer, WorkerInv
    <3>2. lease'.deleting = lease.deleting
      BY <1>1, <3>1, LeaseFields
    <3>3. QED
      BY <3>1, <3>2
  <2>2. QED
    BY <1>4, <2>1 DEF AddFinalizer
<1>5. CASE WriteActive
  <2>1. PICK reason \in {ctl.found.reason, lease.reason, SyncedReason("")} :
           PatchStatus(reason, Resting)
    BY <1>5 DEF WriteActive
  <2>2. reason \in {"", "SourceClosed", "Other"}
    BY <1>1, <1>3, <2>1, LeaseType
  <2>3. lease.exists
    BY <1>1, <1>5 DEF WriteActive, WorkerInv
  <2>4. QED
    BY <1>2, <2>1, <2>2, <2>3
<1>6. CASE WriteExpired \/ ExpiredDone \/ WriteCleaning \/ CleanupDone
  <2>1. lease.exists
    BY <1>1, <1>6 DEF WriteExpired, ExpiredDone, WriteCleaning, CleanupDone, WorkerInv
  <2>2. \E next : PatchStatus(SyncedReason("Other"), next)
    BY <1>6 DEF WriteExpired, ExpiredDone, WriteCleaning, CleanupDone
  <2>3. lease'.deleting = lease.deleting
    BY <1>2, <1>3, <2>1, <2>2
  <2>4. QED
    BY <2>1, <2>3
<1>7. CASE RemoveFinalizer
  <2>1. lease.exists
    BY <1>1, <1>7 DEF RemoveFinalizer, WorkerInv
  <2>2. ~lease.deleting
    BY <1>1, <1>7, GoneType DEF RemoveFinalizer
  <2>3. QED
    BY <2>1, <2>2
<1>8. CASE DeleteExpired \/ Expire
  BY <1>1, <1>8, DeletedType DEF DeleteExpired, Expire
<1>9. QED
  BY <1>4, <1>5, <1>6, <1>7, <1>8 DEF Control

\* Only a handler of the repository's own messages makes a lease of it.
LEMMA LiveKept ==
    ASSUME WInv, QInv, [Next]_vars, NEW s \in Sources, ~Live(lease, s),
           \A i \in Handlers : h[i].msg # Nil => h[i].msg.source # s
    PROVE  ~Live(lease', s)
<1>1. lease \in Lease /\ Pending(lease)
  BY Parts
<1>2. CASE Control \/ Expire
  BY <1>2, ControlKeeps, ControlWrites DEF Live
<1>3. ASSUME NEW i \in Handlers, Create(i) \/ Patch(i) \/ MarkClosed(i) \/ Delete(i)
      PROVE  ~Live(lease', s)
  <2>1. h[i].msg \in Message /\ h[i].msg.source # s
    <3>1. h[i].pc # "idle"
      BY <1>3 DEF Create, Patch, MarkClosed, Delete
    <3>2. QED
      BY <3>1, Parts DEF QInv, Holds
  <2>2. CASE ~lease.exists
    <3>1. CASE Create(i)
      <4>1. lease'.source = h[i].msg.source
        BY <1>1, <2>2, <3>1, NoLeaseType DEF Create, Lease
      <4>2. QED
        BY <2>1, <4>1 DEF Live
    <3>2. CASE MarkClosed(i)
      <4>1. lease # h[i].found
        BY <2>2, <3>2 DEF MarkClosed, WInv, HandlerInv
      <4>2. QED
        BY <2>2, <3>2, <4>1 DEF MarkClosed, Live
    <3>3. QED
      BY <1>3, <2>2, <3>1, <3>2 DEF Patch, Delete, Live
  <2>3. CASE lease.exists /\ lease'.exists
    <3>1. lease'.source = s => lease.source = s
      <4>1. CASE Patch(i)
        <5> DEFINE t == IF h[i].found.source = h[i].msg.source THEN lease.source
                        ELSE h[i].msg.source
        <5>1. lease' = [lease EXCEPT !.source = t, !.request = h[i].msg.id]
          BY <2>3, <4>1 DEF Patch
        <5>2. lease'.source = t
          BY <1>1, <5>1 DEF Lease
        <5>3. QED
          BY <2>1, <5>2
      <4>2. CASE ~Patch(i)
        <5>1. h[i].pc # "patch"
          BY <1>3, <4>2 DEF Create, MarkClosed, Delete
        <5>2. QED
          BY <1>3, <2>3, <5>1, HandlerWrites
      <4>3. QED
        BY <4>1, <4>2
    <3>2. lease.deleting => lease'.deleting
      <4>1. CASE Create(i)
        BY <2>3, <4>1 DEF Create
      <4>2. CASE Patch(i)
        <5>1. lease'.deleting = lease.deleting
          BY <1>1, <2>3, <4>2 DEF Patch, Lease
        <5>2. QED
          BY <5>1
      <4>3. CASE MarkClosed(i)
        <5>1. lease'.deleting = lease.deleting
          BY <1>1, <2>3, <4>3 DEF MarkClosed, Lease
        <5>2. QED
          BY <5>1
      <4>4. CASE Delete(i)
        BY <1>1, <2>3, <4>4, DeletedType DEF Delete
      <4>5. QED
        BY <1>3, <4>1, <4>2, <4>3, <4>4
    <3>3. QED
      BY <2>3, <3>1, <3>2 DEF Live
  <2>4. QED
    BY <2>2, <2>3 DEF Live
<1>4. QED
  BY <1>2, <1>3, LeaseSteps

\* A handler takes a message: a closing that is the last one is taken when no
\* other message of the repository is left.
LEMMA ReceiveSettles ==
    ASSUME WInv, QInv, NEW i \in Handlers, NEW m \in sent, Receive(i, m)
    PROVE  QInv'
<1> DEFINE v == [pc |-> IF m.action \in {"closed", "expire"} THEN "expireGet"
                        ELSE "ensureGet",
                 msg |-> m, found |-> NoLease]
<1>1. /\ h' = [h EXCEPT ![i] = v] /\ net' = net \ {m} /\ m \in net /\ h[i].pc = "idle"
      /\ UNCHANGED <<pr, sent, lease, ctl>>
  BY DEF Receive
<1>2. m # Nil /\ h \in [Handlers -> Handler] /\ net \subseteq sent
  BY MessageAssumption DEF WInv, TypeOK
<1>3. v.msg = m /\ v.pc # "idle" /\ (m.action = "closed" => v.pc = "expireGet")
  OBVIOUS
<1> HIDE DEF v
<1>4. h'[i] = v /\ \A j \in Handlers : j # i => h'[j] = h[j]
  BY <1>1, <1>2
<1>5. Numbered' /\ \A j \in Handlers : Holds(h[j])'
  <2>1. ASSUME NEW j \in Handlers, j # i PROVE Holds(h[j])'
    <3>1. Holds(h[j]) /\ h'[j] = h[j]
      BY <1>4, <2>1 DEF QInv
    <3>2. QED
      BY <1>1, <3>1 DEF Holds
  <2>2. Holds(h[i])'
    BY <1>1, <1>2, <1>3, <1>4 DEF Holds
  <2>3. QED
    BY <1>1, <2>1, <2>2 DEF QInv, Numbered
<1>6. ASSUME faults' = 0
      PROVE  /\ \A j \in Handlers : h'[j].msg \notin net'
             /\ \A s \in Sources : pr'[s] = "closed" => Settled(s)'
  <2>1. faults = 0 /\ InOrder(m)
    BY <1>6 DEF Receive, Fault, WInv, TypeOK
  <2>2. \A j \in Handlers : h'[j].msg \notin net'
    BY <1>1, <1>3, <1>4, <2>1 DEF QInv
  <2>3. ASSUME NEW s \in Sources, pr[s] = "closed" PROVE Settled(s)'
    <3>1. CASE \E c \in net : /\ c.source = s /\ c.action = "closed"
                              /\ \A n \in sent : n.source = s => n.id <= c.id
      <4>1. PICK c \in net : /\ c.source = s /\ c.action = "closed"
                             /\ \A n \in sent : n.source = s => n.id <= c.id
        BY <3>1
      <4>2. CASE c # m
        BY <1>1, <4>1, <4>2 DEF Settled
      <4>3. CASE c = m
        <5>1. \A n \in sent : n.id \in Nat
          BY DEF WInv, TypeOK, Message
        <5>2. ASSUME NEW e \in sent, e.source = s,
                     e \in (net \cup {h[j].msg : j \in Handlers}) \ {Nil}
              PROVE  e = m
          <6>1. e.id >= m.id /\ e.id <= m.id
            BY <2>1, <4>1, <4>3, <5>2 DEF InOrder
          <6>2. e.id = m.id
            BY <1>2, <4>1, <5>1, <6>1
          <6>3. QED
            BY <6>2 DEF QInv, Numbered
        <5>3. \A n \in net' : n.source # s
          BY <1>1, <1>2, <5>2, MessageAssumption DEF WInv, TypeOK
        <5>4. \A j \in Handlers : j # i /\ h'[j].msg # Nil => h'[j].msg.source # s
          <6>1. ASSUME NEW j \in Handlers, j # i, h[j].msg # Nil, h[j].msg.source = s
                PROVE  FALSE
            <7>1. h[j].msg \in sent /\ h[j].msg \notin net
              BY <2>1, <6>1 DEF QInv, Holds
            <7>2. QED
              BY <1>1, <5>2, <6>1, <7>1
          <6>2. QED
            BY <1>4, <6>1
        <5>5. QED
          BY <1>2, <1>3, <1>4, <4>1, <4>3, <5>3, <5>4 DEF Settled, Alone
      <4>4. QED
        BY <4>2, <4>3
    <3>2. CASE \E j \in Handlers : /\ h[j].msg # Nil /\ h[j].msg.source = s
                                   /\ h[j].msg.action = "closed" /\ Alone(j, s)
      <4>1. PICK j \in Handlers : /\ h[j].msg # Nil /\ h[j].msg.source = s
                                  /\ h[j].msg.action = "closed" /\ Alone(j, s)
        BY <3>2
      <4>2. j # i /\ m.source # s
        BY <1>1, <4>1 DEF Alone, QInv, Holds
      <4>3. Alone(j, s)'
        BY <1>1, <1>3, <1>4, <4>1, <4>2 DEF Alone
      <4>4. QED
        BY <1>4, <4>1, <4>2, <4>3 DEF Settled
    <3>3. CASE /\ ~Live(lease, s)
               /\ \A j \in Handlers : h[j].msg # Nil => h[j].msg.source # s
               /\ \A n \in net : n.source # s
      BY <1>1, <1>3, <1>4, <3>3 DEF Settled
    <3>4. QED
      BY <2>1, <2>3, <3>1, <3>2, <3>3 DEF QInv, Settled
  <2>4. QED
    BY <1>1, <2>2, <2>3
<1>7. QED
  BY <1>5, <1>6 DEF QInv

\* A handler answers, or goes on with the message that it has.
LEMMA HandlerShape ==
    ASSUME WInv, NEW i \in Handlers, Handle(i)
    PROVE  /\ h[i].pc # "idle" /\ UNCHANGED <<pr, sent, net, ctl, faults>>
           /\ \A j \in Handlers : j # i => h'[j] = h[j]
           /\ \/ h'[i] = Idle
              \/ /\ h'[i].msg = h[i].msg /\ h'[i].pc # "idle"
                 /\ h'[i].pc \in {"status", "delete"} \/ h[i].pc = "ensureGet"
<1>1. h \in [Handlers -> Handler] /\ h[i] \in Handler
  BY Parts
<1>2. ASSUME NEW pc, NEW found, Goto(i, pc, found)
      PROVE  /\ h'[i].msg = h[i].msg /\ h'[i].pc = pc
             /\ \A j \in Handlers : j # i => h'[j] = h[j]
  BY <1>1, <1>2 DEF Goto, Handler
<1>3. ASSUME Answer(i) PROVE h'[i] = Idle /\ \A j \in Handlers : j # i => h'[j] = h[j]
  BY <1>1, <1>3 DEF Answer
<1>4. CASE EnsureGet(i)
  BY <1>2, <1>3, <1>4 DEF EnsureGet, github
<1>5. CASE Create(i) \/ Patch(i) \/ Delete(i)
  BY <1>3, <1>5 DEF Create, Patch, Delete, github
<1>6. CASE ExpireGet(i) \/ ExpireAnyGet(i) \/ MarkClosed(i)
  BY <1>2, <1>3, <1>6 DEF ExpireGet, ExpireAnyGet, MarkClosed, github
<1>7. QED
  BY <1>4, <1>5, <1>6 DEF Handle

\* A closing that is answered has left no lease of the repository.
LEMMA ClosingEnds ==
    ASSUME WInv, NEW i \in Handlers, Handle(i), NEW s \in Sources, h'[i] = Idle,
           h[i].msg.source = s, h[i].pc \in {"expireGet", "status", "delete"}
    PROVE  ~Live(lease', s)
<1>1. s # Nil /\ Idle.msg = Nil /\ h[i].msg \in Message /\ lease \in Lease /\ Idle.pc = "idle"
  BY SourceAssumption, Parts DEF Idle
<1>2. ASSUME NEW pc, NEW found, Goto(i, pc, found) PROVE h'[i].msg = h[i].msg
  BY <1>2, Parts DEF Goto, Handler
<1>3. ASSUME NEW pc, NEW found PROVE ~Goto(i, pc, found)
  BY <1>1, <1>2, MessageAssumption
<1>4. CASE ExpireGet(i)
  BY <1>1, <1>3, <1>4 DEF ExpireGet, GithubIdentityConflict, Live
<1>5. CASE Delete(i)
  <2>1. CASE lease.exists
    <3>1. lease'.exists => lease'.deleting
      BY <1>1, <1>5, <2>1, DeletedType DEF Delete
    <3>2. QED
      BY <3>1 DEF Live
  <2>2. QED
    BY <1>5, <2>1 DEF Delete, Live
<1>6. ~MarkClosed(i) /\ ~ExpireAnyGet(i)
  BY <1>1, <1>3 DEF MarkClosed, ExpireAnyGet
<1>7. ~EnsureGet(i) /\ ~Create(i) /\ ~Patch(i)
  BY DEF EnsureGet, Create, Patch
<1>8. QED
  BY <1>4, <1>5, <1>6, <1>7 DEF Handle

\* A step that sends and takes no message: handlers, controller and users.
LEMMA QuietSettles ==
    ASSUME WInv, QInv, [Next]_vars,
           UNCHANGED <<h, pr, sent, net, faults>> \/ \E i \in Handlers : Handle(i)
    PROVE  QInv'
<1>1. UNCHANGED <<pr, sent, net, faults>>
  BY HandlerShape
<1>2. Idle.msg = Nil /\ Idle.pc = "idle" /\ Nil \notin net
  BY MessageAssumption DEF Idle, WInv, TypeOK
<1>3. ASSUME NEW j \in Handlers
      PROVE  /\ h'[j].msg \in {Nil, h[j].msg} /\ Holds(h[j])'
  <2>1. CASE h'[j] = h[j]
    BY <1>1, <2>1 DEF QInv, Holds
  <2>2. CASE h'[j] = Idle
    BY <1>2, <2>2 DEF Holds
  <2>3. CASE /\ h'[j].msg = h[j].msg /\ h'[j].pc # "idle" /\ h[j].pc # "idle"
             /\ h'[j].pc \in {"status", "delete"} \/ h[j].pc = "ensureGet"
    BY <1>1, <2>3 DEF QInv, Holds
  <2>4. QED
    BY <2>1, <2>2, <2>3, HandlerShape
<1>4. ASSUME faults = 0, NEW s \in Sources, pr[s] = "closed" PROVE Settled(s)'
  <2>1. CASE \E c \in net : /\ c.source = s /\ c.action = "closed"
                            /\ \A m \in sent : m.source = s => m.id <= c.id
    BY <1>1, <2>1 DEF Settled
  <2>2. CASE \E j \in Handlers : /\ h[j].msg # Nil /\ h[j].msg.source = s
                                 /\ h[j].msg.action = "closed" /\ Alone(j, s)
    <3>1. PICK j \in Handlers : /\ h[j].msg # Nil /\ h[j].msg.source = s
                                /\ h[j].msg.action = "closed" /\ Alone(j, s)
      BY <2>2
    <3>2. Alone(j, s)'
      BY <1>1, <1>3, <3>1 DEF Alone
    <3>3. CASE h'[j].msg # Nil
      <4>1. h'[j].msg = h[j].msg
        BY <1>3, <3>3
      <4>2. QED
        BY <3>1, <3>2, <3>3, <4>1 DEF Settled
    <3>4. CASE h'[j].msg = Nil
      <4>1. Handle(j) /\ h'[j] = Idle
        BY <3>1, <3>4, HandlerShape
      <4>2. h[j].pc \in {"expireGet", "status", "delete"}
        BY <3>1 DEF QInv, Holds
      <4>3. ~Live(lease', s)
        BY <3>1, <4>1, <4>2, ClosingEnds
      <4>4. QED
        BY <3>2, <3>4, <4>3 DEF Settled, Alone
    <3>5. QED
      BY <3>3, <3>4
  <2>3. CASE /\ ~Live(lease, s)
             /\ \A j \in Handlers : h[j].msg # Nil => h[j].msg.source # s
             /\ \A m \in net : m.source # s
    <3>1. ~Live(lease', s)
      BY <2>3, LiveKept
    <3>2. QED
      BY <1>1, <1>3, <2>3, <3>1 DEF Settled
  <2>4. QED
    BY <1>4, <2>1, <2>2, <2>3 DEF QInv, Settled
<1>5. Numbered' /\ (faults' = 0 => \A j \in Handlers : h'[j].msg \notin net')
  BY <1>1, <1>2, <1>3 DEF QInv, Numbered
<1>6. QED
  BY <1>1, <1>3, <1>4, <1>5 DEF QInv

\* A lost or repeated message and a handler that gives up are faults.
LEMMA FaultSettles ==
    ASSUME WInv, QInv,
           (\E m \in sent : Lose(m) \/ Redeliver(m)) \/ \E i \in Handlers : GiveUp(i)
    PROVE  QInv'
<1>1. faults' # 0 /\ UNCHANGED <<pr, sent, lease, ctl>>
  BY DEF Lose, Redeliver, GiveUp, Fault, github, WInv, TypeOK
<1>2. \A j \in Handlers : h'[j] = h[j] \/ h'[j] = Idle
  BY DEF Lose, Redeliver, GiveUp, Answer, WInv, TypeOK
<1>3. Idle.msg = Nil /\ Idle.pc = "idle"
  BY DEF Idle
<1>4. \A j \in Handlers : Holds(h[j])'
  BY <1>1, <1>2, <1>3 DEF QInv, Holds
<1>5. QED
  BY <1>1, <1>4 DEF QInv, Numbered

\* While every message arrives once and in order, the closing of a pull request
\* is under way, being handled, or has left no lease of the repository.
THEOREM ClosingsSettle == Spec => [](WInv /\ QInv)
<1>1. Init => QInv
  <2> SUFFICES ASSUME Init PROVE QInv
    OBVIOUS
  <2>1. /\ sent = {} /\ net = {} /\ \A i \in Handlers : h[i] = Idle
    BY DEF Init
  <2>2. Idle.msg = Nil /\ Idle.pc = "idle"
    BY DEF Idle
  <2>3. \A s \in Sources : pr[s] = "closed" => faults # 0
    BY SourceAssumption DEF Init
  <2>4. \A i \in Handlers : Holds(h[i])
    BY <2>1, <2>2 DEF Holds
  <2>5. QED
    BY <2>1, <2>2, <2>3, <2>4 DEF QInv, Numbered
<1>2. WInv /\ WInv' /\ QInv /\ [Next]_vars => QInv'
  <2> SUFFICES ASSUME WInv, WInv', QInv, [Next]_vars PROVE QInv'
    OBVIOUS
  <2>1. CASE \E s \in Sources : Open(s) \/ Close(s) \/ Reopen(s)
    <3>1. PICK s \in Sources : Open(s) \/ Close(s) \/ Reopen(s)
      BY <2>1
    <3>2. pr \in [Sources -> {"none", "open", "closed"}]
      BY DEF WInv, TypeOK
    <3>3. PICK action : /\ Send(s, action)
                        /\ \A t \in Sources :
                             \/ s # t /\ pr'[t] = pr[t]
                             \/ s = t /\ (pr'[t] = "closed" => action = "closed")
      BY <3>1, <3>2 DEF Open, Close, Reopen
    <3>4. QED
      BY <3>3, SendSettles
  <2>2. CASE Request
    <3>1. PICK action : Send(Nil, action)
      BY <2>2 DEF Request
    <3>2. \A s \in Sources : Nil # s /\ pr'[s] = pr[s]
      BY <2>2, SourceAssumption DEF Request
    <3>3. QED
      BY <3>1, <3>2, SendSettles
  <2>3. CASE \E m \in sent, i \in Handlers : Receive(i, m)
    BY <2>3, ReceiveSettles
  <2>4. CASE \E i \in Handlers : Handle(i)
    BY <2>4, QuietSettles
  <2>5. CASE Reconcile \/ Control \/ Expire \/ UNCHANGED vars
    <3>1. UNCHANGED h /\ UNCHANGED <<pr, sent, net, faults>>
      BY <2>5 DEF Reconcile, Control, Expire, vars, github, AddFinalizer, WriteActive,
                  WriteExpired, ExpiredDone, WriteCleaning, CleanupDone, RemoveFinalizer,
                  DeleteExpired, PatchStatus
    <3>2. QED
      BY <3>1, QuietSettles
  <2>6. QED
    BY <2>1, <2>2, <2>3, <2>4, <2>5, FaultSettles DEF Next
<1>3. QED
  BY <1>1, <1>2, WebhookInvariant, PTL DEF Spec

\* Once the deliveries of a closed pull request are answered, nobody's lease of
\* it is left undeleted, whatever other repositories, clients, the controller
\* and users do between a handler's calls.
THEOREM ClosedPullRequestsHandled == Spec => []ClosedIsHandled
<1>1. WInv /\ QInv => ClosedIsHandled
  <2> SUFFICES ASSUME WInv, QInv, NEW s \in Sources, faults = 0, pr[s] = "closed",
                      \A m \in (net \cup {h[i].msg : i \in Handlers}) \ {Nil} : m.source # s
               PROVE  ~(lease.exists /\ ~lease.deleting /\ lease.source = s)
    BY DEF ClosedIsHandled
  <2>1. Settled(s) /\ Nil \notin net
    BY MessageAssumption DEF QInv, WInv, TypeOK
  <2>2. QED
    BY <2>1 DEF Settled, Live
<1>2. QED
  BY <1>1, ClosingsSettle, PTL
=============================================================================
