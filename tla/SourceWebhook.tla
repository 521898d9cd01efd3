--------------------------- MODULE SourceWebhook ---------------------------
(***************************************************************************)
(* The webhook service (internal/sourcewebhook): deliveries of GitHub      *)
(* about pull requests of several repositories whose lease names collide,  *)
(* requests of generic clients for the same name, the handlers that turn   *)
(* both into one lease, and the controller and users who write it.         *)
(*                                                                         *)
(* A handler makes one API call per step, with an uncached client.  Lost,  *)
(* repeated and reordered messages and handlers that end early (API error, *)
(* timeout, 422 from the policy) are faults and are counted.  Other        *)
(* pull-request actions than the three below are answered without effect,  *)
(* and "touch" writes a part of the status that is left out here.          *)
(***************************************************************************)
EXTENDS Naturals, FiniteSets

CONSTANTS
    Nil,
    Sources,    \* full names of repositories with the same lease name
    Handlers,   \* HTTP requests that are handled concurrently
    MaxEvents,  \* bound: pull-request events and requests
    MaxFaults   \* bound: faults

ASSUME SourceAssumption ==
    /\ Nil \notin Sources
    /\ MaxEvents \in Nat /\ MaxFaults \in Nat

VARIABLES
    pr,         \* the pull request of each repository
    sent,       \* all messages so far
    net,        \* messages that have not arrived
    lease,      \* the EnvironmentLease of the name
    h,          \* the handlers
    ctl,        \* the controller's worker
    faults      \* faults so far

vars == <<pr, sent, net, lease, h, ctl, faults>>
github == <<pr, sent, net>>

-----------------------------------------------------------------------------

\* id is X-GitHub-Delivery, or the requestId of a generic request, which has
\* no source.
Message ==
    [id: 1..MaxEvents, source: Sources, action: {"opened", "closed", "reopened"}]
        \cup [id: 1..MaxEvents, source: {Nil}, action: {"create", "expire"}]

ASSUME MessageAssumption == Nil \notin Message

\* uid counts the leases that had the name; source and request are annotations
\* (request is 0 for none; a delivery sets its own ID and the request ID
\* alike), reason is status.expirationReason.
Lease ==
    [exists: BOOLEAN, deleting: BOOLEAN, finalizer: BOOLEAN, uid: Nat,
     source: Sources \cup {Nil}, request: 0..MaxEvents,
     reason: {"", "SourceClosed", "Other"}]

NoLease == [exists |-> FALSE, deleting |-> FALSE, finalizer |-> FALSE, uid |-> 0,
            source |-> Nil, request |-> 0, reason |-> ""]

Gone(l) == [NoLease EXCEPT !.uid = l.uid]

\* What a property still compares of a lease that was read.
Seen(l) == [Gone(l) EXCEPT !.source = l.source]

\* Delete: at once without a finalizer, else only the deletionTimestamp.
Deleted(l) == IF l.finalizer THEN [l EXCEPT !.deleting = TRUE] ELSE Gone(l)

Handler ==
    [pc: {"idle", "ensureGet", "create", "patch", "expireGet", "status", "delete"},
     msg: Message \cup {Nil}, found: Lease]

Idle == [pc |-> "idle", msg |-> Nil, found |-> NoLease]

Worker == [pc: {"idle", "read", "remove", "delete"}, found: Lease]

Resting == [pc |-> "idle", found |-> NoLease]

Fault == faults < MaxFaults /\ faults' = faults + 1

-----------------------------------------------------------------------------
(* GitHub and the generic clients                                          *)

Send(s, action) ==
    LET id == Cardinality(sent) + 1
        m == [id |-> id, source |-> s, action |-> action]
    IN  /\ id <= MaxEvents
        /\ sent' = sent \cup {m}
        /\ net' = net \cup {m}
        /\ UNCHANGED <<lease, h, ctl, faults>>

Open(s) == pr[s] = "none" /\ Send(s, "opened") /\ pr' = [pr EXCEPT ![s] = "open"]
Close(s) == pr[s] = "open" /\ Send(s, "closed") /\ pr' = [pr EXCEPT ![s] = "closed"]
Reopen(s) == pr[s] = "closed" /\ Send(s, "reopened") /\ pr' = [pr EXCEPT ![s] = "open"]
Request == (Send(Nil, "create") \/ Send(Nil, "expire")) /\ UNCHANGED pr

Lose(m) ==
    /\ m \in net
    /\ Fault
    /\ net' = net \ {m}
    /\ UNCHANGED <<pr, sent, lease, h, ctl>>

\* By hand, by the "redeliver" API, or the client's retry.
Redeliver(m) ==
    /\ m \in sent \ net
    /\ Fault
    /\ net' = net \cup {m}
    /\ UNCHANGED <<pr, sent, lease, h, ctl>>

-----------------------------------------------------------------------------
(* handleGitHub, handleGitHubPREvent, handleLeases and handleAction         *)

\* No earlier message of the repository or client is under way or handled.
InOrder(m) ==
    \A e \in (net \cup {h[i].msg : i \in Handlers}) \ {Nil} :
        e.source = m.source => e.id >= m.id

Receive(i, m) ==
    /\ h[i].pc = "idle"
    /\ m \in net
    /\ IF InOrder(m) THEN UNCHANGED faults ELSE Fault
    /\ net' = net \ {m}
    /\ h' = [h EXCEPT ![i] =
                [pc |-> IF m.action \in {"closed", "expire"} THEN "expireGet" ELSE "ensureGet",
                 msg |-> m, found |-> NoLease]]
    /\ UNCHANGED <<pr, sent, lease, ctl>>

Answer(i) == h' = [h EXCEPT ![i] = Idle]

Goto(i, pc, found) == h' = [h EXCEPT ![i].pc = pc, ![i].found = found]

\* Internal error, timeout, or a policy that rejects: nothing more happens.
GiveUp(i) ==
    /\ h[i].pc # "idle"
    /\ Fault
    /\ Answer(i)
    /\ UNCHANGED <<github, lease, ctl>>

\* A lease without a repository conflicts with none.
GithubIdentityConflict(l, m) == l.source # Nil /\ l.source # m.source

\* ensureGitHubLease, or createLease, which leaves a lease of the name alone.
EnsureGet(i) ==
    /\ h[i].pc = "ensureGet"
    /\ LET m == h[i].msg
       IN  IF ~lease.exists THEN Goto(i, "create", NoLease)
           ELSE IF \/ m.source = Nil
                   \/ lease.request = m.id
                   \/ GithubIdentityConflict(lease, m)
                   \/ lease.deleting
           THEN Answer(i)
           ELSE Goto(i, "patch", [NoLease EXCEPT !.source = lease.source])
    /\ UNCHANGED <<github, lease, ctl, faults>>

\* Create; AlreadyExists is answered as a success.
Create(i) ==
    /\ h[i].pc = "create"
    /\ lease' = IF lease.exists THEN lease
                ELSE [NoLease EXCEPT !.exists = TRUE, !.uid = lease.uid + 1,
                                     !.source = h[i].msg.source,
                                     !.request = h[i].msg.id]
    /\ Answer(i)
    /\ UNCHANGED <<github, ctl, faults>>

\* Mutant: all the metadata goes into the patch, changed or not.
MutantPatch(i) ==
    /\ h[i].pc = "patch"
    /\ lease' = IF lease.exists
                THEN [lease EXCEPT !.source = h[i].msg.source, !.request = h[i].msg.id]
                ELSE lease
    /\ Answer(i)
    /\ UNCHANGED <<github, ctl, faults>>

\* patchGitHubMetadata merges what differs from the lease that was read into
\* whatever lease has the name by now.
Patch(i) ==
    /\ h[i].pc = "patch"
    /\ LET m == h[i].msg
       IN  lease' = IF lease.exists
                    THEN [lease EXCEPT
                            !.source = IF h[i].found.source = m.source THEN @ ELSE m.source,
                            !.request = m.id]
                    ELSE lease
    /\ Answer(i)
    /\ UNCHANGED <<github, ctl, faults>>

\* A repeated delivery for a lease that is being deleted is one of the cases.
ExpireGet(i) ==
    /\ h[i].pc = "expireGet" /\ h[i].msg.source # Nil
    /\ IF \/ ~lease.exists
          \/ GithubIdentityConflict(lease, h[i].msg)
          \/ lease.deleting
       THEN Answer(i)
       ELSE Goto(i, "status", lease)
    /\ UNCHANGED <<github, lease, ctl, faults>>

\* expireLease: whoever the lease is for, and without a reason in the status.
ExpireAnyGet(i) ==
    /\ h[i].pc = "expireGet" /\ h[i].msg.source = Nil
    /\ IF ~lease.exists \/ lease.deleting THEN Answer(i)
       ELSE Goto(i, "delete", Seen(lease))
    /\ UNCHANGED <<github, lease, ctl, faults>>

\* Mutant: the status is written without the resourceVersion that was read.
MutantMarkClosed(i) ==
    /\ h[i].pc = "status"
    /\ lease' = IF lease.exists THEN [lease EXCEPT !.reason = "SourceClosed"] ELSE lease
    /\ Goto(i, "delete", Seen(h[i].found))
    /\ UNCHANGED <<github, ctl, faults>>

\* Mutant: the action of the delivery is stored as the reason.
MutantMarkReason(i) ==
    /\ h[i].pc = "status"
    /\ \/ lease = h[i].found /\ lease' = [lease EXCEPT !.reason = h[i].msg.action]
       \/ UNCHANGED lease
    /\ Goto(i, "delete", Seen(h[i].found))
    /\ UNCHANGED <<github, ctl, faults>>

\* Mutant: a conflict ends the request.
MutantMarkClosedOrEnd(i) ==
    /\ h[i].pc = "status"
    /\ \/ /\ lease = h[i].found
          /\ lease' = [lease EXCEPT !.reason = "SourceClosed"]
          /\ Goto(i, "delete", Seen(h[i].found))
       \/ UNCHANGED lease /\ Answer(i)
    /\ UNCHANGED <<github, ctl, faults>>

\* Status().Update with SourceClosed.  A status write leaves annotations
\* alone, so the delivery ID is not stored.  The write may fail (a conflict
\* here, or over a field left out here); the handler goes on all the same.
MarkClosed(i) ==
    /\ h[i].pc = "status"
    /\ \/ lease = h[i].found /\ lease' = [lease EXCEPT !.reason = "SourceClosed"]
       \/ UNCHANGED lease
    /\ Goto(i, "delete", Seen(h[i].found))
    /\ UNCHANGED <<github, ctl, faults>>

\* Delete by name; NotFound is answered as a success.
Delete(i) ==
    /\ h[i].pc = "delete"
    /\ lease' = IF lease.exists THEN Deleted(lease) ELSE lease
    /\ Answer(i)
    /\ UNCHANGED <<github, ctl, faults>>

-----------------------------------------------------------------------------
(* The controller, in the detail that matters to the webhook: how it       *)
(* writes and ends the lease.  Its reads are current (LeaseReconcile has   *)
(* the stale ones) and its other effects are left out.                     *)

Reconcile ==
    /\ ctl.pc = "idle" /\ lease.exists
    /\ ctl' = [pc |-> "read", found |-> lease]
    /\ UNCHANGED <<github, lease, h, faults>>

\* Update with the finalizer; a conflict is an error.
AddFinalizer ==
    /\ ctl.pc = "read" /\ ~ctl.found.deleting /\ ~ctl.found.finalizer
    /\ lease' = IF lease = ctl.found THEN [lease EXCEPT !.finalizer = TRUE] ELSE lease
    /\ ctl' = Resting
    /\ UNCHANGED <<github, h, faults>>

\* patchStatusIfChanged: the whole status, put over the latest one.
PatchStatus(reason, next) ==
    /\ lease' = [lease EXCEPT !.reason = reason]
    /\ ctl' = next
    /\ UNCHANGED <<github, h, faults>>

SyncedReason(default) ==
    IF ctl.found.reason = "SourceClosed" THEN "SourceClosed" ELSE default

\* A lease that is not expired.  SyncExpirationStatus keeps SourceClosed and
\* clears any other reason; a rejection by the policy comes before it.  Without
\* a change of the status nothing is written, and the first provisioning
\* reads the lease again on the way.
WriteActive ==
    /\ ctl.pc = "read" /\ ~ctl.found.deleting /\ ctl.found.finalizer
    /\ \E reason \in {ctl.found.reason, lease.reason, SyncedReason("")} : PatchStatus(reason, Resting)

\* reconcileExpired, of a lease past its deadline: cleanup has not ended ...
WriteExpired ==
    /\ ctl.pc = "read" /\ ~ctl.found.deleting /\ ctl.found.finalizer
    /\ PatchStatus(SyncedReason("Other"), Resting)

\* ... or has.
ExpiredDone ==
    /\ ctl.pc = "read" /\ ~ctl.found.deleting /\ ctl.found.finalizer
    /\ PatchStatus(SyncedReason("Other"), [ctl EXCEPT !.pc = "remove"])

\* reconcileDelete: the Namespace is still there ...
WriteCleaning ==
    /\ ctl.pc = "read" /\ ctl.found.deleting
    /\ PatchStatus(SyncedReason("Other"), Resting)

\* Mutant: removeLeaseFinalizer is not called.
MutantCleanupDone ==
    /\ ctl.pc = "read" /\ ctl.found.deleting
    /\ PatchStatus(SyncedReason("Other"), Resting)

\* ... or gone.
CleanupDone ==
    /\ ctl.pc = "read" /\ ctl.found.deleting
    /\ PatchStatus(SyncedReason("Other"), [ctl EXCEPT !.pc = "remove"])

\* removeLeaseFinalizer, of the latest lease, and with the finalizer goes a
\* lease that is being deleted, also one deleted meanwhile ...
RemoveFinalizer ==
    /\ ctl.pc = "remove"
    /\ lease' = IF lease.deleting THEN Gone(lease) ELSE [lease EXCEPT !.finalizer = FALSE]
    /\ ctl' = IF ctl.found.deleting THEN Resting ELSE [Resting EXCEPT !.pc = "delete"]
    /\ UNCHANGED <<github, h, faults>>

\* ... and after reconcileExpired whatever lease has the name.
DeleteExpired ==
    /\ ctl.pc = "delete"
    /\ lease' = IF lease.exists THEN Deleted(lease) ELSE lease
    /\ ctl' = Resting
    /\ UNCHANGED <<github, h, faults>>

\* "kubectl kubelease expire".
Expire ==
    /\ lease.exists /\ ~lease.deleting
    /\ lease' = Deleted(lease)
    /\ UNCHANGED <<github, h, ctl, faults>>

-----------------------------------------------------------------------------

\* Before the first message here there is no lease, one that was created by
\* other means, one of an open pull request, or one of a pull request whose
\* closing was lost.
Init ==
    /\ \E owner \in Sources \cup {Nil}, state \in {"open", "closed"} :
          /\ pr = [s \in Sources |-> IF s = owner THEN state ELSE "none"]
          /\ lease \in {[NoLease EXCEPT !.exists = TRUE, !.uid = 1, !.source = owner]}
                       \cup (IF owner = Nil THEN {NoLease} ELSE {})
          /\ faults = IF owner # Nil /\ state = "closed" THEN 1 ELSE 0
    /\ faults <= MaxFaults
    /\ sent = {}
    /\ net = {}
    /\ h = [i \in Handlers |-> Idle]
    /\ ctl = Resting

Handle(i) ==
    \/ EnsureGet(i) \/ Create(i) \/ Patch(i)
    \/ ExpireGet(i) \/ ExpireAnyGet(i) \/ MarkClosed(i) \/ Delete(i)

Control ==
    \/ AddFinalizer \/ WriteActive \/ WriteExpired \/ ExpiredDone
    \/ WriteCleaning \/ CleanupDone \/ RemoveFinalizer \/ DeleteExpired

Next ==
    \/ \E s \in Sources : Open(s) \/ Close(s) \/ Reopen(s)
    \/ Request
    \/ \E m \in sent : Lose(m) \/ Redeliver(m) \/ \E i \in Handlers : Receive(i, m)
    \/ \E i \in Handlers : Handle(i) \/ GiveUp(i)
    \/ Reconcile \/ Control \/ Expire

Spec == Init /\ [][Next]_vars

\* Messages arrive in order and are handled, the controller runs, and
\* Namespaces that are being deleted end.
Fairness ==
    /\ \A i \in Handlers : WF_vars(Handle(i))
    /\ WF_vars(\E i \in Handlers, m \in sent : InOrder(m) /\ Receive(i, m))
    /\ WF_vars(Reconcile)
    /\ WF_vars(Control)
    /\ SF_vars(CleanupDone)

FairSpec == Spec /\ Fairness

-----------------------------------------------------------------------------
(* Properties                                                              *)

\* Every variable has its type, and nothing is written to a lease that is gone.
TypeOK ==
    /\ pr \in [Sources -> {"none", "open", "closed"}]
    /\ sent \subseteq Message
    /\ net \subseteq sent
    /\ lease \in Lease /\ (lease.exists \/ lease = Gone(lease))
    /\ h \in [Handlers -> Handler]
    /\ ctl \in Worker
    /\ faults \in Nat

\* A lease that belongs to a repository stays with it for life, although a
\* handler merges its patch into whatever lease has the name by then
\* (patchGitHubMetadata sends differences only), unless that handler had read
\* a lease without a repository.
SourceKept ==
    [][/\ lease.exists /\ lease'.exists /\ lease'.uid = lease.uid /\ lease.source # Nil
       /\ \A i \in Handlers : h[i].pc = "patch" => h[i].found.source # Nil
       => lease'.source = lease.source]_vars

\* Once every delivery of a closed pull request is answered, no lease of it is
\* left that nobody deletes: neither an opening that is handled late nor a
\* lease that another repository, a client, a user or the controller replaces
\* between a handler's calls leaves one (handleGitHubPREvent reads again for
\* each delivery, expireGitHubLease deletes also when its status write fails).
\* Deliveries arrive once and in order here; each other case counts as a fault.
ClosedIsHandled ==
    \A s \in Sources :
        /\ faults = 0 /\ pr[s] = "closed"
        /\ \A m \in (net \cup {h[i].msg : i \in Handlers}) \ {Nil} : m.source # s
        => ~(lease.exists /\ ~lease.deleting /\ lease.source = s)

\* The controller preserves the reason: SourceClosed on a lease that is being
\* deleted stays, once no Reconcile from before the deletion is under way
\* (the webhook's status write is refused when the lease has changed).
ReasonKept ==
    [][/\ lease.deleting /\ lease.reason = "SourceClosed"
       /\ ctl.pc = "read" => ctl.found.deleting
       => lease'.reason = "SourceClosed" \/ ~lease'.exists]_vars

\* The environment of a closed pull request goes away, as long as every
\* delivery arrives once and in order (opened, closed -> expire, cleanup).
ClosedIsCleaned ==
    \A s \in Sources :
        pr[s] = "closed" ~>
            (pr[s] = "open" \/ faults > 0 \/ ~(lease.exists /\ lease.source = s))

=============================================================================
