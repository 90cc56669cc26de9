----------------------------- MODULE CallbackInbox -----------------------------
(***************************************************************************)
(* The durable WeCom callback inbox (mochat_go_wework_callback_inbox) and  *)
(* the worker loop that drains it.                                         *)
(*                                                                         *)
(* A row is accepted by the HTTP callback handler, leased to a worker by   *)
(* one claim transaction, and given a verdict by a fenced UPDATE.  Several *)
(* worker processes poll the same table; any of them can stall, lose its   *)
(* lease, crash, or lose the reply of a statement that was committed.      *)
(*                                                                         *)
(* Time is a set of countdowns that Tick lowers together: `lease' and      *)
(* `wait' are the database's lease_expires_at and next_attempt_at seen     *)
(* from now, `ctx' is what is left of a worker's processing context.       *)
(***************************************************************************)
EXTENDS Naturals

CONSTANTS
    Events,             \* event keys WeCom delivers
    Fingerprints,       \* payload fingerprints an event key may arrive with
    Workers,            \* callback worker processes
    MaxAttempts,        \* worker.maxAttempts
    ProcessingTimeout,  \* worker.processingTimeout, in ticks
    LeaseGrace,         \* weWorkCallbackLeaseCompletionGrace, in ticks
    RetryDelay,         \* worker.retryDelay, in ticks
    MaxDeferDelay,      \* weWorkCallbackDependencyDeferMaxDelay, in ticks
    MaxDefers,          \* bound: how often a dependency outage defers an event
    MaxRevivals         \* bound: how often an operator replays an event

ASSUME InboxConstants ==
    /\ Events # {}
    /\ MaxAttempts \in Nat \ {0}
    /\ ProcessingTimeout \in Nat \ {0}
    /\ LeaseGrace \in Nat \ {0}
    /\ RetryDelay \in Nat \ {0}
    /\ MaxDeferDelay \in Nat \ {0}
    /\ MaxDefers \in Nat
    /\ MaxRevivals \in Nat

VARIABLES
    row,     \* the inbox table, one row per event key
    nextId,  \* AUTO_INCREMENT of the table
    acked,   \* <<event, fingerprint>> pairs answered with "success"
    worker,  \* the claim each worker holds and where handleClaim stands
    okFence  \* history: the newest fence under which Process succeeded, per event

inboxVars == <<row, nextId, acked, worker, okFence>>

--------------------------------------------------------------------------------
(* Types *)

Verdicts == {"completed", "dead"}
RowStatus == {"absent", "pending", "processing"} \cup Verdicts
Outcomes == {"ok", "failed", "deferred"}

\* `token' is 0 for the empty lease_token, otherwise the number of the claim
\* that drew it: every claim draws a fresh random token.
Row == [status : RowStatus, id : Nat, fp : Fingerprints, attempt : Nat,
        defers : Nat, fence : Nat, token : Nat, lease : Nat, wait : Nat,
        revived : Nat]

WorkerState == [pc : {"idle", "claimed", "processing"} \cup Outcomes,
                event : Events, fence : Nat, token : Nat, attempt : Nat,
                defers : Nat, ctx : Nat]

InboxTypeOK ==
    /\ row \in [Events -> Row]
    /\ nextId \in Nat
    /\ acked \subseteq (Events \X Fingerprints)
    /\ worker \in [Workers -> WorkerState]
    /\ okFence \in [Events -> Nat]

--------------------------------------------------------------------------------
(* Predicates the SQL statements share *)

LeaseDuration == ProcessingTimeout + LeaseGrace

\* Faulty variant (Due): expired leases are not reclaimed.
DueOnlyPending(r) == r.status = "pending" /\ r.wait = 0

Due(r) ==
    \/ r.status = "pending" /\ r.wait = 0
    \/ r.status = "processing" /\ r.lease = 0

\* Faulty variant (HoldsLease): neither token nor fence is compared.
HoldsLeaseUnfenced(w) ==
    row[worker[w].event].status = "processing" /\ row[worker[w].event].lease > 0

\* WHERE id=? AND status='processing' AND lease_token=? AND lease_fence=?
\* AND lease_expires_at > now
HoldsLease(w) ==
    LET r == row[worker[w].event] IN
    /\ r.status = "processing"
    /\ r.token = worker[w].token
    /\ r.fence = worker[w].fence
    /\ r.lease > 0

DeferDelay(n) ==
    LET d == RetryDelay * (2 ^ n) IN
    IF d \in 0 .. MaxDeferDelay THEN d ELSE MaxDeferDelay

\* A worker between two claims; the event named in it means nothing.
NoClaim == [pc |-> "idle", event |-> CHOOSE e \in Events : TRUE, fence |-> 0,
            token |-> 0, attempt |-> 0, defers |-> 0, ctx |-> 0]

Idle(w) == [worker EXCEPT ![w] = NoClaim]

Released(r, status, wait) ==
    [r EXCEPT !.status = status, !.token = 0, !.lease = 0, !.wait = wait]

InboxInit ==
    /\ \E f \in Fingerprints :
         row = [e \in Events |->
                 [status |-> "absent", id |-> 0, fp |-> f, attempt |-> 0,
                  defers |-> 0, fence |-> 0, token |-> 0, lease |-> 0,
                  wait |-> 0, revived |-> 0]]
    /\ nextId = 1
    /\ acked = {}
    /\ worker = [w \in Workers |-> NoClaim]
    /\ okFence = [e \in Events |-> 0]

--------------------------------------------------------------------------------
(* The callback endpoint *)

\* AcceptWeWorkCallback: insert the event, or find the row its key already has.
Accept(e, f) ==
    IF row[e].status = "absent"
    THEN /\ row' = [row EXCEPT ![e].status = "pending", ![e].id = nextId,
                               ![e].fp = f]
         /\ nextId' = nextId + 1
    ELSE UNCHANGED <<row, nextId>>

\* Faulty variant (Deliver): a conflicting payload is answered with success.
DeliverAcksConflict(e, f) ==
    /\ Accept(e, f)
    /\ acked' = acked \cup {<<e, f>>}
    /\ UNCHANGED <<worker, okFence>>

\* receiveEvent answers `success' only when the stored fingerprint is the one
\* delivered; the answer itself may be lost, and WeCom then delivers again.
Deliver(e, f) ==
    /\ Accept(e, f)
    /\ \/ /\ row'[e].fp = f
          /\ acked' = acked \cup {<<e, f>>}
       \/ UNCHANGED acked
    /\ UNCHANGED <<worker, okFence>>

--------------------------------------------------------------------------------
(* The worker loop *)

\* The claim transaction's first statement: events that used up their attempts
\* are dead-lettered, whoever's row it is.
Swept ==
    [e \in Events |->
        IF Due(row[e]) /\ row[e].attempt >= MaxAttempts
        THEN Released(row[e], "dead", 0) ELSE row[e]]

\* Faulty variant (Claimable): one attempt too many.
ClaimableOffByOne == {e \in Events : Due(row[e]) /\ row[e].attempt <= MaxAttempts}

Claimable == {e \in Events : Due(row[e]) /\ row[e].attempt < MaxAttempts}

\* Its second statement: the claimable event with the lowest id is leased.
Leased(r) ==
    [r EXCEPT !.status = "processing", !.attempt = r.attempt + 1,
              !.fence = r.fence + 1, !.token = r.fence + 1,
              !.lease = LeaseDuration, !.wait = 0]

ClaimOf(e, r) ==
    [pc |-> "claimed", event |-> e, fence |-> r.fence, token |-> r.token,
     attempt |-> r.attempt, defers |-> r.defers, ctx |-> 0]

Claim(w) ==
    /\ worker[w].pc = "idle"
    /\ \/ /\ Claimable = {}
          /\ row' = Swept
          /\ UNCHANGED worker
       \/ \E e \in Claimable :
            /\ \A d \in Claimable : row[e].id <= row[d].id
            /\ row' = [Swept EXCEPT ![e] = Leased(row[e])]
            /\ worker' = [worker EXCEPT ![w] = ClaimOf(e, Leased(row[e]))]
    /\ UNCHANGED <<nextId, acked, okFence>>

\* handleClaim: re-validate the lease, then start the processing context.
Validate(w) ==
    /\ worker[w].pc = "claimed"
    /\ worker' = IF HoldsLease(w)
                 THEN [worker EXCEPT ![w].pc = "processing",
                                     ![w].ctx = ProcessingTimeout]
                 ELSE Idle(w)
    /\ UNCHANGED <<row, nextId, acked, okFence>>

\* Process returned.  What it did is left open here (CallbackSideEffects models
\* the contact event); an outage defers an event at most MaxDefers times.
ProcessReturns(w, outcome) ==
    /\ worker[w].pc = "processing"
    /\ outcome = "deferred" => worker[w].defers < MaxDefers
    /\ worker' = [worker EXCEPT ![w].pc = outcome, ![w].ctx = 0]
    /\ okFence' = IF outcome = "ok" /\ worker[w].fence > okFence[worker[w].event]
                  THEN [okFence EXCEPT ![worker[w].event] = worker[w].fence]
                  ELSE okFence
    /\ UNCHANGED <<row, nextId, acked>>

\* Faulty variant (Complete): the lease is not compared.
CompleteUnfenced(w) ==
    /\ worker[w].pc = "ok"
    /\ row' = IF row[worker[w].event].status = "processing"
              THEN [row EXCEPT ![worker[w].event] = Released(@, "completed", 0)]
              ELSE row
    /\ worker' = Idle(w)
    /\ UNCHANGED <<nextId, acked, okFence>>

Complete(w) ==
    /\ worker[w].pc = "ok"
    /\ row' = IF HoldsLease(w)
              THEN [row EXCEPT ![worker[w].event] = Released(@, "completed", 0)]
              ELSE row
    /\ worker' = Idle(w)
    /\ UNCHANGED <<nextId, acked, okFence>>

\* Faulty variant (Fail): a status the table does not know is written.
FailWritesFailed(w) ==
    /\ worker[w].pc = "failed"
    /\ row' = IF HoldsLease(w)
              THEN [row EXCEPT ![worker[w].event] = Released(@, "failed", RetryDelay)]
              ELSE row
    /\ worker' = Idle(w)
    /\ UNCHANGED <<nextId, acked, okFence>>

Fail(w) ==
    /\ worker[w].pc = "failed"
    /\ row' = IF HoldsLease(w)
              THEN [row EXCEPT ![worker[w].event] =
                      IF worker[w].attempt >= MaxAttempts
                      THEN Released(@, "dead", 0)
                      ELSE Released(@, "pending", RetryDelay)]
              ELSE row
    /\ worker' = Idle(w)
    /\ UNCHANGED <<nextId, acked, okFence>>

\* A dependency outage gives the attempt back.
Deferred(r, delay) ==
    [r EXCEPT !.status = "pending", !.token = 0, !.lease = 0, !.wait = delay,
              !.attempt = IF r.attempt > 0 THEN r.attempt - 1 ELSE 0,
              !.defers = r.defers + 1]

Defer(w) ==
    /\ worker[w].pc = "deferred"
    /\ row' = IF HoldsLease(w)
              THEN [row EXCEPT ![worker[w].event] =
                      Deferred(@, DeferDelay(worker[w].defers))]
              ELSE row
    /\ worker' = Idle(w)
    /\ UNCHANGED <<nextId, acked, okFence>>

\* The worker process dies, or gives up on a statement whose error or lost
\* reply it only logs.
Crash(w) ==
    /\ worker[w].pc # "idle"
    /\ worker' = Idle(w)
    /\ UNCHANGED <<row, nextId, acked, okFence>>

--------------------------------------------------------------------------------
(* The operator's replay and time *)

\* Faulty variant (Revivable): completed events are replayed too.
RevivableCompleted(r) ==
    \/ r.status \in {"dead", "pending", "completed"}
    \/ r.status = "processing" /\ r.lease = 0

\* The inbox half of ReconcileCallbackSideEffect: an event that no live lease
\* protects goes back to pending with a new fence and all its attempts.
Revivable(r) ==
    \/ r.status \in {"dead", "pending"}
    \/ r.status = "processing" /\ r.lease = 0

Revived(r) ==
    [r EXCEPT !.status = "pending", !.token = 0, !.lease = 0, !.wait = 0,
              !.attempt = 0, !.fence = r.fence + 1, !.revived = r.revived + 1]

Revive(e) ==
    /\ Revivable(row[e])
    /\ row[e].revived < MaxRevivals
    /\ row' = [row EXCEPT ![e] = Revived(row[e])]
    /\ UNCHANGED <<nextId, acked, worker, okFence>>

Dec(n) == IF n > 0 THEN n - 1 ELSE 0

\* One unit of time passes on the database's clock and on every worker's.
Elapse ==
    /\ row' = [e \in Events |-> [row[e] EXCEPT !.lease = Dec(@), !.wait = Dec(@)]]
    /\ worker' = [w \in Workers |-> [worker[w] EXCEPT !.ctx = Dec(@)]]
    /\ UNCHANGED <<nextId, acked, okFence>>

InboxTimersRun ==
    \/ \E e \in Events : row[e].lease > 0 \/ row[e].wait > 0
    \/ \E w \in Workers : worker[w].ctx > 0

Tick == InboxTimersRun /\ Elapse

--------------------------------------------------------------------------------

WorkerStep(w) ==
    \/ Claim(w)
    \/ Validate(w)
    \/ \E outcome \in Outcomes : ProcessReturns(w, outcome)
    \/ Complete(w)
    \/ Fail(w)
    \/ Defer(w)

InboxNext ==
    \/ \E e \in Events, f \in Fingerprints : Deliver(e, f)
    \/ \E w \in Workers : WorkerStep(w) \/ Crash(w)
    \/ \E e \in Events : Revive(e)
    \/ Tick

InboxSpec == InboxInit /\ [][InboxNext]_inboxVars

\* Time passes, and the workers as a whole keep polling and finishing what they
\* claimed: Process is cut off by its context, and the loop runs until shutdown.
\* Deliveries, crashes and operators are not fair.
InboxFairSpec ==
    /\ InboxSpec
    /\ WF_inboxVars(Tick)
    /\ WF_inboxVars(\E w \in Workers : WorkerStep(w))

--------------------------------------------------------------------------------
(* Properties *)

\* Delivery: WeCom was told "success" for a payload only if exactly that payload
\* is the one stored under its event key (receiveEvent answers 409 on a
\* conflicting fingerprint and 503 when the insert failed).
AckedIsStored ==
    \A p \in acked : row[p[1]].status # "absent" /\ row[p[1]].fp = p[2]

\* Mutual exclusion: two workers never hold a valid lease on one event, however
\* claims, expiries, replays and stalls interleave.
OneLiveOwner ==
    \A v, w \in Workers :
        /\ v # w
        /\ worker[v].pc # "idle" /\ HoldsLease(v)
        /\ worker[w].pc # "idle" /\ HoldsLease(w)
        => worker[v].event # worker[w].event

\* A completed event was completed on behalf of the execution that owned the
\* latest fence, and that execution's Process had succeeded: a stale worker's
\* success never closes an event that another worker is processing again.
CompletedByLastOwner ==
    \A e \in Events :
        row[e].status = "completed" => okFence[e] = row[e].fence

\* The retry budget: since its last replay an event was claimed at most
\* MaxAttempts times, plus once per dependency outage that gave the attempt
\* back; and it is dead-lettered only when the budget is used up.
RetryBudget ==
    \A e \in Events :
        LET r == row[e] IN
        /\ r.attempt <= MaxAttempts
        /\ r.fence <= r.attempt + r.defers + r.revived * (MaxAttempts + 1)
        /\ r.status = "dead" => r.attempt = MaxAttempts

\* Every stored event gets a verdict: neither crashes nor lost leases nor a
\* finite dependency outage leave it pending or processing for ever.
AcceptedIsResolved ==
    \A e \in Events :
        row[e].status \in {"pending", "processing"} ~> row[e].status \in Verdicts

Stage ==
    [e \in Events |->
        IF row[e].status \in {"pending", "processing"} THEN "open"
        ELSE row[e].status]

Lifecycle == INSTANCE EventLifecycle WITH stage <- Stage

\* The inbox implements the event lifecycle: a verdict is recorded once, and
\* only a dead event can be reopened.
ImplementsLifecycle == Lifecycle!LifecycleSpec

================================================================================
