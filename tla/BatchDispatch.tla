--------------------------- MODULE BatchDispatch ---------------------------
(***************************************************************************)
(* Group sends (contact_batch_send, room_batch_send) go to WeCom through a *)
(* durable ledger: an operation row per batch, a dispatch row per chunk of *)
(* recipients, and result rows per recipient.  A cron (RunOnce) lists the  *)
(* dispatches that are due and hands each one to DispatchRunner.Run, which *)
(* claims it under a lease, submits it once, and later polls the message   *)
(* WeCom made of it.  Several processes run the cron; each can die, lose   *)
(* its lease during a slow call, or get no answer from WeCom.              *)
(*                                                                         *)
(* The runner is modelled with the sender and the poller production gives  *)
(* it: both classify errors with classifyContactBatchProviderError, which  *)
(* never asserts SubmissionNotAccepted, and both refuse to poll a dispatch *)
(* without a message id.                                                   *)
(*                                                                         *)
(* A claim's lease token and attempt number are modelled by the worker     *)
(* that holds it: a worker runs one dispatch at a time, so the token it    *)
(* remembers is the row's exactly when the row's holder is that worker.    *)
(***************************************************************************)
EXTENDS Naturals, FiniteSets

CONSTANTS
    Operations,      \* batches
    MaxDispatch,     \* the dispatch ids are 1..MaxDispatch, in id order
    OperationOf,     \* the batch a dispatch is a chunk of
    Targets,         \* the recipients of one chunk
    Workers,         \* cron processes
    NoWorker,        \* the empty lease token
    PageLimit,       \* dispatches one pass of the cron lists
    MaxGeneration,   \* bound on the corp's credential generation
    MaxFaults        \* bound on crashes, overrun leases, refused writes, provider errors and withdrawn rights

Dispatches == 1 .. MaxDispatch

ASSUME BatchAssumption ==
    /\ MaxDispatch \in Nat \ {0}
    /\ OperationOf \in [Dispatches -> Operations]
    /\ NoWorker \notin Workers
    /\ PageLimit \in Nat \ {0}
    /\ MaxGeneration \in Nat \ {0}
    /\ MaxFaults \in Nat

VARIABLES
    op,        \* the operation rows
    row,       \* the dispatch rows
    recorded,  \* per dispatch, the recipients whose result row says succeeded
    binding,   \* the corp's current credential generation
    allowed,   \* what the authorizer says: tenant, quota, rights, scope, ownership
    work,      \* what each cron process is doing
    message,   \* what WeCom knows of each dispatch
    faults

vars == <<op, row, recorded, binding, allowed, work, message, faults>>

Terminal == {"succeeded", "partial_failed", "failed", "cancelled"}
Statuses == {"absent", "queued", "claimed", "submitting", "submitted", "polling"} \cup Terminal
Codes == {"", "reconcile", "retry", "final"}

NewRow == [status |-> "absent", holder |-> NoWorker, lease |-> "none",
           next |-> "null", err |-> "", pid |-> FALSE]

Idle == [pc |-> "idle", d |-> 1, status |-> "absent", err |-> "", pid |-> FALSE, left |-> {}]

\* delivered: who got it; listed: who the result list names so far; told: the
\* successes it named when the holder of the lease last asked (history).
NewMessage == [calls |-> 0, open |-> FALSE, done |-> FALSE,
               delivered |-> {}, listed |-> {}, told |-> {}]

Init ==
    /\ op = [o \in Operations |-> [status |-> "absent", gen |-> 0]]
    /\ row = [d \in Dispatches |-> NewRow]
    /\ recorded = [d \in Dispatches |-> {}]
    /\ binding = 1
    /\ allowed = TRUE
    /\ work = [w \in Workers |-> Idle]
    /\ message = [d \in Dispatches |-> NewMessage]
    /\ faults = 0

-----------------------------------------------------------------------------
(* The ledger: internal/store/wecom_capability_ledger.go and               *)
(* wecom_capability_dispatch_ledger.go.                                     *)

ChunksOf(o) == {d \in Dispatches : OperationOf[d] = o}

\* The fence every write repeats: the operation still allows dispatching and
\* was made under the credential the corp has now.
Current(d) ==
    /\ op[OperationOf[d]].status = "pending"
    /\ op[OperationOf[d]].gen = binding

IsRetryable(code) == code = "retry"

\* Faulty variant (DueRow): only dispatches with WeCom are taken over.
DueRowSubmitted(r) ==
    \/ r.status = "queued"
    \/ /\ r.status \in {"submitted", "polling"}
       /\ r.lease # "live"
       /\ r.next # "later"

\* The WHERE clause that the due query and the claim share.
DueRow(r) ==
    \/ r.status = "queued"
    \/ /\ r.status \in {"failed", "partial_failed"}
       /\ IsRetryable(r.err)
       /\ r.next = "due"
    \/ /\ r.status \in {"claimed", "submitting", "submitted", "polling"}
       /\ r.lease # "live"
       /\ r.next # "later"

CanTransition(from, to) ==
    CASE from = "claimed"    -> to \in {"submitting", "failed", "cancelled"}
      [] from = "submitting" -> to \in {"submitted", "polling", "failed", "cancelled"}
      [] from = "submitted"  -> to \in {"polling", "failed", "cancelled"}
      [] from = "polling"    -> to \in {"polling"} \cup Terminal
      [] OTHER               -> FALSE

\* The row of dispatch d after a transition to `to`; an id is never erased.
Transitioned(d, to, pid, next, err) ==
    [row[d] EXCEPT !.status = to,
                   !.holder = IF to \in Terminal THEN NoWorker ELSE @,
                   !.lease = IF to \in Terminal THEN "none" ELSE @,
                   !.pid = @ \/ pid,
                   !.next = next,
                   !.err = err]

LeaseHeld(w, d) == row[d].holder = w /\ row[d].lease = "live"

CanWrite(w, d, to) ==
    /\ LeaseHeld(w, d)
    /\ CanTransition(row[d].status, to)
    /\ Current(d)

\* PersistCapabilityDispatchReconcile: mark the row for polling only.
ReconcileRow(d, pid) ==
    [row[d] EXCEPT !.status = IF @ = "submitting" /\ pid THEN "submitted" ELSE @,
                   !.pid = @ \/ pid,
                   !.next = "due",
                   !.err = "reconcile"]

CanReconcile(w, d) ==
    /\ LeaseHeld(w, d)
    /\ row[d].status \in {"submitting", "submitted", "polling"}
    /\ Current(d)

-----------------------------------------------------------------------------
(* Requests of the dashboard.                                              *)

\* CreateContactBatchDispatch: one transaction.  A repeated idempotency key
\* reads the rows back and changes nothing.
Create(o) ==
    /\ allowed
    /\ op[o].status = "absent"
    /\ op' = [op EXCEPT ![o] = [status |-> "pending", gen |-> binding]]
    /\ row' = [d \in Dispatches |-> IF d \in ChunksOf(o) THEN [NewRow EXCEPT !.status = "queued"] ELSE row[d]]
    /\ UNCHANGED <<recorded, binding, allowed, work, message, faults>>

\* What the dashboard shows of a batch: AggregateOperationStatusWithResults.
\* The only results there are say succeeded (see Polled).
Projection(o) ==
    LET seen == {row[d].status : d \in ChunksOf(o)}
    IN  CASE seen = {"cancelled"}                     -> "cancelled"
          [] seen = {"succeeded"}                     -> "succeeded"
          [] seen \cap {"submitted", "polling"} # {}  -> "polling"
          [] seen \cap {"claimed", "submitting"} # {} -> "submitting"
          [] "queued" \in seen                        -> "pending"
          [] seen \cap {"succeeded", "partial_failed"} # {} -> "partial_failed"
          [] "failed" \in seen                        -> "failed"
          [] OTHER                                    -> "absent"

\* Faulty variant (Cancel): refused only when a chunk has ended.
CancelUnended(o) ==
    /\ allowed
    /\ op[o].status = "pending"
    /\ \A d \in ChunksOf(o) : row[d].status \notin Terminal
    /\ op' = [op EXCEPT ![o].status = "cancelled"]
    /\ row' = [d \in Dispatches |->
                 IF d \in ChunksOf(o) THEN [NewRow EXCEPT !.status = "cancelled", !.err = "final"] ELSE row[d]]
    /\ UNCHANGED <<recorded, binding, allowed, work, message, faults>>

\* CancelContactBatchDurable, CancelRoomBatchDurable: one transaction, refused
\* as soon as one chunk has left the queue.
Cancel(o) ==
    /\ allowed
    /\ Projection(o) = "pending"
    /\ \A d \in ChunksOf(o) : row[d].status = "queued"
    /\ op' = [op EXCEPT ![o].status = "cancelled"]
    /\ row' = [d \in Dispatches |->
                 IF d \in ChunksOf(o) THEN [NewRow EXCEPT !.status = "cancelled", !.err = "final"] ELSE row[d]]
    /\ UNCHANGED <<recorded, binding, allowed, work, message, faults>>

-----------------------------------------------------------------------------
(* A cron process: RunOnce and DispatchRunner.Run.                         *)

\* AuthorizeDispatch, asked before the claim, after it, and once more by the
\* sender when it builds the payload.
Authorized(d) == allowed /\ Current(d)

Goto(w, pc) == work' = [work EXCEPT ![w].pc = pc]

Stop(w) == work' = [work EXCEPT ![w] = Idle]

\* A ledger call of worker w: it writes `after` when the row allows it, and
\* is refused when it does not or when the database cannot be reached.
Ledger(w, ok, d, after, done, refused) ==
    \/ /\ ok
       /\ row' = [row EXCEPT ![d] = after]
       /\ work' = done
       /\ UNCHANGED faults
    \/ /\ ~ok
       /\ work' = refused
       /\ UNCHANGED <<row, faults>>
    \/ /\ ok
       /\ faults < MaxFaults
       /\ faults' = faults + 1
       /\ work' = refused
       /\ UNCHANGED row

\* ContactBatchDispatchDue: the first PageLimit due rows in id order.  A
\* deleted (cancelled) batch is not joined; the credential is not looked at.
Due ==
    LET due == {d \in Dispatches : DueRow(row[d]) /\ op[OperationOf[d]].status = "pending"}
    IN  {d \in due : Cardinality({e \in due : e < d}) < PageLimit}

Pick(w, d) ==
    /\ work[w].pc = "idle"
    /\ d \in Due
    /\ work' = [work EXCEPT ![w] = [Idle EXCEPT !.pc = "preclaim", !.d = d]]
    /\ UNCHANGED <<op, row, recorded, binding, allowed, message, faults>>

Preclaim(w) ==
    LET d == work[w].d
    IN  /\ work[w].pc = "preclaim"
        /\ IF Authorized(d) THEN Goto(w, "claim") ELSE Stop(w)
        /\ UNCHANGED <<op, row, recorded, binding, allowed, message, faults>>

\* Faulty variant (Claimed): a claim always starts the dispatch over.
ClaimedAfresh(w, d) ==
    [row[d] EXCEPT !.status = "claimed", !.holder = w, !.lease = "live"]

Claimed(w, d) ==
    [row[d] EXCEPT !.status = IF @ \in {"queued", "failed", "partial_failed"} THEN "claimed" ELSE @,
                   !.holder = w,
                   !.lease = "live"]

\* claimCapabilityDispatch; the runner keeps the row it got back.
Claim(w) ==
    LET d == work[w].d
        c == Claimed(w, d)
    IN  /\ work[w].pc = "claim"
        /\ Ledger(w, DueRow(row[d]) /\ Current(d), d, c,
                  [work EXCEPT ![w] = [@ EXCEPT !.pc = "authorize", !.status = c.status, !.err = c.err, !.pid = c.pid]],
                  [work EXCEPT ![w] = Idle])
        /\ UNCHANGED <<op, recorded, binding, allowed, message>>

\* A dispatch found `submitting` was left there by a process that may have
\* sent it: it is marked, and from then on only polled.
NextStep(s) ==
    CASE s.status \in {"submitted", "polling"}                -> "poll"
      [] s.status = "submitting" /\ s.err = "reconcile"       -> "poll"
      [] s.status = "submitting"                              -> "reconcile"
      [] OTHER                                                -> "submit"

Authorize(w) ==
    /\ work[w].pc = "authorize"
    /\ IF Authorized(work[w].d) THEN Goto(w, NextStep(work[w])) ELSE Stop(w)
    /\ UNCHANGED <<op, row, recorded, binding, allowed, message, faults>>

\* The row says submitting before anything is sent.
StartSubmit(w) ==
    LET d == work[w].d
    IN  /\ work[w].pc = "submit"
        /\ Ledger(w, CanWrite(w, d, "submitting"), d, Transitioned(d, "submitting", FALSE, "null", ""),
                  [work EXCEPT ![w].pc = "payload"], [work EXCEPT ![w] = Idle])
        /\ UNCHANGED <<op, recorded, binding, allowed, message>>

\* ContactBatchDispatchPayload authorizes again; its error is not a provider
\* error and fails the dispatch for good.
Payload(w) ==
    /\ work[w].pc = "payload"
    /\ Goto(w, IF Authorized(work[w].d) THEN "send" ELSE "fail")
    /\ UNCHANGED <<op, row, recorded, binding, allowed, message, faults>>

Accept(d) == message' = [message EXCEPT ![d].calls = @ + 1, ![d].open = TRUE]
Refuse(d) == message' = [message EXCEPT ![d].calls = @ + 1]

\* Submit.  WeCom takes the message or not, and the process learns its id,
\* learns nothing (no id, timeout, 429, 5xx: reconcile), or gets an error classified as
\* final: 401, 403, an errcode, or any transport error not named a timeout.
Send(w) ==
    LET d == work[w].d
    IN  /\ work[w].pc = "send"
        /\ \/ /\ Accept(d)
              /\ work' = [work EXCEPT ![w].pc = "record", ![w].pid = TRUE]
              /\ UNCHANGED faults
           \/ /\ faults < MaxFaults
              /\ faults' = faults + 1
              /\ Accept(d) \/ Refuse(d)
              /\ \E pc \in {"reconcile", "fail"} : Goto(w, pc)
        /\ UNCHANGED <<op, row, recorded, binding, allowed>>

Record(w) ==
    LET d == work[w].d
    IN  /\ work[w].pc = "record"
        /\ Ledger(w, CanWrite(w, d, "submitted"), d, Transitioned(d, "submitted", TRUE, "null", ""),
                  [work EXCEPT ![w] = Idle], [work EXCEPT ![w].pc = "reconcile"])
        /\ UNCHANGED <<op, recorded, binding, allowed, message>>

\* persistReconcile, with the message id when the process has one.
Reconcile(w) ==
    LET d == work[w].d
    IN  /\ work[w].pc = "reconcile"
        /\ Ledger(w, CanReconcile(w, d), d, ReconcileRow(d, work[w].pid),
                  [work EXCEPT ![w] = Idle], [work EXCEPT ![w] = Idle])
        /\ UNCHANGED <<op, recorded, binding, allowed, message>>

\* handleProviderError without retry, and failContract.
Fail(w) ==
    LET d == work[w].d
    IN  /\ work[w].pc = "fail"
        /\ Ledger(w, CanWrite(w, d, "failed"), d, Transitioned(d, "failed", FALSE, "null", "final"),
                  [work EXCEPT ![w] = Idle], [work EXCEPT ![w] = Idle])
        /\ UNCHANGED <<op, recorded, binding, allowed, message>>

\* Faulty variant (Successes): a failed recipient on the list is let through.
SuccessesListed(m) == IF m.done THEN m.listed ELSE {}

\* The results the runner records: those of the poller's answer, when the task
\* is over and none of them failed.  One failure makes the answer a failed one,
\* to which the poller gives no error code, so that the runner calls
\* failContract.  The list is compared neither with the recipients of the chunk
\* nor with the fail_list of the submission.
Successes(m) == IF m.done /\ m.listed \subseteq m.delivered THEN m.listed ELSE {}

\* Nothing is final while the task is pending or nobody is listed.
Polled(s, m) ==
    IF ~m.done \/ m.listed = {} THEN "wait"
    ELSE IF Successes(m) = {} THEN "fail"
    ELSE IF s.status = "polling" THEN "results" ELSE "topolling"

\* Poll.  Without a message id the poller gives up for good.
Poll(w) ==
    LET d == work[w].d
        m == message[d]
    IN  /\ work[w].pc = "poll"
        /\ \/ /\ ~work[w].pid
              /\ Goto(w, "fail")
              /\ UNCHANGED <<message, faults>>
           \/ /\ work[w].pid
              /\ work' = [work EXCEPT ![w].pc = Polled(work[w], m), ![w].left = Successes(m)]
              /\ message' = [message EXCEPT ![d].told = IF LeaseHeld(w, d) THEN Successes(m) ELSE @]
              /\ UNCHANGED faults
           \/ /\ work[w].pid
              /\ faults < MaxFaults
              /\ faults' = faults + 1
              /\ \E pc \in {"retry", "fail"} : Goto(w, pc)
              /\ UNCHANGED message
        /\ UNCHANGED <<op, row, recorded, binding, allowed>>

\* Not finished yet: poll again later.
Wait(w) ==
    LET d == work[w].d
    IN  /\ work[w].pc = "wait"
        /\ Ledger(w, CanWrite(w, d, "polling"), d, Transitioned(d, "polling", TRUE, "later", ""),
                  [work EXCEPT ![w] = Idle], [work EXCEPT ![w].pc = "reconcile"])
        /\ UNCHANGED <<op, recorded, binding, allowed, message>>

\* 429, 5xx or timeout of a poll.
Retry(w) ==
    LET d == work[w].d
        to == IF work[w].status \in {"submitted", "polling"} THEN "polling" ELSE "failed"
    IN  /\ work[w].pc = "retry"
        /\ Ledger(w, CanWrite(w, d, to), d, Transitioned(d, to, FALSE, "later", "retry"),
                  [work EXCEPT ![w] = Idle], [work EXCEPT ![w] = Idle])
        /\ UNCHANGED <<op, recorded, binding, allowed, message>>

ToPolling(w) ==
    LET d == work[w].d
    IN  /\ work[w].pc = "topolling"
        /\ Ledger(w, CanWrite(w, d, "polling"), d, Transitioned(d, "polling", TRUE, "null", ""),
                  [work EXCEPT ![w].pc = "results"], [work EXCEPT ![w].pc = "reconcile"])
        /\ UNCHANGED <<op, recorded, binding, allowed, message>>

\* RecordCapabilityDispatchResult, one transaction per recipient; a result
\* that is already there is left as it is.
RecordResult(w, t) ==
    LET d == work[w].d
    IN  /\ work[w].pc = "results"
        /\ t \in work[w].left
        /\ IF LeaseHeld(w, d) /\ row[d].status = "polling" /\ Current(d)
           THEN /\ recorded' = [recorded EXCEPT ![d] = @ \cup {t}]
                /\ work' = [work EXCEPT ![w].left = @ \ {t}]
           ELSE Goto(w, "reconcile") /\ UNCHANGED recorded
        /\ UNCHANGED <<op, row, binding, allowed, message, faults>>

Finish(w) ==
    LET d == work[w].d
    IN  /\ work[w].pc = "results"
        /\ work[w].left = {}
        /\ Ledger(w, CanWrite(w, d, "succeeded"), d, Transitioned(d, "succeeded", TRUE, "null", ""),
                  [work EXCEPT ![w] = Idle], [work EXCEPT ![w].pc = "reconcile"])
        /\ UNCHANGED <<op, recorded, binding, allowed, message>>

Run(w) ==
    \/ Preclaim(w) \/ Claim(w) \/ Authorize(w) \/ StartSubmit(w) \/ Payload(w) \/ Send(w)
    \/ Record(w) \/ Reconcile(w) \/ Fail(w) \/ Poll(w) \/ Wait(w) \/ Retry(w) \/ ToPolling(w)
    \/ \E t \in Targets : RecordResult(w, t)
    \/ Finish(w)

-----------------------------------------------------------------------------
(* The surroundings.                                                       *)

Crash(w) ==
    /\ work[w].pc # "idle"
    /\ faults < MaxFaults
    /\ faults' = faults + 1
    /\ Stop(w)
    /\ UNCHANGED <<op, row, recorded, binding, allowed, message>>

Running(d) == \E w \in Workers : row[d].holder = w /\ work[w].pc # "idle" /\ work[w].d = d

\* The lease of a run that ended runs out; that it runs out during the run is
\* a fault (the lease is minutes long).
LeaseRunsOut(d) ==
    /\ row[d].lease = "live"
    /\ ~Running(d)
    /\ row' = [row EXCEPT ![d].lease = "expired"]
    /\ UNCHANGED <<op, recorded, binding, allowed, work, message, faults>>

RunOutlivesLease(d) ==
    /\ row[d].lease = "live"
    /\ Running(d)
    /\ faults < MaxFaults
    /\ faults' = faults + 1
    /\ row' = [row EXCEPT ![d].lease = "expired"]
    /\ UNCHANGED <<op, recorded, binding, allowed, work, message>>

NextPollComes(d) ==
    /\ row[d].next = "later"
    /\ row' = [row EXCEPT ![d].next = "due"]
    /\ UNCHANGED <<op, recorded, binding, allowed, work, message, faults>>

\* The employee's task for an accepted message ends: some recipients have got
\* it, and some, not always the same and perhaps none, are in the result list.
Deliver(d) ==
    /\ message[d].open
    /\ ~message[d].done
    /\ \E S, L \in SUBSET Targets :
          message' = [message EXCEPT ![d].done = TRUE, ![d].delivered = S, ![d].listed = L]
    /\ UNCHANGED <<op, row, recorded, binding, allowed, work, faults>>

DeliverLate(d) ==
    /\ message[d].done
    /\ \E t \in Targets \ message[d].delivered :
          message' = [message EXCEPT ![d].delivered = @ \cup {t}]
    /\ UNCHANGED <<op, row, recorded, binding, allowed, work, faults>>

\* The result list lags behind the task.
ListMore(d) ==
    /\ message[d].done
    /\ \E t \in Targets \ message[d].listed :
          message' = [message EXCEPT ![d].listed = @ \cup {t}]
    /\ UNCHANGED <<op, row, recorded, binding, allowed, work, faults>>

ListFirst(d) == message[d].listed = {} /\ ListMore(d)

RotateCredential ==
    /\ binding < MaxGeneration
    /\ binding' = binding + 1
    /\ UNCHANGED <<op, row, recorded, allowed, work, message, faults>>

\* The tenant is suspended, a right is withdrawn, a customer changes hands.
Withdraw ==
    /\ allowed
    /\ faults < MaxFaults
    /\ faults' = faults + 1
    /\ allowed' = FALSE
    /\ UNCHANGED <<op, row, recorded, binding, work, message>>

Restore ==
    /\ ~allowed
    /\ allowed' = TRUE
    /\ UNCHANGED <<op, row, recorded, binding, work, message, faults>>

Next ==
    \/ \E o \in Operations : Create(o) \/ Cancel(o)
    \/ \E w \in Workers : Run(w) \/ Crash(w) \/ \E d \in Dispatches : Pick(w, d)
    \/ \E d \in Dispatches : LeaseRunsOut(d) \/ RunOutlivesLease(d) \/ NextPollComes(d)
                           \/ Deliver(d) \/ DeliverLate(d) \/ ListMore(d)
    \/ RotateCredential \/ Withdraw \/ Restore

Spec == Init /\ [][Next]_vars

\* A started run goes on, time passes, WeCom gets through a message and lists
\* somebody, and the passes of the crons, which go through their whole page,
\* keep coming.
Fairness ==
    /\ \A w \in Workers : WF_vars(Run(w))
    /\ \A d \in Dispatches : SF_vars(\E w \in Workers : Pick(w, d))
    /\ \A d \in Dispatches : WF_vars(LeaseRunsOut(d)) /\ WF_vars(NextPollComes(d))
    /\ \A d \in Dispatches : WF_vars(Deliver(d) \/ ListFirst(d))

FairSpec == Spec /\ Fairness

-----------------------------------------------------------------------------
(* Properties.                                                             *)

\* The state has its types; an operation carries the generation it was made under.
BatchTypeOK ==
    /\ op \in [Operations -> [status : {"absent", "pending", "cancelled"}, gen : 0 .. MaxGeneration]]
    /\ \A o \in Operations : op[o].status # "absent" => op[o].gen > 0
    /\ row \in [Dispatches -> [status : Statuses, holder : Workers \cup {NoWorker},
                               lease : {"none", "live", "expired"}, next : {"null", "due", "later"},
                               err : Codes, pid : BOOLEAN]]
    /\ recorded \in [Dispatches -> SUBSET Targets]
    /\ binding \in 1 .. MaxGeneration
    /\ allowed \in BOOLEAN
    /\ \A w \in Workers : work[w].d \in Dispatches /\ work[w].left \subseteq Targets
    /\ \A d \in Dispatches : message[d].told \subseteq message[d].listed /\ message[d].listed \subseteq Targets
    /\ faults \in 0 .. MaxFaults

\* A chunk is handed to WeCom at most once in its life, whatever dies, times
\* out or loses its lease: recipients get a group message once.
SubmittedOnce == \A d \in Dispatches : message[d].calls <= 1

\* A batch its owner cancelled was not sent, not even in part: the
\* cancellation and the claims exclude each other.
CancelledWasNotSent ==
    \A o \in Operations : op[o].status = "cancelled" =>
        \A d \in ChunksOf(o) : message[d].calls = 0 /\ row[d].status = "cancelled"

\* A batch is shown as succeeded only over chunks that WeCom has finished and
\* answered for: somebody is listed, whoever was listed when the holder of the
\* lease last asked has a result row, and whoever has one got the message.  Of
\* recipients WeCom never listed it says nothing.
ReportedSuccessIsTrue ==
    \A o \in Operations : Projection(o) = "succeeded" =>
        \A d \in ChunksOf(o) :
            /\ message[d].done
            /\ recorded[d] # {}
            /\ message[d].told \subseteq recorded[d]
            /\ recorded[d] \subseteq message[d].listed \cap message[d].delivered

\* When the rights and the credential stay as they are from some time on,
\* every chunk ends.
DispatchSettles ==
    \A d \in Dispatches :
        <>[](allowed /\ op[OperationOf[d]].gen = binding)
            => (row[d].status # "absent" ~> row[d].status \in Terminal)

-----------------------------------------------------------------------------
(* What the ledger promises about a chunk, as OneDelivery states it.       *)

Verdict(status) ==
    CASE status = "succeeded"                    -> "sent"
      [] status = "cancelled"                    -> "cancelled"
      [] status \in {"failed", "partial_failed"} -> "failed"
      [] OTHER                                   -> "open"

Delivery == INSTANCE OneDelivery WITH
    Messages <- Dispatches,
    handed   <- [d \in Dispatches |-> message[d].calls],
    verdict  <- [d \in Dispatches |-> Verdict(row[d].status)]

\* A chunk is handed to WeCom at most once in its life, whatever dies, times
\* out or loses its lease; the state its row ends in is final, succeeded only
\* after it was handed over and cancelled only while it never will be.
ImplementsDelivery == Delivery!DeliverySpec
=============================================================================
