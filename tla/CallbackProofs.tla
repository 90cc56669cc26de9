----------------------------- MODULE CallbackProofs ----------------------------
(***************************************************************************)
(* Proofs about the durable callback inbox, for every set of events and    *)
(* workers and every value of its limits, and on top of them about the     *)
(* side effects of the contact event, for all actions and operators.       *)
(***************************************************************************)
EXTENDS CallbackSideEffects, FiniteSetTheorems, TLAPS

--------------------------------------------------------------------------------
(* Helpers *)

\* The placeholder claim of an idle worker is well typed.
LEMMA NoClaimType == NoClaim \in WorkerState
  BY InboxConstants DEF NoClaim, WorkerState, Outcomes

\* The backoff of DeferWeWorkCallbackDependency is a delay, whatever the count.
LEMMA DeferDelayType == \A n \in Nat : DeferDelay(n) \in Nat
  BY InboxConstants DEF DeferDelay

\* Giving up a lease keeps everything but status, token and the two deadlines.
LEMMA ReleasedRow ==
  ASSUME NEW r \in Row, NEW s \in RowStatus, NEW n \in Nat
  PROVE  /\ Released(r, s, n) \in Row
         /\ Released(r, s, n).status = s
         /\ Released(r, s, n).attempt = r.attempt
         /\ Released(r, s, n).fence = r.fence
         /\ Released(r, s, n).fp = r.fp
         /\ Released(r, s, n).defers = r.defers
         /\ Released(r, s, n).revived = r.revived
<1>1. Released(r, s, n) \in Row
  BY Zenon DEF Released, Row
<1> QED
  BY <1>1 DEF Released, Row

\* What a claim, a deferral and an operator's replay make of a row.
LEMMA LeasedRow ==
  ASSUME NEW r \in Row
  PROVE  /\ Leased(r) \in Row
         /\ Leased(r).status = "processing"
         /\ Leased(r).attempt = r.attempt + 1
         /\ Leased(r).fence = r.fence + 1
         /\ Leased(r).token = r.fence + 1
         /\ Leased(r).fp = r.fp
         /\ Leased(r).defers = r.defers
         /\ Leased(r).revived = r.revived
<1>1. "processing" \in RowStatus
  BY DEF RowStatus
<1>2. /\ LeaseDuration \in Nat /\ r.attempt + 1 \in Nat
      /\ r.fence + 1 \in Nat /\ 0 \in Nat
  BY InboxConstants DEF LeaseDuration, Row
<1>3. Leased(r) \in Row
  BY <1>1, <1>2, Zenon DEF Leased, Row
<1> QED
  BY <1>3 DEF Leased, Row

LEMMA DeferredRow ==
  ASSUME NEW r \in Row, NEW n \in Nat
  PROVE  /\ Deferred(r, n) \in Row
         /\ Deferred(r, n).status = "pending"
         /\ Deferred(r, n).attempt = IF r.attempt > 0 THEN r.attempt - 1 ELSE 0
         /\ Deferred(r, n).fence = r.fence
         /\ Deferred(r, n).fp = r.fp
         /\ Deferred(r, n).defers = r.defers + 1
         /\ Deferred(r, n).revived = r.revived
<1>1. "pending" \in RowStatus
  BY DEF RowStatus
<1>2. /\ (IF r.attempt > 0 THEN r.attempt - 1 ELSE 0) \in Nat
      /\ r.defers + 1 \in Nat /\ 0 \in Nat
  BY DEF Row
<1>3. Deferred(r, n) \in Row
  BY <1>1, <1>2, Zenon DEF Deferred, Row
<1> QED
  BY <1>3 DEF Deferred, Row

LEMMA RevivedRow ==
  ASSUME NEW r \in Row
  PROVE  /\ Revived(r) \in Row
         /\ Revived(r).status = "pending"
         /\ Revived(r).attempt = 0
         /\ Revived(r).fence = r.fence + 1
         /\ Revived(r).fp = r.fp
         /\ Revived(r).defers = r.defers
         /\ Revived(r).revived = r.revived + 1
<1>1. "pending" \in RowStatus
  BY DEF RowStatus
<1>2. r.fence + 1 \in Nat /\ r.revived + 1 \in Nat /\ 0 \in Nat
  BY DEF Row
<1>3. Revived(r) \in Row
  BY <1>1, <1>2, Zenon DEF Revived, Row
<1> QED
  BY <1>3 DEF Revived, Row

LEMMA DecType == \A n \in Nat : Dec(n) \in Nat
  BY DEF Dec

\* The clock moves nothing but the deadlines.
LEMMA ElapseIs ==
  ASSUME InboxTypeOK, Elapse
  PROVE  /\ InboxTypeOK' /\ UNCHANGED <<nextId, acked, okFence>>
         /\ \A e \in Events : /\ row'[e].status = row[e].status /\ row'[e].fence = row[e].fence
                              /\ row'[e].attempt = row[e].attempt /\ row'[e].fp = row[e].fp
                              /\ row'[e].defers = row[e].defers /\ row'[e].revived = row[e].revived
         /\ \A w \in Workers : /\ worker'[w].pc = worker[w].pc /\ worker'[w].event = worker[w].event
                               /\ worker'[w].fence = worker[w].fence
                               /\ worker'[w].attempt = worker[w].attempt
<1>1. /\ row' = [e \in Events |-> [row[e] EXCEPT !.lease = Dec(@), !.wait = Dec(@)]]
      /\ worker' = [w \in Workers |-> [worker[w] EXCEPT !.ctx = Dec(@)]]
      /\ UNCHANGED <<nextId, acked, okFence>>
  BY Zenon DEF Elapse
<1>2. ASSUME NEW e \in Events
      PROVE  /\ row'[e] \in Row
             /\ row'[e].status = row[e].status /\ row'[e].fence = row[e].fence
             /\ row'[e].attempt = row[e].attempt /\ row'[e].fp = row[e].fp
             /\ row'[e].defers = row[e].defers /\ row'[e].revived = row[e].revived
  <2>1. PICK r \in Row : r = row[e]
    BY DEF InboxTypeOK
  <2>2. Dec(r.lease) \in Nat /\ Dec(r.wait) \in Nat
    BY <2>1, DecType DEF Row
  <2>3. PICK l \in Nat, t \in Nat : l = Dec(r.lease) /\ t = Dec(r.wait)
    BY <2>2
  <2>4. row'[e] = [row[e] EXCEPT !.lease = Dec(row[e].lease), !.wait = Dec(row[e].wait)]
    BY <1>1, Zenon
  <2>5. row'[e] = [r EXCEPT !.lease = l, !.wait = t]
    BY <2>1, <2>3, <2>4, Zenon
  <2>6. PICK s : s = [r EXCEPT !.lease = l, !.wait = t]
    OBVIOUS
  <2>7. s \in Row
    BY <2>6 DEF Row
  <2>8. /\ s.status = r.status /\ s.fence = r.fence /\ s.attempt = r.attempt /\ s.fp = r.fp
        /\ s.defers = r.defers /\ s.revived = r.revived
    BY <2>6 DEF Row
  <2> QED
    BY <2>1, <2>5, <2>6, <2>7, <2>8, Zenon
<1>3. ASSUME NEW w \in Workers
      PROVE  /\ worker'[w] \in WorkerState
             /\ worker'[w].pc = worker[w].pc /\ worker'[w].event = worker[w].event
             /\ worker'[w].fence = worker[w].fence /\ worker'[w].attempt = worker[w].attempt
  <2>1. PICK k \in WorkerState : k = worker[w]
    BY DEF InboxTypeOK
  <2>2. Dec(k.ctx) \in Nat
    BY <2>1, DecType DEF WorkerState
  <2>3. worker'[w] = [k EXCEPT !.ctx = Dec(k.ctx)]
    BY <1>1, <2>1, Zenon
  <2>4. PICK c \in Nat : c = Dec(k.ctx)
    BY <2>2
  <2>5. PICK s : s = [k EXCEPT !.ctx = c]
    OBVIOUS
  <2>6. s \in WorkerState
    BY <2>5 DEF WorkerState
  <2>7. s.pc = k.pc /\ s.event = k.event /\ s.fence = k.fence /\ s.attempt = k.attempt
    BY <2>5 DEF WorkerState
  <2> QED
    BY <2>1, <2>3, <2>4, <2>5, <2>6, <2>7, Zenon
<1>4. row' \in [Events -> Row] /\ worker' \in [Workers -> WorkerState]
  BY <1>1, <1>2, <1>3, Zenon
<1>5. InboxTypeOK'
  BY <1>1, <1>4, Zenon DEF InboxTypeOK
<1> QED
  BY <1>1, <1>2, <1>3, <1>5, Zenon

\* The sweep of ClaimWeWorkCallback writes well-typed rows.
LEMMA SweptType == InboxTypeOK => Swept \in [Events -> Row]
<1> SUFFICES ASSUME InboxTypeOK, NEW e \in Events
             PROVE  Released(row[e], "dead", 0) \in Row /\ row[e] \in Row
  BY DEF Swept
<1> QED
  BY ReleasedRow DEF InboxTypeOK, RowStatus, Verdicts

--------------------------------------------------------------------------------
(* Type correctness *)

LEMMA InboxTypeInit == InboxInit => InboxTypeOK
  BY NoClaimType DEF InboxInit, InboxTypeOK, Row, RowStatus, Verdicts

LEMMA InboxTypeNext == InboxTypeOK /\ [InboxNext]_inboxVars => InboxTypeOK'
<1> SUFFICES ASSUME InboxTypeOK, [InboxNext]_inboxVars PROVE InboxTypeOK'
  OBVIOUS
<1> USE DEF InboxTypeOK
<1>1. ASSUME NEW e \in Events, NEW f \in Fingerprints, Deliver(e, f)
      PROVE  InboxTypeOK'
  BY <1>1 DEF Deliver, Accept, Row, RowStatus
<1>2. ASSUME NEW w \in Workers, Claim(w) PROVE InboxTypeOK'
  <2>1. CASE row' = Swept /\ UNCHANGED worker
    BY <1>2, <2>1, SweptType DEF Claim
  <2>2. ASSUME NEW e \in Claimable,
               row' = [Swept EXCEPT ![e] = Leased(row[e])],
               worker' = [worker EXCEPT ![w] = ClaimOf(e, Leased(row[e]))]
        PROVE  InboxTypeOK'
    <3>1. Leased(row[e]) \in Row /\ e \in Events
      BY LeasedRow DEF Claimable
    <3>2. ClaimOf(e, Leased(row[e])) \in WorkerState
      BY <3>1 DEF ClaimOf, Row, WorkerState
    <3> QED
      BY <1>2, <2>2, <3>1, <3>2, SweptType DEF Claim
  <2> QED
    BY <1>2, <2>1, <2>2 DEF Claim
<1>3. ASSUME NEW w \in Workers, Validate(w) PROVE InboxTypeOK'
  <2>1. PICK x \in WorkerState :
          x = [worker[w] EXCEPT !.pc = "processing", !.ctx = ProcessingTimeout]
    BY InboxConstants DEF WorkerState
  <2>2. worker' = [worker EXCEPT ![w] = x] \/ worker' = [worker EXCEPT ![w] = NoClaim]
    BY <1>3, <2>1 DEF Validate, Idle
  <2>3. worker' \in [Workers -> WorkerState]
    BY <2>2, NoClaimType
  <2> QED
    BY <1>3, <2>3 DEF Validate
<1>4. ASSUME NEW w \in Workers, NEW outcome \in Outcomes, ProcessReturns(w, outcome)
      PROVE  InboxTypeOK'
  <2>1. PICK x \in WorkerState : x = [worker[w] EXCEPT !.pc = outcome, !.ctx = 0]
    BY DEF WorkerState
  <2>2. worker' = [worker EXCEPT ![w] = x]
    BY <1>4, <2>1 DEF ProcessReturns
  <2>3. worker[w].event \in Events /\ worker[w].fence \in Nat
    BY DEF WorkerState
  <2> QED
    BY <1>4, <2>2, <2>3 DEF ProcessReturns
<1>5. ASSUME NEW w \in Workers, Complete(w) PROVE InboxTypeOK'
  BY <1>5, NoClaimType, ReleasedRow
  DEF Complete, Idle, WorkerState, RowStatus, Verdicts
<1>6. ASSUME NEW w \in Workers, Fail(w) PROVE InboxTypeOK'
  BY <1>6, NoClaimType, ReleasedRow, InboxConstants
  DEF Fail, Idle, WorkerState, RowStatus, Verdicts
<1>7. ASSUME NEW w \in Workers, Defer(w) PROVE InboxTypeOK'
  <2>1. row[worker[w].event] \in Row /\ DeferDelay(worker[w].defers) \in Nat
    BY DeferDelayType DEF WorkerState
  <2>2. Deferred(row[worker[w].event], DeferDelay(worker[w].defers)) \in Row
    BY <2>1, DeferredRow
  <2> QED
    BY <1>7, <2>2, NoClaimType DEF Defer, Idle
<1>8. ASSUME NEW w \in Workers, Crash(w) PROVE InboxTypeOK'
  BY <1>8, NoClaimType DEF Crash, Idle
<1>9. ASSUME NEW e \in Events, Revive(e) PROVE InboxTypeOK'
  <2>1. Revived(row[e]) \in Row
    BY RevivedRow
  <2> QED
    BY <1>9, <2>1 DEF Revive
<1>10. ASSUME Elapse PROVE InboxTypeOK'
  BY <1>10, ElapseIs
<1>11. CASE UNCHANGED inboxVars
  BY <1>11 DEF inboxVars
<1> QED
  BY <1>1, <1>2, <1>3, <1>4, <1>5, <1>6, <1>7, <1>8, <1>9, <1>10, <1>11
  DEF InboxNext, WorkerStep, Tick

\* Type correctness: the inbox table and the workers' claims only ever hold the
\* values the columns and the claim structure admit.
THEOREM InboxTypeCorrect == InboxSpec => []InboxTypeOK
  BY InboxTypeInit, InboxTypeNext, PTL DEF InboxSpec

--------------------------------------------------------------------------------
(* The inductive invariant behind the safety properties *)

Active(w) == worker[w].pc # "idle"

\* No worker holds a fence the row has not reached yet.
ClaimsAreOld ==
    \A w \in Workers : Active(w) => worker[w].fence <= row[worker[w].event].fence

\* No two workers hold the same fence of an event.
FencesDiffer ==
    \A v, w \in Workers :
        v # w /\ Active(v) /\ Active(w) /\ worker[v].event = worker[w].event
            => worker[v].fence # worker[w].fence

\* The owner of the latest fence knows the row's attempt number.
AttemptsAgree ==
    \A w \in Workers :
        LET r == row[worker[w].event] IN
        Active(w) /\ r.status = "processing" /\ r.fence = worker[w].fence
            => r.attempt = worker[w].attempt

\* A success was reached under a fence the row has had, and is remembered until
\* the worker that reached it is idle again.
SuccessesAreOld == \A e \in Events : okFence[e] <= row[e].fence

SuccessIsKept ==
    \A w \in Workers :
        worker[w].pc = "ok" => worker[w].fence <= okFence[worker[w].event]

InboxInv ==
    /\ ClaimsAreOld
    /\ FencesDiffer
    /\ AttemptsAgree
    /\ SuccessesAreOld
    /\ SuccessIsKept
    /\ CompletedByLastOwner
    /\ RetryBudget
    /\ AckedIsStored

LEMMA InboxInvInit == InboxInit => InboxInv
<1> SUFFICES ASSUME InboxInit PROVE InboxInv
  OBVIOUS
<1>1. \A w \in Workers : worker[w].pc = "idle"
  BY DEF InboxInit, NoClaim
<1>2. \A e \in Events : /\ row[e].status = "absent" /\ row[e].attempt = 0
                        /\ row[e].fence = 0 /\ row[e].defers = 0
                        /\ row[e].revived = 0
  <2>1. PICK f \in Fingerprints :
          row = [e \in Events |->
                  [status |-> "absent", id |-> 0, fp |-> f, attempt |-> 0,
                   defers |-> 0, fence |-> 0, token |-> 0, lease |-> 0,
                   wait |-> 0, revived |-> 0]]
    BY DEF InboxInit
  <2>2. ASSUME NEW e \in Events
        PROVE  /\ row[e].status = "absent" /\ row[e].attempt = 0
               /\ row[e].fence = 0 /\ row[e].defers = 0
               /\ row[e].revived = 0
    <3>1. row[e] = [status |-> "absent", id |-> 0, fp |-> f, attempt |-> 0,
                    defers |-> 0, fence |-> 0, token |-> 0, lease |-> 0,
                    wait |-> 0, revived |-> 0]
      BY <2>1, Zenon
    <3> QED
      BY <3>1
  <2> QED
    BY <2>2, Zenon
<1>3. RetryBudget
  <2>1. 0 * (MaxAttempts + 1) = 0 /\ 0 <= MaxAttempts
    BY InboxConstants
  <2> SUFFICES ASSUME NEW e \in Events
               PROVE  /\ row[e].attempt <= MaxAttempts
                      /\ row[e].fence <= row[e].attempt + row[e].defers
                                            + row[e].revived * (MaxAttempts + 1)
                      /\ row[e].status # "dead"
    BY Zenon DEF RetryBudget
  <2>2. row[e].revived * (MaxAttempts + 1) = 0
    BY <1>2, <2>1
  <2> QED
    BY <1>2, <2>1, <2>2
<1>4. ClaimsAreOld /\ FencesDiffer /\ AttemptsAgree /\ SuccessIsKept
  <2>1. \A w \in Workers : ~Active(w) /\ worker[w].pc # "ok"
    BY <1>1 DEF Active
  <2> QED
    BY <2>1 DEF ClaimsAreOld, FencesDiffer, AttemptsAgree, SuccessIsKept
<1>5. SuccessesAreOld /\ CompletedByLastOwner /\ AckedIsStored
  BY <1>2 DEF InboxInit, SuccessesAreOld, CompletedByLastOwner, AckedIsStored
<1> QED
  BY <1>3, <1>4, <1>5 DEF InboxInv

\* A row within its retry budget.
Budgeted(r) ==
    /\ r.attempt <= MaxAttempts
    /\ r.fence <= r.attempt + r.defers + r.revived * (MaxAttempts + 1)
    /\ r.status = "dead" => r.attempt = MaxAttempts

\* What every step but a successful claim does to a row: the fence does not go
\* back, nothing enters processing, and the stored payload stays.
RowMove(r, s) ==
    /\ s.fence >= r.fence
    /\ s.status = "processing" /\ s.fence = r.fence
          => r.status = "processing" /\ s.attempt = r.attempt
    /\ s.status = "completed" /\ r.status = "completed" => s.fence = r.fence
    /\ r.status # "absent" => s.status # "absent" /\ s.fp = r.fp
    /\ Budgeted(s)

\* What those steps do to a worker: it keeps its claim or becomes idle.
WorkerMove(x, y) ==
    \/ y.pc = "idle"
    \/ /\ x.pc # "idle"
       /\ y.event = x.event /\ y.fence = x.fence /\ y.attempt = x.attempt
       /\ y.pc = "ok" => x.pc = "ok"

LEMMA FrameStep ==
  ASSUME InboxTypeOK, InboxTypeOK', InboxInv,
         UNCHANGED okFence,
         \A w \in Workers : WorkerMove(worker[w], worker'[w]),
         \A e \in Events : RowMove(row[e], row'[e]),
         \A e \in Events : row'[e].status = "completed"
                              => row[e].status = "completed" \/ okFence[e] = row'[e].fence,
         \A p \in acked' : \/ p \in acked
                           \/ row'[p[1]].status # "absent" /\ row'[p[1]].fp = p[2]
  PROVE  InboxInv'
<1>0. /\ \A e \in Events : /\ row[e].fence \in Nat /\ row'[e].fence \in Nat
                           /\ okFence[e] \in Nat
      /\ \A w \in Workers : /\ worker[w].fence \in Nat /\ worker[w].event \in Events
                            /\ worker'[w].fence \in Nat /\ worker'[w].event \in Events
  BY DEF InboxTypeOK, Row, WorkerState
<1>1. ClaimsAreOld'
  BY <1>0 DEF InboxInv, ClaimsAreOld, Active, WorkerMove, RowMove
<1>2. FencesDiffer'
  BY <1>0 DEF InboxInv, FencesDiffer, Active, WorkerMove
<1>3. AttemptsAgree'
  <2> SUFFICES ASSUME NEW w \in Workers, Active(w)',
                      row'[worker'[w].event].status = "processing",
                      row'[worker'[w].event].fence = worker'[w].fence
               PROVE  row'[worker'[w].event].attempt = worker'[w].attempt
    BY DEF AttemptsAgree
  <2>1. /\ Active(w) /\ worker'[w].event = worker[w].event
        /\ worker'[w].fence = worker[w].fence /\ worker'[w].attempt = worker[w].attempt
    BY DEF Active, WorkerMove
  <2>2. /\ worker[w].fence <= row[worker[w].event].fence
        /\ row[worker[w].event].fence <= row'[worker[w].event].fence
    BY <1>0, <2>1 DEF InboxInv, ClaimsAreOld, RowMove
  <2>3. row'[worker[w].event].fence = row[worker[w].event].fence
    BY <1>0, <2>1, <2>2
  <2>4. /\ row[worker[w].event].status = "processing"
        /\ row'[worker[w].event].attempt = row[worker[w].event].attempt
    BY <1>0, <2>1, <2>3 DEF RowMove
  <2> QED
    BY <2>1, <2>3, <2>4 DEF InboxInv, AttemptsAgree
<1>4. SuccessesAreOld'
  BY <1>0 DEF InboxInv, SuccessesAreOld, RowMove
<1>5. SuccessIsKept'
  BY <1>0 DEF InboxInv, SuccessIsKept, WorkerMove
<1>6. CompletedByLastOwner'
  BY <1>0 DEF InboxInv, CompletedByLastOwner, RowMove
<1>7. RetryBudget'
  BY DEF RetryBudget, RowMove, Budgeted
<1>8. AckedIsStored'
  <2> SUFFICES ASSUME NEW p \in acked'
               PROVE  row'[p[1]].status # "absent" /\ row'[p[1]].fp = p[2]
    BY DEF AckedIsStored
  <2>1. CASE p \in acked
    <3>1. p[1] \in Events
      BY <2>1 DEF InboxTypeOK
    <3> QED
      BY <2>1, <3>1 DEF InboxInv, AckedIsStored, RowMove
  <2> QED
    BY <2>1
<1> QED
  BY <1>1, <1>2, <1>3, <1>4, <1>5, <1>6, <1>7, <1>8 DEF InboxInv

\* A row that no statement touches moves nowhere.
LEMMA RowStays ==
  ASSUME InboxTypeOK, InboxInv, NEW e \in Events
  PROVE  RowMove(row[e], row[e])
<1>1. row[e].fence \in Nat
  BY DEF InboxTypeOK, Row
<1>2. Budgeted(row[e])
  BY DEF InboxInv, RetryBudget, Budgeted
<1> QED
  BY <1>1, <1>2 DEF RowMove

\* The sweep dead-letters only rows whose attempts are used up.
LEMMA SweptMove ==
  ASSUME InboxTypeOK, InboxInv, NEW e \in Events
  PROVE  /\ RowMove(row[e], Swept[e])
         /\ Swept[e].fence = row[e].fence
         /\ Swept[e].status = "completed" => row[e].status = "completed"
<1>0. row[e] \in Row
  BY DEF InboxTypeOK
<1>1. CASE ~(Due(row[e]) /\ row[e].attempt >= MaxAttempts)
  BY <1>1, RowStays DEF Swept
<1>2. CASE Due(row[e]) /\ row[e].attempt >= MaxAttempts
  <2> DEFINE s == Released(row[e], "dead", 0)
  <2>1. Swept[e] = s
    BY <1>2 DEF Swept
  <2>2. /\ s.status = "dead" /\ s.attempt = row[e].attempt /\ s.fence = row[e].fence
        /\ s.fp = row[e].fp /\ s.defers = row[e].defers /\ s.revived = row[e].revived
    <3>1. "dead" \in RowStatus /\ 0 \in Nat
      BY DEF RowStatus, Verdicts
    <3> QED
      BY <1>0, <3>1, ReleasedRow
  <2>3. row[e].attempt = MaxAttempts
    <3>1. row[e].attempt <= MaxAttempts
      BY DEF InboxInv, RetryBudget
    <3>2. row[e].attempt \in Nat
      BY <1>0 DEF Row
    <3> QED
      BY <1>2, <3>1, <3>2, InboxConstants
  <2>4. Budgeted(s)
    BY <2>2, <2>3 DEF InboxInv, RetryBudget, Budgeted
  <2>5. row[e].fence \in Nat
    BY <1>0 DEF Row
  <2> HIDE DEF s
  <2>6. RowMove(row[e], s)
    BY <2>2, <2>4, <2>5 DEF RowMove
  <2> QED
    BY <2>1, <2>2, <2>6
<1> QED
  BY <1>1, <1>2

\* A worker that finishes its claim, or loses it, becomes idle.
LEMMA IdleMove ==
  ASSUME InboxTypeOK, NEW w \in Workers, worker' = Idle(w)
  PROVE  \A v \in Workers : WorkerMove(worker[v], worker'[v])
<1>1. NoClaim.pc = "idle"
  BY DEF NoClaim
<1>2. \A v \in Workers : worker'[v] = IF v = w THEN NoClaim ELSE worker[v]
  BY DEF InboxTypeOK, Idle
<1> QED
  BY <1>1, <1>2 DEF WorkerMove

\* A successful claim draws a fence that no worker of the event has seen.
LEMMA LeaseStep ==
  ASSUME InboxTypeOK, InboxTypeOK', InboxInv,
         NEW w \in Workers, NEW e \in Claimable,
         worker[w].pc = "idle",
         row' = [Swept EXCEPT ![e] = Leased(row[e])],
         worker' = [worker EXCEPT ![w] = ClaimOf(e, Leased(row[e]))],
         UNCHANGED <<acked, okFence>>
  PROVE  InboxInv'
<1>0. /\ e \in Events /\ row[e] \in Row /\ row[e].attempt < MaxAttempts
      /\ Swept \in [Events -> Row]
  BY SweptType DEF Claimable, InboxTypeOK
<1>1. /\ row'[e] = Leased(row[e])
      /\ \A d \in Events : d # e => row'[d] = Swept[d]
  BY <1>0
<1>2. /\ worker'[w] = ClaimOf(e, Leased(row[e]))
      /\ \A v \in Workers : v # w => worker'[v] = worker[v]
  BY DEF InboxTypeOK
<1>3. /\ row'[e].status = "processing" /\ row'[e].attempt = row[e].attempt + 1
      /\ row'[e].fence = row[e].fence + 1 /\ row'[e].fp = row[e].fp
      /\ row'[e].defers = row[e].defers /\ row'[e].revived = row[e].revived
  BY <1>0, <1>1, LeasedRow
<1>4. /\ worker'[w].pc = "claimed" /\ worker'[w].event = e
      /\ worker'[w].fence = row'[e].fence /\ worker'[w].attempt = row'[e].attempt
  BY <1>1, <1>2 DEF ClaimOf
<1>5. /\ \A d \in Events : /\ row[d].fence \in Nat /\ row'[d].fence \in Nat
                           /\ okFence[d] \in Nat
      /\ \A v \in Workers : worker[v].fence \in Nat /\ worker[v].event \in Events
  BY DEF InboxTypeOK, Row, WorkerState
<1>6. \A d \in Events : d # e => /\ RowMove(row[d], row'[d])
                                 /\ row'[d].fence = row[d].fence
                                 /\ row'[d].status = "completed"
                                       => row[d].status = "completed"
  BY <1>1, SweptMove
<1>7. \A v \in Workers : Active(v) => worker[v].fence <= row[worker[v].event].fence
  BY DEF InboxInv, ClaimsAreOld
<1>8. \A v \in Workers : v # w /\ Active(v) /\ worker[v].event = e
                            => worker[v].fence < row'[e].fence
  BY <1>0, <1>3, <1>5, <1>7
<1>9. ClaimsAreOld'
  <2> SUFFICES ASSUME NEW v \in Workers, Active(v)'
               PROVE  worker'[v].fence <= row'[worker'[v].event].fence
    BY DEF ClaimsAreOld
  <2>1. CASE v = w
    BY <1>0, <1>4, <1>5, <2>1
  <2>2. CASE v # w
    <3>1. Active(v) /\ worker'[v] = worker[v]
      BY <1>2, <2>2 DEF Active
    <3> QED
      BY <1>0, <1>3, <1>5, <1>6, <1>7, <3>1
  <2> QED
    BY <2>1, <2>2
<1>10. FencesDiffer'
  <2> SUFFICES ASSUME NEW u \in Workers, NEW v \in Workers, u # v,
                      Active(u)', Active(v)', worker'[u].event = worker'[v].event
               PROVE  worker'[u].fence # worker'[v].fence
    BY DEF FencesDiffer
  <2>0. row'[e].fence \in Nat
    BY <1>0, <1>5
  <2>1. CASE u = w
    <3>1. Active(v) /\ worker'[v] = worker[v] /\ worker[v].event = e
      BY <1>2, <1>4, <2>1 DEF Active
    <3>2. worker[v].fence < row'[e].fence /\ worker[v].fence \in Nat
      BY <1>5, <1>8, <2>1, <3>1
    <3> QED
      BY <1>4, <2>0, <2>1, <3>1, <3>2
  <2>2. CASE v = w
    <3>1. Active(u) /\ worker'[u] = worker[u] /\ worker[u].event = e
      BY <1>2, <1>4, <2>2 DEF Active
    <3>2. worker[u].fence < row'[e].fence /\ worker[u].fence \in Nat
      BY <1>5, <1>8, <2>2, <3>1
    <3> QED
      BY <1>4, <2>0, <2>2, <3>1, <3>2
  <2>3. CASE u # w /\ v # w
    BY <1>2, <2>3 DEF InboxInv, FencesDiffer, Active
  <2> QED
    BY <2>1, <2>2, <2>3
<1>11. AttemptsAgree'
  <2> SUFFICES ASSUME NEW v \in Workers, Active(v)',
                      row'[worker'[v].event].status = "processing",
                      row'[worker'[v].event].fence = worker'[v].fence
               PROVE  row'[worker'[v].event].attempt = worker'[v].attempt
    BY DEF AttemptsAgree
  <2>1. CASE v = w
    BY <1>4, <2>1
  <2>2. CASE v # w
    <3>1. Active(v) /\ worker'[v] = worker[v]
      BY <1>2, <2>2 DEF Active
    <3>2. worker[v].event # e
      <4>1. SUFFICES ASSUME worker[v].event = e PROVE FALSE
        OBVIOUS
      <4>2. worker[v].fence < row'[e].fence /\ worker[v].fence \in Nat
        BY <1>5, <1>8, <2>2, <3>1, <4>1
      <4> QED
        BY <1>0, <1>5, <3>1, <4>1, <4>2
    <3>3. /\ row[worker[v].event].status = "processing"
          /\ row'[worker[v].event].attempt = row[worker[v].event].attempt
          /\ row'[worker[v].event].fence = row[worker[v].event].fence
      BY <1>5, <1>6, <3>1, <3>2 DEF RowMove
    <3> QED
      BY <3>1, <3>3 DEF InboxInv, AttemptsAgree
  <2> QED
    BY <2>1, <2>2
<1>12. SuccessesAreOld'
  <2>1. \A d \in Events : row[d].fence <= row'[d].fence
    BY <1>0, <1>3, <1>5, <1>6
  <2> QED
    BY <1>5, <2>1 DEF InboxInv, SuccessesAreOld
<1>13. SuccessIsKept'
  BY <1>2, <1>4 DEF InboxInv, SuccessIsKept
<1>14. CompletedByLastOwner'
  BY <1>3, <1>6 DEF InboxInv, CompletedByLastOwner
<1>15. RetryBudget'
  <2>1. Budgeted(row'[e])
    <3> DEFINE k == row[e].revived * (MaxAttempts + 1)
    <3>1. /\ row[e].attempt \in Nat /\ row[e].defers \in Nat /\ row[e].fence \in Nat
          /\ row[e].revived \in Nat /\ MaxAttempts \in Nat
      BY <1>0, InboxConstants DEF Row
    <3>2. k \in Nat
      BY <3>1
    <3>3. row[e].fence <= row[e].attempt + row[e].defers + k
      BY <1>0 DEF InboxInv, RetryBudget
    <3>4. row'[e].revived * (MaxAttempts + 1) = k
      BY <1>3
    <3> HIDE DEF k
    <3>5. row'[e].fence <= row'[e].attempt + row'[e].defers + k
      BY <1>3, <3>1, <3>2, <3>3
    <3>6. row'[e].attempt <= MaxAttempts
      BY <1>0, <1>3, <3>1
    <3> QED
      BY <1>3, <3>4, <3>5, <3>6 DEF Budgeted
  <2>2. \A d \in Events : Budgeted(row'[d])
    BY <1>6, <2>1 DEF RowMove
  <2> QED
    BY <2>2 DEF RetryBudget, Budgeted
<1>16. AckedIsStored'
  <2> SUFFICES ASSUME NEW p \in acked
               PROVE  row'[p[1]].status # "absent" /\ row'[p[1]].fp = p[2]
    BY DEF AckedIsStored
  <2>1. p[1] \in Events /\ row[p[1]].status # "absent" /\ row[p[1]].fp = p[2]
    BY DEF InboxTypeOK, InboxInv, AckedIsStored
  <2> QED
    BY <1>3, <1>6, <2>1 DEF RowMove
<1> QED
  BY <1>9, <1>10, <1>11, <1>12, <1>13, <1>14, <1>15, <1>16 DEF InboxInv

\* A success is remembered under a fence the worker really holds; while the row
\* is completed nobody can raise it past the fence it was completed under.
LEMMA ReturnStep ==
  ASSUME InboxTypeOK, InboxTypeOK', InboxInv,
         NEW w \in Workers, NEW outcome \in Outcomes, ProcessReturns(w, outcome)
  PROVE  InboxInv'
<1> DEFINE e == worker[w].event
<1>0. /\ e \in Events /\ Active(w) /\ UNCHANGED <<row, acked>>
      /\ \A d \in Events : okFence[d] \in Nat /\ okFence'[d] \in Nat /\ row[d].fence \in Nat
      /\ \A v \in Workers : worker[v].fence \in Nat /\ worker[v].event \in Events
  BY DEF ProcessReturns, Active, InboxTypeOK, WorkerState, Row
<1>1. \A v \in Workers : /\ worker'[v].event = worker[v].event
                         /\ worker'[v].fence = worker[v].fence
                         /\ worker'[v].attempt = worker[v].attempt
                         /\ v # w => worker'[v].pc = worker[v].pc
  BY DEF ProcessReturns, InboxTypeOK, WorkerState
<1>2. worker'[w].pc = outcome
  BY DEF ProcessReturns, InboxTypeOK, WorkerState
<1>3. \A v \in Workers : Active(v)' => Active(v)
  BY <1>0, <1>1 DEF Active
<1>4. /\ \A d \in Events : d # e => okFence'[d] = okFence[d]
      /\ okFence'[e] = IF outcome = "ok" /\ worker[w].fence > okFence[e]
                       THEN worker[w].fence ELSE okFence[e]
  BY <1>0 DEF ProcessReturns, InboxTypeOK
<1>5. /\ worker[w].fence <= row[e].fence
      /\ \A d \in Events : okFence[d] <= row[d].fence
  BY <1>0 DEF InboxInv, ClaimsAreOld, SuccessesAreOld
<1>6. \A d \in Events : okFence[d] <= okFence'[d] /\ okFence'[d] <= row[d].fence
  <2> SUFFICES ASSUME NEW d \in Events
               PROVE  okFence[d] <= okFence'[d] /\ okFence'[d] <= row[d].fence
    OBVIOUS
  <2>1. CASE d # e
    BY <1>0, <1>4, <1>5, <2>1
  <2>2. CASE d = e
    <3>1. okFence[e] \in Nat /\ worker[w].fence \in Nat
      BY <1>0
    <3> HIDE DEF e
    <3> QED
      BY <1>4, <1>5, <2>2, <3>1
  <2> QED
    BY <2>1, <2>2
<1> HIDE DEF e
<1>7. ClaimsAreOld' /\ FencesDiffer' /\ AttemptsAgree'
  BY <1>0, <1>1, <1>3 DEF InboxInv, ClaimsAreOld, FencesDiffer, AttemptsAgree
<1>8. SuccessesAreOld'
  BY <1>0, <1>6 DEF SuccessesAreOld
<1>9. SuccessIsKept'
  <2> SUFFICES ASSUME NEW v \in Workers, worker'[v].pc = "ok"
               PROVE  worker'[v].fence <= okFence'[worker'[v].event]
    BY DEF SuccessIsKept
  <2>1. CASE v = w
    <3>1. outcome = "ok" /\ worker'[v].event = e /\ worker'[v].fence = worker[w].fence
      BY <1>1, <1>2, <2>1 DEF e
    <3>2. okFence[e] \in Nat /\ worker[w].fence \in Nat
      BY <1>0
    <3> QED
      BY <1>4, <3>1, <3>2
  <2>2. CASE v # w
    <3>1. worker[v].fence <= okFence[worker[v].event]
      BY <1>1, <2>2 DEF InboxInv, SuccessIsKept
    <3> QED
      BY <1>0, <1>1, <1>6, <3>1
  <2> QED
    BY <2>1, <2>2
<1>10. CompletedByLastOwner'
  <2> SUFFICES ASSUME NEW d \in Events, row[d].status = "completed"
               PROVE  okFence'[d] = row[d].fence
    BY <1>0 DEF CompletedByLastOwner
  <2>1. okFence[d] = row[d].fence
    BY DEF InboxInv, CompletedByLastOwner
  <2> QED
    BY <1>0, <1>6, <2>1
<1>11. RetryBudget' /\ AckedIsStored'
  BY <1>0 DEF InboxInv, RetryBudget, AckedIsStored
<1> QED
  BY <1>7, <1>8, <1>9, <1>10, <1>11 DEF InboxInv

LEMMA InboxInvNext ==
  InboxTypeOK /\ InboxInv /\ [InboxNext]_inboxVars => InboxInv'
<1> SUFFICES ASSUME InboxTypeOK, InboxInv, [InboxNext]_inboxVars PROVE InboxInv'
  OBVIOUS
<1>0. InboxTypeOK'
  BY InboxTypeNext
<1>a. \A w \in Workers : WorkerMove(worker[w], worker[w])
  BY DEF WorkerMove
<1>1. ASSUME NEW e \in Events, NEW f \in Fingerprints, Deliver(e, f)
      PROVE  InboxInv'
  <2>1. \A d \in Events : RowMove(row[d], row'[d])
    <3> SUFFICES ASSUME NEW d \in Events PROVE RowMove(row[d], row'[d])
      OBVIOUS
    <3>1. CASE row'[d] = row[d]
      BY <3>1, RowStays
    <3>2. CASE row'[d] # row[d]
      <4>1. /\ d = e /\ row[e].status = "absent"
            /\ row' = [row EXCEPT ![e].status = "pending", ![e].id = nextId,
                                  ![e].fp = f]
        BY <1>1, <3>2 DEF Deliver, Accept, InboxTypeOK
      <4>2. row[e] \in Row /\ row'[e] \in Row
        BY <1>0 DEF InboxTypeOK
      <4>3. /\ row'[e].status = "pending" /\ row'[e].fence = row[e].fence
            /\ row'[e].attempt = row[e].attempt /\ row'[e].defers = row[e].defers
            /\ row'[e].revived = row[e].revived
        BY <4>1, <4>2 DEF InboxTypeOK, Row
      <4>4. Budgeted(row'[e])
        BY <4>3 DEF InboxInv, RetryBudget, Budgeted
      <4>5. row[e].fence \in Nat
        BY <4>2 DEF Row
      <4> QED
        BY <4>1, <4>3, <4>4, <4>5 DEF RowMove
    <3> QED
      BY <3>1, <3>2
  <2>2. \A d \in Events : row'[d].status = "completed" => row[d].status = "completed"
    BY <1>1 DEF Deliver, Accept, InboxTypeOK, Row
  <2>3. \A p \in acked' : \/ p \in acked
                          \/ row'[p[1]].status # "absent" /\ row'[p[1]].fp = p[2]
    <3> SUFFICES ASSUME NEW p \in acked', p \notin acked
                 PROVE  row'[p[1]].status # "absent" /\ row'[p[1]].fp = p[2]
      OBVIOUS
    <3>1. p = <<e, f>> /\ row'[e].fp = f
      BY <1>1 DEF Deliver
    <3>2. row'[e].status # "absent"
      BY <1>1 DEF Deliver, Accept, InboxTypeOK, Row
    <3> QED
      BY <3>1, <3>2
  <2> QED
    BY <1>0, <1>a, <1>1, <2>1, <2>2, <2>3, FrameStep DEF Deliver
<1>2. ASSUME NEW w \in Workers, Validate(w) PROVE InboxInv'
  <2>1. \A v \in Workers : WorkerMove(worker[v], worker'[v])
    <3>1. CASE worker' = Idle(w)
      BY <3>1, IdleMove
    <3>2. CASE worker' = [worker EXCEPT ![w].pc = "processing",
                                        ![w].ctx = ProcessingTimeout]
      BY <1>0, <1>2, <3>2, <1>a DEF Validate, WorkerMove, InboxTypeOK, WorkerState
    <3> QED
      BY <1>2, <3>1, <3>2 DEF Validate
  <2> QED
    BY <1>0, <1>2, <2>1, RowStays, FrameStep DEF Validate
<1>3. ASSUME NEW w \in Workers, Crash(w) PROVE InboxInv'
  BY <1>0, <1>3, IdleMove, RowStays, FrameStep DEF Crash
<1>4. ASSUME Elapse PROVE InboxInv'
  <2>1. \A v \in Workers : WorkerMove(worker[v], worker'[v])
    BY <1>4, ElapseIs DEF WorkerMove
  <2>2. \A e \in Events : /\ row'[e].status = row[e].status /\ row'[e].fence = row[e].fence
                          /\ row'[e].attempt = row[e].attempt /\ row'[e].fp = row[e].fp
                          /\ row'[e].defers = row[e].defers
                          /\ row'[e].revived = row[e].revived
    BY <1>4, ElapseIs
  <2>3. \A e \in Events : RowMove(row[e], row'[e])
    BY <2>2, RowStays DEF RowMove, Budgeted
  <2> QED
    BY <1>0, <1>4, <2>1, <2>2, <2>3, ElapseIs, FrameStep
<1>5. CASE UNCHANGED inboxVars
  BY <1>0, <1>a, <1>5, RowStays, FrameStep DEF inboxVars
<1>6. ASSUME NEW e \in Events, Revive(e) PROVE InboxInv'
  <2>1. row[e] \in Row /\ row'[e] = Revived(row[e])
    BY <1>6 DEF Revive, InboxTypeOK
  <2>2. /\ row'[e].status = "pending" /\ row'[e].attempt = 0
        /\ row'[e].fence = row[e].fence + 1 /\ row'[e].fp = row[e].fp
        /\ row'[e].defers = row[e].defers /\ row'[e].revived = row[e].revived + 1
    BY <2>1, RevivedRow
  <2>3. Budgeted(row'[e])
    <3> DEFINE n == row[e].revived
               m == MaxAttempts + 1
    <3>1. /\ n \in Nat /\ m \in Nat /\ n * m \in Nat /\ MaxAttempts \in Nat
          /\ row[e].attempt \in Nat /\ row[e].defers \in Nat /\ row[e].fence \in Nat
      BY <2>1, InboxConstants DEF Row
    <3>2. (n + 1) * m = n * m + m
      BY <3>1
    <3>3. /\ row[e].fence <= row[e].attempt + row[e].defers + n * m
          /\ row[e].attempt <= MaxAttempts
      BY DEF InboxInv, RetryBudget
    <3>4. row[e].fence + 1 <= 0 + row[e].defers + (n + 1) * m
      BY <3>1, <3>2, <3>3
    <3> QED
      BY <2>2, <3>1, <3>4 DEF Budgeted
  <2>4. RowMove(row[e], row'[e])
    <3>1. row[e].fence \in Nat
      BY <2>1 DEF Row
    <3> QED
      BY <2>2, <2>3, <3>1 DEF RowMove
  <2>5. \A d \in Events : d # e => row'[d] = row[d]
    BY <1>6 DEF Revive, InboxTypeOK
  <2>6. \A d \in Events : RowMove(row[d], row'[d])
    BY <2>4, <2>5, RowStays
  <2>7. \A d \in Events : row'[d].status = "completed" => row[d].status = "completed"
    BY <2>2, <2>5
  <2> QED
    BY <1>0, <1>a, <1>6, <2>6, <2>7, FrameStep DEF Revive
<1>7. ASSUME NEW w \in Workers, Complete(w) \/ Fail(w) \/ Defer(w)
      PROVE  InboxInv'
  <2> DEFINE e == worker[w].event
  <2>1. e \in Events /\ row[e] \in Row /\ worker' = Idle(w) /\ Active(w)
    BY <1>7 DEF InboxTypeOK, WorkerState, Complete, Fail, Defer, Active
  <2>2. \A d \in Events : d # e => row'[d] = row[d]
    BY <1>7 DEF InboxTypeOK, Complete, Fail, Defer
  <2>3. CASE row'[e] = row[e]
    <3>1. \A d \in Events : row'[d] = row[d]
      BY <2>2, <2>3
    <3>2. \A d \in Events : RowMove(row[d], row'[d])
      BY <3>1, RowStays
    <3>3. \A v \in Workers : WorkerMove(worker[v], worker'[v])
      BY <2>1, IdleMove
    <3> QED
      BY <1>0, <1>7, <3>1, <3>2, <3>3, FrameStep DEF Complete, Fail, Defer
  <2>4. CASE row'[e] # row[e]
    <3>1. HoldsLease(w)
      BY <1>7, <2>4 DEF Complete, Fail, Defer
    <3>2. /\ row[e].status = "processing" /\ row[e].fence = worker[w].fence
          /\ row[e].attempt = worker[w].attempt
      BY <2>1, <3>1 DEF HoldsLease, InboxInv, AttemptsAgree
    <3>3. /\ row'[e].status \in {"completed", "pending", "dead"}
          /\ row'[e].fence = row[e].fence /\ row'[e].fp = row[e].fp
          /\ Budgeted(row'[e])
          /\ row'[e].status = "completed" => okFence[e] = row'[e].fence
      <4>0. /\ {"completed", "pending", "dead"} \subseteq RowStatus
            /\ 0 \in Nat /\ RetryDelay \in Nat
        BY InboxConstants DEF RowStatus, Verdicts
      <4>1. CASE Complete(w)
        <5>1. row'[e] = Released(row[e], "completed", 0)
          BY <2>1, <3>1, <4>1 DEF Complete, InboxTypeOK
        <5>2. /\ row'[e].status = "completed" /\ row'[e].fence = row[e].fence
              /\ row'[e].fp = row[e].fp /\ row'[e].attempt = row[e].attempt
              /\ row'[e].defers = row[e].defers /\ row'[e].revived = row[e].revived
          <6>1. PICK s \in RowStatus, n \in Nat :
                  row'[e] = Released(row[e], s, n) /\ s = "completed"
            BY <4>0, <5>1
          <6> QED
            BY <2>1, <6>1, ReleasedRow
        <5>3. Budgeted(row'[e])
          BY <2>1, <5>2 DEF Budgeted, InboxInv, RetryBudget
        <5>4. worker[w].fence <= okFence[e] /\ okFence[e] <= row[e].fence
          BY <2>1, <4>1 DEF Complete, InboxInv, SuccessIsKept, SuccessesAreOld
        <5>5. okFence[e] \in Nat /\ row[e].fence \in Nat
          BY <2>1 DEF InboxTypeOK, Row
        <5>6. okFence[e] = row[e].fence
          BY <3>2, <5>4, <5>5
        <5> QED
          BY <5>2, <5>3, <5>6
      <4>2. CASE Fail(w)
        <5>1. \/ /\ row'[e] = Released(row[e], "dead", 0)
                 /\ worker[w].attempt >= MaxAttempts
              \/ row'[e] = Released(row[e], "pending", RetryDelay)
          BY <2>1, <3>1, <4>2 DEF Fail, InboxTypeOK
        <5>2. /\ row'[e].fence = row[e].fence
              /\ row'[e].fp = row[e].fp /\ row'[e].attempt = row[e].attempt
              /\ row'[e].defers = row[e].defers /\ row'[e].revived = row[e].revived
              /\ \/ row'[e].status = "dead" /\ worker[w].attempt >= MaxAttempts
                 \/ row'[e].status = "pending"
          <6>1. PICK s \in {"dead", "pending"}, n \in Nat :
                  /\ row'[e] = Released(row[e], s, n)
                  /\ s = "dead" => worker[w].attempt >= MaxAttempts
            BY <4>0, <5>1
          <6>2. s \in RowStatus
            BY <4>0
          <6> QED
            BY <2>1, <6>1, <6>2, ReleasedRow
        <5>3. row[e].attempt <= MaxAttempts
          BY <2>1 DEF InboxInv, RetryBudget
        <5>4. row[e].attempt \in Nat
          BY <2>1 DEF Row
        <5>5. worker[w].attempt >= MaxAttempts => row[e].attempt = MaxAttempts
          BY <3>2, <5>3, <5>4, InboxConstants
        <5>6. Budgeted(row'[e])
          BY <2>1, <5>2, <5>5 DEF Budgeted, InboxInv, RetryBudget
        <5> QED
          BY <5>2, <5>6
      <4>3. CASE Defer(w)
        <5>0. DeferDelay(worker[w].defers) \in Nat
          BY DeferDelayType DEF InboxTypeOK, WorkerState
        <5>1. row'[e] = Deferred(row[e], DeferDelay(worker[w].defers))
          BY <2>1, <3>1, <4>3 DEF Defer, InboxTypeOK
        <5>2. /\ row'[e].fence = row[e].fence /\ row'[e].fp = row[e].fp
              /\ row'[e].attempt = IF row[e].attempt > 0 THEN row[e].attempt - 1 ELSE 0
              /\ row'[e].defers = row[e].defers + 1
              /\ row'[e].revived = row[e].revived
              /\ row'[e].status = "pending"
          <6> DEFINE n == DeferDelay(worker[w].defers)
          <6>1. n \in Nat /\ row[e] \in Row /\ row'[e] = Deferred(row[e], n)
            BY <2>1, <5>0, <5>1
          <6> HIDE DEF n, e
          <6>2. /\ Deferred(row[e], n).fence = row[e].fence /\ Deferred(row[e], n).fp = row[e].fp
                /\ Deferred(row[e], n).attempt = IF row[e].attempt > 0 THEN row[e].attempt - 1 ELSE 0
                /\ Deferred(row[e], n).defers = row[e].defers + 1
                /\ Deferred(row[e], n).revived = row[e].revived
                /\ Deferred(row[e], n).status = "pending"
            BY <6>1, DeferredRow, Zenon
          <6> QED
            BY <6>1, <6>2, Zenon
        <5>3. /\ row[e].revived \in Nat /\ row[e].attempt \in Nat
              /\ row[e].defers \in Nat /\ row[e].fence \in Nat /\ MaxAttempts \in Nat
          BY <2>1, InboxConstants DEF Row
        <5>4. /\ row[e].fence <= row[e].attempt + row[e].defers
                                   + row[e].revived * (MaxAttempts + 1)
              /\ row[e].attempt <= MaxAttempts
          BY <2>1 DEF InboxInv, RetryBudget
        <5>5. row[e].revived * (MaxAttempts + 1) \in Nat
          BY <5>3
        <5> DEFINE k == row[e].revived * (MaxAttempts + 1)
        <5>6. k \in Nat /\ row[e].fence <= row[e].attempt + row[e].defers + k
          BY <5>4, <5>5
        <5>7. row'[e].revived * (MaxAttempts + 1) = k
          BY <5>2
        <5> HIDE DEF k
        <5>8. row'[e].fence <= row'[e].attempt + row'[e].defers + k
          BY <5>2, <5>3, <5>6
        <5>9. row'[e].attempt <= MaxAttempts
          BY <5>2, <5>3, <5>4
        <5> QED
          BY <5>2, <5>7, <5>8, <5>9 DEF Budgeted
      <4> QED
        BY <1>7, <4>1, <4>2, <4>3
    <3>4. RowMove(row[e], row'[e])
      <4>1. row[e].fence \in Nat
        BY <2>1 DEF Row
      <4> QED
        BY <3>2, <3>3, <4>1 DEF RowMove
    <3>5. \A d \in Events : RowMove(row[d], row'[d])
      BY <2>1, <2>2, <3>4, RowStays
    <3>6. \A d \in Events : row'[d].status = "completed"
                 => row[d].status = "completed" \/ okFence[d] = row'[d].fence
      BY <2>2, <3>3
    <3>7. \A v \in Workers : WorkerMove(worker[v], worker'[v])
      BY <2>1, IdleMove
    <3> QED
      BY <1>0, <1>7, <3>5, <3>6, <3>7, FrameStep DEF Complete, Fail, Defer
  <2> QED
    BY <2>3, <2>4
<1>8. ASSUME NEW w \in Workers, Claim(w) PROVE InboxInv'
  <2>1. CASE row' = Swept /\ UNCHANGED worker
    <3>1. \A e \in Events : RowMove(row[e], row'[e])
      BY <2>1, SweptMove
    <3>2. \A e \in Events : row'[e].status = "completed" => row[e].status = "completed"
      BY <2>1, SweptMove
    <3>3. UNCHANGED <<okFence, acked>>
      BY <1>8 DEF Claim
    <3> QED
      BY <1>0, <1>a, <2>1, <3>1, <3>2, <3>3, FrameStep
  <2>2. ASSUME NEW e \in Claimable,
               row' = [Swept EXCEPT ![e] = Leased(row[e])],
               worker' = [worker EXCEPT ![w] = ClaimOf(e, Leased(row[e]))]
        PROVE  InboxInv'
    BY <1>0, <1>8, <2>2, LeaseStep DEF Claim
  <2> QED
    BY <1>8, <2>1, <2>2 DEF Claim
<1>9. ASSUME NEW w \in Workers, NEW outcome \in Outcomes, ProcessReturns(w, outcome)
      PROVE  InboxInv'
  BY <1>0, <1>9, ReturnStep
<1> QED
  BY <1>1, <1>2, <1>3, <1>4, <1>5, <1>6, <1>7, <1>8, <1>9
  DEF InboxNext, WorkerStep, Tick

LEMMA InboxSafe == InboxSpec => [](InboxTypeOK /\ InboxInv)
<1>1. InboxInit => InboxTypeOK /\ InboxInv
  BY InboxTypeInit, InboxInvInit
<1>2. (InboxTypeOK /\ InboxInv) /\ [InboxNext]_inboxVars => (InboxTypeOK /\ InboxInv)'
  BY InboxTypeNext, InboxInvNext
<1> QED
  BY <1>1, <1>2, PTL DEF InboxSpec

--------------------------------------------------------------------------------
(* The safety properties *)

\* Mutual exclusion: two workers never hold a valid lease on the same event,
\* because the lease is compared with the fence and no two claims share one.
THEOREM InboxHasOneOwner == InboxSpec => []OneLiveOwner
<1>1. InboxTypeOK /\ InboxInv => OneLiveOwner
  <2> SUFFICES ASSUME InboxInv, NEW v \in Workers, NEW w \in Workers, v # w,
                      Active(v), HoldsLease(v), Active(w), HoldsLease(w),
                      worker[v].event = worker[w].event
               PROVE  FALSE
    BY DEF OneLiveOwner, Active
  <2>1. worker[v].fence = worker[w].fence
    BY DEF HoldsLease
  <2> QED
    BY <2>1 DEF InboxInv, FencesDiffer
<1> QED
  BY <1>1, InboxSafe, PTL

\* A completed event was completed under the last fence it ever had, by an
\* execution that had succeeded: CompleteWeWorkCallback never lets a stale
\* worker close an event.
THEOREM InboxCompletionIsOwned == InboxSpec => []CompletedByLastOwner
<1>1. InboxTypeOK /\ InboxInv => CompletedByLastOwner
  BY DEF InboxInv
<1> QED
  BY <1>1, InboxSafe, PTL

\* Claims are paid for by attempts, deferrals and replays, and only an event
\* without attempts left is dead-lettered.
THEOREM InboxKeepsRetryBudget == InboxSpec => []RetryBudget
<1>1. InboxTypeOK /\ InboxInv => RetryBudget
  BY DEF InboxInv
<1> QED
  BY <1>1, InboxSafe, PTL

\* WeCom is told "success" only for the payload stored under the event key.
THEOREM InboxAcksWhatItStores == InboxSpec => []AckedIsStored
<1>1. InboxTypeOK /\ InboxInv => AckedIsStored
  BY DEF InboxInv
<1> QED
  BY <1>1, InboxSafe, PTL

--------------------------------------------------------------------------------
(* The inbox implements the event lifecycle *)

Open == {"pending", "processing"}

Phase(status) == IF status \in Open THEN "open" ELSE status

LEMMA StageIsPhase == Stage = [e \in Events |-> Phase(row[e].status)]
  BY DEF Stage, Phase, Open

\* A step that keeps every event in its phase stutters.
LEMMA SamePhases ==
  ASSUME \A e \in Events : Phase(row'[e].status) = Phase(row[e].status)
  PROVE  [Lifecycle!LifecycleNext]_Stage
<1>1. Stage' = [e \in Events |-> Phase(row'[e].status)]
  BY DEF Stage, Phase, Open
<1> QED
  BY <1>1, StageIsPhase

\* A step that moves some open events to dead, and leaves the others in their
\* phase, is a Bury step.
LEMMA BuryStep ==
  ASSUME NEW S \in SUBSET Events,
         \A e \in S : row[e].status \in Open /\ row'[e].status = "dead",
         \A e \in Events \ S : Phase(row'[e].status) = Phase(row[e].status)
  PROVE  [Lifecycle!LifecycleNext]_Stage
<1>1. Stage' = [e \in Events |-> Phase(row'[e].status)]
  BY DEF Stage, Phase, Open
<1>2. \A e \in S : Stage[e] = "open"
  BY StageIsPhase DEF Phase
<1>3. Stage' = [e \in Events |-> IF e \in S THEN "dead" ELSE Stage[e]]
  BY <1>1, StageIsPhase DEF Phase, Open
<1>4. Lifecycle!Bury(S)
  BY <1>2, <1>3 DEF Lifecycle!Bury
<1> QED
  BY <1>4 DEF Lifecycle!LifecycleNext, Lifecycle!VerdictNext

\* A step that changes one event's phase, and how.
LEMMA OneStep ==
  ASSUME NEW e \in Events,
         \A d \in Events : d # e => row'[d] = row[d],
         \/ row[e].status = "absent" /\ row'[e].status = "pending"
         \/ row[e].status = "processing" /\ row'[e].status = "completed"
         \/ row[e].status = "dead" /\ row'[e].status = "pending"
  PROVE  [Lifecycle!LifecycleNext]_Stage
<1>1. Stage' = [d \in Events |-> Phase(row'[d].status)]
  BY DEF Stage, Phase, Open
<1>2. Stage' = [Stage EXCEPT ![e] = Phase(row'[e].status)]
  BY <1>1, StageIsPhase
<1>3. Stage[e] = Phase(row[e].status)
  BY StageIsPhase
<1>4. Lifecycle!Accept(e) \/ Lifecycle!Finish(e) \/ Lifecycle!Reopen(e)
  BY <1>2, <1>3
  DEF Phase, Open, Lifecycle!Accept, Lifecycle!Finish, Lifecycle!Reopen
<1> QED
  BY <1>4 DEF Lifecycle!LifecycleNext, Lifecycle!VerdictNext

LEMMA LifecycleStep ==
  InboxTypeOK /\ [InboxNext]_inboxVars => [Lifecycle!LifecycleNext]_Stage
<1> SUFFICES ASSUME InboxTypeOK, [InboxNext]_inboxVars
             PROVE  [Lifecycle!LifecycleNext]_Stage
  OBVIOUS
<1>0. \A e \in Events : row[e] \in Row
  BY DEF InboxTypeOK
<1>a. {"completed", "pending", "dead"} \subseteq RowStatus /\ 0 \in Nat /\ RetryDelay \in Nat
  BY InboxConstants DEF RowStatus, Verdicts
<1>1. ASSUME NEW e \in Events, NEW f \in Fingerprints, Deliver(e, f)
      PROVE  [Lifecycle!LifecycleNext]_Stage
  <2>1. CASE row' = row
    BY <2>1, SamePhases
  <2>2. CASE row' # row
    <3>1. /\ row[e].status = "absent" /\ row'[e].status = "pending"
          /\ \A d \in Events : d # e => row'[d] = row[d]
      BY <1>1, <2>2 DEF Deliver, Accept, InboxTypeOK, Row
    <3> QED
      BY <3>1, OneStep
  <2> QED
    BY <2>1, <2>2
<1>2. ASSUME NEW w \in Workers, Claim(w)
      PROVE  [Lifecycle!LifecycleNext]_Stage
  <2> DEFINE S == {e \in Events : Due(row[e]) /\ row[e].attempt >= MaxAttempts}
  <2>1. /\ \A e \in S : row[e].status \in Open /\ Swept[e].status = "dead"
        /\ \A e \in Events \ S : Swept[e] = row[e]
    <3>1. \A e \in Events : Released(row[e], "dead", 0).status = "dead"
      BY <1>0, <1>a, ReleasedRow
    <3> QED
      BY <3>1 DEF Swept, Due, Open
  <2>2. CASE row' = Swept
    BY <2>1, <2>2, BuryStep
  <2>3. ASSUME NEW e \in Claimable, row' = [Swept EXCEPT ![e] = Leased(row[e])]
        PROVE  [Lifecycle!LifecycleNext]_Stage
    <3>1. /\ e \in Events /\ row[e] \in Row /\ row[e].status \in Open
          /\ row[e].attempt < MaxAttempts
      BY <1>0 DEF Claimable, Due, Open
    <3>2. e \notin S
      BY <3>1, InboxConstants DEF Row
    <3>3. row'[e].status = "processing"
      BY <2>3, <3>1, LeasedRow DEF Swept
    <3>4. \A d \in Events : d # e => row'[d] = Swept[d]
      BY <2>3 DEF Swept
    <3>5. \A d \in S : row[d].status \in Open /\ row'[d].status = "dead"
      BY <2>1, <3>2, <3>4
    <3>6. \A d \in Events \ S : Phase(row'[d].status) = Phase(row[d].status)
      BY <2>1, <3>1, <3>3, <3>4 DEF Phase, Open
    <3> QED
      BY <3>5, <3>6, BuryStep
  <2> QED
    BY <1>2, <2>2, <2>3 DEF Claim
<1>3. ASSUME NEW w \in Workers, Complete(w) \/ Fail(w) \/ Defer(w)
      PROVE  [Lifecycle!LifecycleNext]_Stage
  <2> DEFINE e == worker[w].event
  <2>1. e \in Events /\ row[e] \in Row
    BY DEF InboxTypeOK, WorkerState
  <2>2. \A d \in Events : d # e => row'[d] = row[d]
    BY <1>3 DEF InboxTypeOK, Complete, Fail, Defer
  <2>3. CASE row' = row
    BY <2>3, SamePhases
  <2>4. CASE row' # row
    <3>1. row[e].status = "processing"
      BY <1>3, <2>4 DEF Complete, Fail, Defer, HoldsLease
    <3>2. CASE Complete(w)
      <4>1. row'[e] = Released(row[e], "completed", 0)
        BY <2>1, <2>4, <3>2 DEF Complete, InboxTypeOK
      <4>2. row'[e].status = "completed"
        <5>1. Released(row[e], "completed", 0).status = "completed"
          BY <1>a, <2>1, ReleasedRow, Zenon
        <5> QED
          BY <4>1, <5>1, Zenon
      <4> QED
        BY <2>1, <2>2, <3>1, <4>2, OneStep
    <3>3. CASE Fail(w)
      <4>1. \/ row'[e] = Released(row[e], "dead", 0)
            \/ row'[e] = Released(row[e], "pending", RetryDelay)
        BY <2>1, <2>4, <3>3 DEF Fail, InboxTypeOK
      <4>2. row'[e].status \in {"dead", "pending"}
        <5>1. Released(row[e], "dead", 0).status = "dead"
          BY <1>a, <2>1, ReleasedRow, Zenon
        <5>2. Released(row[e], "pending", RetryDelay).status = "pending"
          BY <1>a, <2>1, ReleasedRow, Zenon
        <5> QED
          BY <4>1, <5>1, <5>2
      <4>3. CASE row'[e].status = "dead"
        <5>1. {e} \in SUBSET Events
          BY <2>1
        <5>2. row[e].status \in Open
          BY <3>1 DEF Open
        <5> QED
          BY <2>2, <4>3, <5>1, <5>2, BuryStep
      <4>4. CASE row'[e].status = "pending"
        BY <2>2, <3>1, <4>4, SamePhases DEF Phase, Open
      <4> QED
        BY <4>2, <4>3, <4>4
    <3>4. CASE Defer(w)
      <4>1. DeferDelay(worker[w].defers) \in Nat
        BY DeferDelayType DEF InboxTypeOK, WorkerState
      <4>2. row'[e] = Deferred(row[e], DeferDelay(worker[w].defers))
        BY <2>1, <2>4, <3>4 DEF Defer, InboxTypeOK
      <4>3. row'[e].status = "pending"
        <5> DEFINE n == DeferDelay(worker[w].defers)
        <5>1. n \in Nat /\ row'[e] = Deferred(row[e], n) /\ row[e] \in Row
          BY <2>1, <4>1, <4>2
        <5> HIDE DEF n, e
        <5> QED
          BY <5>1, DeferredRow
      <4> QED
        BY <2>2, <3>1, <4>3, SamePhases DEF Phase, Open
    <3> QED
      BY <1>3, <3>2, <3>3, <3>4
  <2> QED
    BY <2>3, <2>4
<1>4. ASSUME NEW e \in Events, Revive(e)
      PROVE  [Lifecycle!LifecycleNext]_Stage
  <2>1. /\ row'[e] = Revived(row[e]) /\ row[e].status \in Open \cup {"dead"}
        /\ \A d \in Events : d # e => row'[d] = row[d]
    BY <1>4 DEF Revive, Revivable, Open, InboxTypeOK
  <2>2. row'[e].status = "pending"
    BY <1>0, <2>1, RevivedRow
  <2>3. CASE row[e].status = "dead"
    BY <2>1, <2>2, <2>3, OneStep
  <2>4. CASE row[e].status \in Open
    BY <2>1, <2>2, <2>4, SamePhases DEF Phase, Open
  <2> QED
    BY <2>1, <2>3, <2>4
<1>5. ASSUME Elapse PROVE [Lifecycle!LifecycleNext]_Stage
  <2>1. \A e \in Events : row'[e].status = row[e].status
    BY <1>0, <1>5, ElapseIs
  <2> QED
    BY <2>1, SamePhases
<1>6. CASE UNCHANGED row
  BY <1>6, SamePhases
<1> QED
  BY <1>1, <1>2, <1>3, <1>4, <1>5, <1>6
  DEF InboxNext, WorkerStep, Tick, Validate, ProcessReturns, Crash, inboxVars

\* Refinement: the table, its workers and its leases implement the lifecycle
\* with one verdict per event, from which only a dead event is reopened.
THEOREM InboxImplementsLifecycle == InboxSpec => ImplementsLifecycle
<1>1. InboxInit => Lifecycle!LifecycleInit
  <2> SUFFICES ASSUME InboxInit PROVE Lifecycle!LifecycleInit
    OBVIOUS
  <2>1. PICK f \in Fingerprints :
          row = [e \in Events |->
                  [status |-> "absent", id |-> 0, fp |-> f, attempt |-> 0,
                   defers |-> 0, fence |-> 0, token |-> 0, lease |-> 0,
                   wait |-> 0, revived |-> 0]]
    BY DEF InboxInit
  <2>2. ASSUME NEW e \in Events PROVE row[e].status = "absent"
    <3>1. row[e] = [status |-> "absent", id |-> 0, fp |-> f, attempt |-> 0,
                    defers |-> 0, fence |-> 0, token |-> 0, lease |-> 0,
                    wait |-> 0, revived |-> 0]
      BY <2>1, Zenon
    <3> QED
      BY <3>1
  <2> QED
    BY <2>2 DEF Lifecycle!LifecycleInit, Stage
<1>2. InboxTypeOK /\ [InboxNext]_inboxVars => [Lifecycle!LifecycleNext]_Stage
  BY LifecycleStep
<1> QED
  BY <1>1, <1>2, InboxTypeCorrect, PTL
  DEF InboxSpec, ImplementsLifecycle, Lifecycle!LifecycleSpec

--------------------------------------------------------------------------------
(* Type correctness *)

\* A worker is inside Process only while it processes a claim, and sends and
\* seals existing actions.
RunsAreClaimed ==
    \A w \in Workers :
        /\ run[w].at # "none" => worker[w].pc = "processing"
        /\ run[w].at \in {"sending", "sealing"} => run[w].k \in Actions

EffectState == InboxTypeOK /\ EffectTypeOK /\ RunsAreClaimed

RunPlaces == {"none", "contact", "fission", "action", "sending", "sealing", "welcome"}

LEMMA PlaceType ==
  ASSUME NEW s \in RunState, NEW p \in RunPlaces
  PROVE  LET n == [s EXCEPT !.at = p] IN
         /\ n \in RunState
         /\ n.at = p
         /\ n.k = s.k
         /\ n.err = s.err
         /\ n.due = s.due
<1>1. [s EXCEPT !.at = p] \in RunState
  BY Zenon DEF RunState, RunPlaces
<1> QED
  BY <1>1 DEF RunState

\* The position of one worker is written.
RunBecomes(w, p) ==
    /\ run' \in [Workers -> RunState]
    /\ run'[w].at = p
    /\ \A v \in Workers : v # w => run'[v] = run[v]

LEMMA RunWrite ==
  ASSUME run \in [Workers -> RunState], NEW w \in Workers, NEW s \in RunState,
         run' = [run EXCEPT ![w] = s]
  PROVE  RunBecomes(w, s.at) /\ run'[w] = s
  BY DEF RunBecomes

LEMMA RunMoves ==
  ASSUME run \in [Workers -> RunState], NEW w \in Workers, NEW p \in RunPlaces,
         run' = [run EXCEPT ![w].at = p]
  PROVE  /\ RunBecomes(w, p)
         /\ run'[w].k = run[w].k
         /\ run'[w].err = run[w].err
         /\ run'[w].due = run[w].due
<1> DEFINE s == run[w]
           new == [s EXCEPT !.at = p]
<1>1. run' = [run EXCEPT ![w] = new]
  BY Zenon
<1>2. s \in RunState
  OBVIOUS
<1> HIDE DEF s
<1>3. new \in RunState /\ new.at = p /\ new.k = s.k /\ new.err = s.err /\ new.due = s.due
  BY <1>2, PlaceType, Zenon
<1> HIDE DEF new
<1> QED
  BY <1>1, <1>3, RunWrite DEF s

LEMMA RunAtFission ==
  ASSUME run \in [Workers -> RunState], NEW w \in Workers, SyncContact(w)
  PROVE  RunBecomes(w, "fission") /\ run'[w].due = run[w].due
<1> DEFINE s == run[w]
           b == worker[w].event \notin contacts
           new == [s EXCEPT !.at = "fission", !.isNew = b]
<1>1. run' = [run EXCEPT ![w] = new]
  BY Zenon DEF SyncContact
<1>2. s \in RunState /\ b \in BOOLEAN
  BY DEF RunState
<1> HIDE DEF s, b
<1>3. new \in RunState
  BY <1>2, Zenon DEF RunState
<1>4. new.at = "fission" /\ new.due = s.due
  BY <1>2, <1>3 DEF RunState
<1> HIDE DEF new
<1> QED
  BY <1>1, <1>3, <1>4, RunWrite DEF s

\* An execution counted the invitation and found these messages due.
ActionsBegin(w, due) ==
    run' = [run EXCEPT ![w].at = "action", ![w].k = 1, ![w].due = due]

LEMMA RunAtFirstAction ==
  ASSUME run \in [Workers -> RunState], NEW w \in Workers, NEW due \in SUBSET Actions,
         ActionsBegin(w, due)
  PROVE  /\ RunBecomes(w, "action")
         /\ run'[w].k = 1
         /\ run'[w].err = run[w].err
         /\ run'[w].due = due
<1> DEFINE s == run[w]
           new == [s EXCEPT !.at = "action", !.k = 1, !.due = due]
<1>1. run' = [run EXCEPT ![w] = new]
  BY Zenon DEF ActionsBegin
<1>2. s \in RunState /\ 1 \in Nat
  BY DEF RunState
<1> HIDE DEF s
<1>3. new \in RunState
  BY <1>2, Zenon DEF RunState
<1>4. new.at = "action" /\ new.k = 1 /\ new.err = s.err /\ new.due = due
  BY <1>2, <1>3 DEF RunState
<1> HIDE DEF new
<1>5. RunBecomes(w, new.at) /\ run'[w] = new
  BY <1>1, <1>3, RunWrite, Zenon
<1> QED
  BY <1>4, <1>5, Zenon DEF s

LEMMA DueIsActions == \A w \in Workers : DueActions(w) \in SUBSET Actions
  BY DEF DueActions

LEMMA RunAtNextAction ==
  ASSUME run \in [Workers -> RunState], NEW w \in Workers, NEW err \in BOOLEAN,
         NextAction(w, err)
  PROVE  /\ RunBecomes(w, "action")
         /\ run'[w].k = run[w].k + 1
         /\ run'[w].err = (run[w].err \/ err)
         /\ run'[w].due = run[w].due
<1> DEFINE s == run[w]
           k == s.k + 1
           b == s.err \/ err
           new == [s EXCEPT !.at = "action", !.k = k, !.err = b]
<1>1. run' = [run EXCEPT ![w] = new]
  BY Zenon DEF NextAction
<1>2. s \in RunState /\ k \in Nat /\ b \in BOOLEAN
  BY DEF RunState
<1> HIDE DEF s, k, b
<1>3. new \in RunState
  BY <1>2, Zenon DEF RunState
<1>4. new.at = "action" /\ new.k = k /\ new.err = b /\ new.due = s.due
  BY <1>2, <1>3 DEF RunState
<1> HIDE DEF new
<1> QED
  BY <1>1, <1>3, <1>4, RunWrite DEF s, k, b

LEMMA NextActionType ==
  ASSUME EffectTypeOK, NEW w \in Workers, NEW err \in BOOLEAN, NextAction(w, err)
  PROVE  run' \in [Workers -> RunState]
  BY RunAtNextAction DEF EffectTypeOK, RunBecomes

LEMMA RunEnds ==
  ASSUME run \in [Workers -> RunState], NEW w \in Workers, EndRun(w)
  PROVE  RunBecomes(w, "none") /\ run'[w] = NotRunning
<1>1. NotRunning \in RunState /\ NotRunning.at = "none"
  BY DEF NotRunning, RunState
<1> QED
  BY <1>1, RunWrite DEF EndRun

LEMMA EndRunType ==
  ASSUME EffectTypeOK, NEW w \in Workers, EndRun(w)
  PROVE  run' \in [Workers -> RunState]
  BY DEF EffectTypeOK, EndRun, NotRunning, RunState

\* What is remembered of a successful execution, if anything changes.
Remembers(w) ==
    okDue' = okDue \/ okDue' = [okDue EXCEPT ![worker[w].event] = run[w].due]

LEMMA RememberedType ==
  ASSUME EffectTypeOK, NEW w \in Workers, Remembers(w)
  PROVE  okDue' \in [Events -> SUBSET Actions]
<1>1. run[w].due \in SUBSET Actions
  BY DEF EffectTypeOK, RunState
<1> QED
  BY <1>1, Zenon DEF EffectTypeOK, Remembers

LEMMA ReturnRemembers ==
  ASSUME NEW w \in Workers, NEW outcome, Return(w, outcome)
  PROVE  EndRun(w) /\ Remembers(w)
  BY Zenon DEF Return, Remembers

LedgerStatus == {"none", "pending", "unknown", "sent"}

\* j is ledger row i after an UPDATE.
StampOf(j, i, s, q) ==
    j \in Intent /\ j.status = s /\ j.quar = q /\ j.version = i.version + 1

LEMMA StampedRow ==
  ASSUME NEW i \in Intent, NEW s \in LedgerStatus, NEW q \in Nat
  PROVE  StampOf(Stamped(i, s, q), i, s, q)
<1>1. i.version + 1 \in Nat
  BY DEF Intent
<1>2. Stamped(i, s, q) \in Intent
  BY <1>1, Zenon DEF Stamped, Intent, LedgerStatus
<1> QED
  BY <1>2 DEF Stamped, Intent, StampOf

LEMMA CooledRow ==
  ASSUME NEW i \in Intent
  PROVE  /\ [i EXCEPT !.quar = Dec(@)] \in Intent
         /\ [i EXCEPT !.quar = Dec(@)].status = i.status
         /\ [i EXCEPT !.quar = Dec(@)].version = i.version
         /\ [i EXCEPT !.quar = Dec(@)].quar = Dec(i.quar)
<1>1. Dec(i.quar) \in Nat
  BY DecType DEF Intent
<1>2. [i EXCEPT !.quar = Dec(i.quar)] \in Intent
  BY <1>1, Zenon DEF Intent
<1> QED
  BY <1>1, <1>2 DEF Intent

\* One entry of a table over events and actions is written.
LEMMA TableWrite ==
  ASSUME NEW S, NEW table \in [Events -> [Actions -> S]],
         NEW e \in Events, NEW a \in Actions, NEW v \in S
  PROVE  LET new == [table EXCEPT ![e][a] = v] IN
         /\ new \in [Events -> [Actions -> S]]
         /\ new[e][a] = v
         /\ \A d \in Events, b \in Actions :
              d # e \/ b # a => new[d][b] = table[d][b]
  OBVIOUS

LEMMA EffectTypeInit == EffectInit => EffectTypeOK
<1> SUFFICES ASSUME EffectInit PROVE EffectTypeOK
  OBVIOUS
<1>1. NotRunning \in RunState
  BY DEF NotRunning, RunState
<1>2. [status |-> "none", version |-> 1, hash |-> Nothing, quar |-> 0] \in Intent
  BY DEF Intent
<1> QED
  BY <1>1, <1>2, Zenon DEF EffectInit, EffectTypeOK

LEMMA EffectTypeNext == EffectState /\ [Next]_vars => EffectTypeOK'
<1> SUFFICES ASSUME EffectState, [Next]_vars PROVE EffectTypeOK'
  OBVIOUS
<1> USE DEF EffectState, EffectTypeOK
<1>0. \A w \in Workers : worker[w].event \in Events
  BY DEF InboxTypeOK, WorkerState
<1>1. CASE UNCHANGED effectVars
  BY <1>1 DEF effectVars
<1>2. ASSUME NEW w \in Workers, StartProcess(w) PROVE EffectTypeOK'
  <2>1. run' = run \/ run' = [run EXCEPT ![w].at = "contact"]
    BY <1>2, Zenon DEF StartProcess
  <2>2. run' \in [Workers -> RunState]
    BY <2>1, RunMoves DEF RunBecomes, RunPlaces
  <2> QED
    BY <1>2, <2>2, Zenon DEF StartProcess, businessVars, operatorVars, externalVars
<1>3. ASSUME NEW w \in Workers, EndRun(w), Remembers(w),
             UNCHANGED <<intent, businessVars, operatorVars, externalVars>>
      PROVE  EffectTypeOK'
  <2>1. run' \in [Workers -> RunState] /\ okDue' \in [Events -> SUBSET Actions]
    BY <1>3, EndRunType, RememberedType
  <2> QED
    BY <1>3, <2>1 DEF businessVars, operatorVars, externalVars
<1>4. ASSUME NEW w \in Workers, SyncContact(w) PROVE EffectTypeOK'
  <2>1. run' \in [Workers -> RunState]
    BY <1>4, RunAtFission DEF RunBecomes
  <2> QED
    BY <1>0, <1>4, <2>1 DEF SyncContact, operatorVars, externalVars
<1>5. ASSUME NEW w \in Workers, CountInvitation(w) PROVE EffectTypeOK'
  <2>1. inviteCount' \in Nat /\ children' \subseteq Events
    BY <1>0, <1>5 DEF CountInvitation, InvitesNow
  <2>2. run' \in [Workers -> RunState]
    <3>1. ActionsBegin(w, DueActions(w))
      BY <1>5, Zenon DEF CountInvitation, ActionsBegin
    <3> QED
      BY <3>1, DueIsActions, RunAtFirstAction DEF RunBecomes
  <2>3. intent' \in [Events -> [Actions -> Intent]]
    <3> DEFINE e == worker[w].event
               new(a) == [status |-> "pending", version |-> 1,
                          hash |-> activity.push[a], quar |-> 0]
               entry == [a \in Actions |->
                          IF a \in DueActions(w) /\ intent[e][a].status = "none"
                          THEN new(a) ELSE intent[e][a]]
    <3>1. intent' = [intent EXCEPT ![e] = entry]
      BY <1>5, Zenon DEF CountInvitation
    <3>2. activity.push \in [Actions -> Payloads \cup {Nothing}]
      BY SideEffectConstants DEF Campaign
    <3>3. \A a \in Actions : new(a) \in Intent
      BY <3>2 DEF Intent
    <3>4. e \in Events /\ intent[e] \in [Actions -> Intent]
      BY <1>0
    <3> HIDE DEF new, e
    <3>5. entry \in [Actions -> Intent]
      BY <3>3, <3>4
    <3> HIDE DEF entry
    <3> QED
      BY <3>1, <3>4, <3>5
  <2> QED
    BY <1>5, <2>1, <2>2, <2>3, Zenon DEF CountInvitation, operatorVars, externalVars
<1>6. ASSUME NEW w \in Workers, SkipInvitation(w) PROVE EffectTypeOK'
  <2>1. run' = [run EXCEPT ![w].at = "welcome"]
    BY <1>6, Zenon DEF SkipInvitation
  <2>2. run' \in [Workers -> RunState]
    BY <2>1, RunMoves DEF RunBecomes, RunPlaces
  <2> QED
    BY <1>6, <2>2, Zenon DEF SkipInvitation, businessVars, operatorVars, externalVars
<1>7. ASSUME NEW w \in Workers, BeginSideEffect(w) PROVE EffectTypeOK'
  <2>1. run' \in [Workers -> RunState]
    <3>1. run' = [run EXCEPT ![w].at = "sending"]
      BY <1>7, Zenon DEF BeginSideEffect
    <3> QED
      BY <3>1, RunMoves DEF RunBecomes, RunPlaces
  <2>2. intent' \in [Events -> [Actions -> Intent]]
    <3> DEFINE e == worker[w].event
               a == run[w].k
    <3>1. e \in Events /\ a \in Actions /\ intent[e][a] \in Intent
      BY <1>0, <1>7 DEF BeginSideEffect, AtAction, RunState
    <3>2. Stamped(intent[e][a], "unknown", Quarantine) \in Intent
      BY <3>1, StampedRow, SideEffectConstants DEF LedgerStatus, StampOf
    <3>3. intent' = [intent EXCEPT ![e][a] = Stamped(intent[e][a], "unknown", Quarantine)]
      BY <1>7 DEF BeginSideEffect
    <3> QED
      BY <3>1, <3>2, <3>3, TableWrite
  <2> QED
    BY <1>7, <2>1, <2>2 DEF BeginSideEffect, businessVars, operatorVars, externalVars
<1>8. ASSUME NEW w \in Workers,
             PassOver(w) \/ SkipSideEffect(w) \/ SendRefused(w) \/ SealFails(w)
      PROVE  EffectTypeOK'
  BY <1>8, NextActionType
  DEF PassOver, SkipSideEffect, SendRefused, SealFails, businessVars, operatorVars, externalVars
<1>9. ASSUME NEW w \in Workers, SendAccepted(w) PROVE EffectTypeOK'
  <2>1. run' \in [Workers -> RunState]
    <3>1. run' = [run EXCEPT ![w].at = "sealing"]
      BY <1>9, Zenon DEF SendAccepted
    <3> QED
      BY <3>1, RunMoves DEF RunBecomes, RunPlaces
  <2>2. provider' \in [Events -> [Actions -> Nat]]
    <3> DEFINE e == worker[w].event
               a == run[w].k
    <3>1. e \in Events /\ a \in Actions /\ provider[e][a] + 1 \in Nat
      BY <1>0, <1>9 DEF SendAccepted, RunsAreClaimed
    <3>2. provider' = [provider EXCEPT ![e][a] = provider[e][a] + 1]
      BY <1>9 DEF SendAccepted
    <3> QED
      BY <3>1, <3>2, TableWrite
  <2> QED
    BY <1>9, <2>1, <2>2 DEF SendAccepted, businessVars, operatorVars
<1>10. ASSUME NEW w \in Workers, SendLost(w) PROVE EffectTypeOK'
  <2>1. run' \in [Workers -> RunState]
    BY <1>10, NextActionType, EndRunType DEF SendLost
  <2>2. flight' \in [Events -> [Actions -> Nat]]
    BY <1>0, <1>10, SideEffectConstants DEF SendLost
  <2> QED
    BY <1>10, <2>1, <2>2 DEF SendLost, businessVars, operatorVars
<1>11. ASSUME NEW w \in Workers, SealSideEffect(w) PROVE EffectTypeOK'
  <2>1. run' \in [Workers -> RunState]
    BY <1>11, NextActionType DEF SealSideEffect
  <2>2. intent' \in [Events -> [Actions -> Intent]]
    <3> DEFINE e == worker[w].event
               a == run[w].k
    <3>1. intent' = intent \/ intent' = [intent EXCEPT ![e][a] = Stamped(intent[e][a], "sent", 0)]
      BY <1>11, Zenon DEF SealSideEffect
    <3>2. e \in Events /\ a \in Actions
      BY <1>0, <1>11 DEF SealSideEffect, RunsAreClaimed
    <3>3. Stamped(intent[e][a], "sent", 0) \in Intent
      <4>1. intent[e][a] \in Intent
        BY <3>2
      <4> HIDE DEF e, a
      <4> QED
        BY <4>1, StampedRow DEF LedgerStatus, StampOf
    <3> HIDE DEF e, a
    <3>4. CASE intent' = [intent EXCEPT ![e][a] = Stamped(intent[e][a], "sent", 0)]
      BY <3>2, <3>3, <3>4, TableWrite
    <3> QED
      BY <3>1, <3>4
  <2> QED
    BY <1>11, <2>1, <2>2, Zenon DEF SealSideEffect, businessVars, operatorVars, externalVars
<1>12. ASSUME NEW w \in Workers, FinishActions(w) PROVE EffectTypeOK'
  <2>1. CASE Return(w, "failed")
    BY <1>3, <1>12, <2>1, ReturnRemembers, Zenon DEF FinishActions
  <2>2. CASE run' = [run EXCEPT ![w].at = "welcome"] /\ okDue' = okDue
    BY <1>12, <2>2 DEF FinishActions, RunState, businessVars, operatorVars, externalVars
  <2> QED
    BY <1>12, <2>1, <2>2, Zenon DEF FinishActions
<1>13. ASSUME NEW r \in Requests, NEW e \in Events, NEW a \in Actions, Inspect(r, e, a)
       PROVE  EffectTypeOK'
  <2>1. row[e].fence \in Nat /\ intent[e][a].version \in Nat
    BY DEF InboxTypeOK, Row, Intent
  <2> QED
    BY <1>13, <2>1 DEF Inspect, Command, businessVars, externalVars
<1>14. ASSUME NEW r \in Requests, Reconcile(r) PROVE EffectTypeOK'
  <2> DEFINE c == cmd[r]
  <2>1. c \in Command
    BY <1>14 DEF Reconcile, Reserved
  <2>2. intent' \in [Events -> [Actions -> Intent]]
    <3> DEFINE s == IF c.decision = "confirm_sent" THEN "sent" ELSE "pending"
               i == intent[c.event][c.action]
    <3>1. c.event \in Events /\ c.action \in Actions /\ i \in Intent
      BY <2>1 DEF Command
    <3>2. s \in LedgerStatus
      BY DEF LedgerStatus
    <3>3. Stamped(i, s, 0) \in Intent
      BY <3>1, <3>2, StampedRow DEF StampOf
    <3>4. intent' = [intent EXCEPT ![c.event][c.action] = Stamped(i, s, 0)]
      BY <1>14 DEF Reconcile, Decide
    <3> QED
      BY <3>1, <3>3, <3>4, TableWrite
  <2> QED
    BY <1>14, <2>2 DEF Reconcile, businessVars, externalVars
<1>15. ASSUME NEW e \in Events, NEW a \in Actions, LateAccept(e, a) PROVE EffectTypeOK'
  BY <1>15 DEF LateAccept, businessVars, operatorVars
<1>16. ASSUME ChangeActivity PROVE EffectTypeOK'
  BY <1>16, SideEffectConstants DEF ChangeActivity, businessVars, operatorVars
<1>17. ASSUME PassTime PROVE EffectTypeOK'
  BY <1>17, CooledRow, DecType
  DEF PassTime, businessVars, operatorVars
<1>18. ASSUME NEW w \in Workers,
              IgnoreEvent(w) \/ SyncFails(w) \/ RejectChangedIntent(w) \/ EnqueueWelcome(w)
       PROVE  EffectTypeOK'
  <2>1. /\ \E outcome : Return(w, outcome)
        /\ UNCHANGED <<intent, businessVars, operatorVars, externalVars>>
    BY <1>18, Zenon DEF IgnoreEvent, SyncFails, RejectChangedIntent, EnqueueWelcome
  <2> QED
    BY <1>3, <2>1, ReturnRemembers, Zenon
<1>19. ASSUME NEW w \in Workers, WorkerCrash(w) PROVE EffectTypeOK'
  BY <1>3, <1>19, Zenon DEF WorkerCrash, Remembers
<1>20. ASSUME NEW w \in Workers, ProcessStep(w) PROVE EffectTypeOK'
  BY <1>4, <1>5, <1>6, <1>7, <1>8, <1>9, <1>10, <1>11, <1>12, <1>18, <1>20, Zenon
  DEF ProcessStep
<1> QED
  BY <1>1, <1>2, <1>13, <1>14, <1>15, <1>16, <1>17, <1>19, <1>20, Zenon
  DEF Next, vars, Deliveries, InboxStep

\* Time only lowers the deadlines.
LEMMA ElapseFacts ==
  ASSUME InboxTypeOK, Elapse
  PROVE  /\ \A e \in Events :
              /\ row'[e].status = row[e].status /\ row'[e].fence = row[e].fence
              /\ row'[e].token = row[e].token /\ row'[e].lease = Dec(row[e].lease)
         /\ \A w \in Workers :
              /\ worker'[w].pc = worker[w].pc /\ worker'[w].event = worker[w].event
              /\ worker'[w].fence = worker[w].fence /\ worker'[w].token = worker[w].token
              /\ worker'[w].ctx = Dec(worker[w].ctx)
         /\ UNCHANGED <<nextId, acked, okFence>>
<1>1. ASSUME NEW r \in Row
      PROVE  LET s == [r EXCEPT !.lease = Dec(@), !.wait = Dec(@)] IN
             /\ s.status = r.status /\ s.fence = r.fence
             /\ s.token = r.token /\ s.lease = Dec(r.lease)
  BY DEF Row
<1>2. ASSUME NEW s \in WorkerState
      PROVE  LET x == [s EXCEPT !.ctx = Dec(@)] IN
             /\ x.pc = s.pc /\ x.event = s.event /\ x.fence = s.fence
             /\ x.token = s.token /\ x.ctx = Dec(s.ctx)
  BY DEF WorkerState
<1>3. \A e \in Events : /\ row[e] \in Row
                        /\ row'[e] = [row[e] EXCEPT !.lease = Dec(@), !.wait = Dec(@)]
  BY Zenon DEF InboxTypeOK, Elapse
<1>4. \A w \in Workers : /\ worker[w] \in WorkerState
                         /\ worker'[w] = [worker[w] EXCEPT !.ctx = Dec(@)]
  BY Zenon DEF InboxTypeOK, Elapse
<1> QED
  BY <1>1, <1>2, <1>3, <1>4, Zenon DEF Elapse

LEMMA RunsInit == Init => RunsAreClaimed
  BY DEF Init, EffectInit, NotRunning, RunsAreClaimed

\* A step of one worker leaves the others where they are.
LEMMA OthersStay ==
  ASSUME EffectState, NEW w \in Workers,
         InboxStep(w) \/ StartProcess(w) \/ ProcessStep(w) \/ WorkerCrash(w)
  PROVE  \A v \in Workers : v # w => run'[v] = run[v] /\ worker'[v] = worker[v]
<1> DEFINE Stay == \A v \in Workers : v # w => run'[v] = run[v] /\ worker'[v] = worker[v]
<1> SUFFICES Stay
  OBVIOUS
<1>0. run \in [Workers -> RunState] /\ worker \in [Workers -> WorkerState]
  BY DEF EffectState, InboxTypeOK, EffectTypeOK
<1>1. CASE InboxStep(w)
  BY <1>0, <1>1 DEF InboxStep, effectVars, Claim, Complete, Fail, Defer, Idle
<1>2. CASE StartProcess(w)
  BY <1>0, <1>2 DEF StartProcess, Validate, Idle
<1>3. CASE WorkerCrash(w)
  BY <1>0, <1>3 DEF WorkerCrash, Crash, EndRun, Idle
<1>4. ASSUME NEW outcome, Return(w, outcome) PROVE Stay
  BY <1>0, <1>4, RunEnds DEF Return, ProcessReturns, RunBecomes
<1>5. ASSUME NEW p \in RunPlaces, RunBecomes(w, p), UNCHANGED inboxVars PROVE Stay
  BY <1>5 DEF RunBecomes, inboxVars
<1>6. ASSUME NEW p \in RunPlaces, run' = [run EXCEPT ![w].at = p], UNCHANGED inboxVars
      PROVE  Stay
  BY <1>0, <1>5, <1>6, RunMoves
<1>7. {"fission", "action", "sending", "sealing", "welcome"} \subseteq RunPlaces
  BY DEF RunPlaces
<1>8. ASSUME NEW err \in BOOLEAN, NextAction(w, err), UNCHANGED inboxVars PROVE Stay
  BY <1>0, <1>5, <1>7, <1>8, RunAtNextAction
<1>9. CASE SendLost(w)
  <2>1. CASE Crash(w) /\ EndRun(w)
    BY <1>0, <2>1, RunEnds DEF Crash, Idle, RunBecomes
  <2> QED
    BY <1>8, <1>9, <2>1 DEF SendLost
<1> HIDE DEF Stay
<1>10. CASE SyncContact(w)
  <2>1. RunBecomes(w, "fission")
    BY <1>0, <1>10, RunAtFission
  <2>2. UNCHANGED inboxVars
    BY <1>10, Zenon DEF SyncContact
  <2> QED
    BY <1>5, <1>7, <2>1, <2>2
<1>11. CASE CountInvitation(w) \/ SkipInvitation(w)
  <2>1. \/ ActionsBegin(w, DueActions(w))
        \/ run' = [run EXCEPT ![w].at = "welcome"]
    BY <1>11, Zenon DEF CountInvitation, SkipInvitation, ActionsBegin
  <2>2. UNCHANGED inboxVars
    BY <1>11, Zenon DEF CountInvitation, SkipInvitation
  <2>3. CASE ActionsBegin(w, DueActions(w))
    <3>1. RunBecomes(w, "action")
      BY <1>0, <2>3, DueIsActions, RunAtFirstAction, Zenon
    <3> QED
      BY <1>5, <1>7, <2>2, <3>1
  <2> QED
    BY <1>6, <1>7, <2>1, <2>2, <2>3, Zenon
<1>12. CASE BeginSideEffect(w) \/ SendAccepted(w)
  <2>1. /\ UNCHANGED inboxVars
        /\ \/ run' = [run EXCEPT ![w].at = "sending"]
           \/ run' = [run EXCEPT ![w].at = "sealing"]
    BY <1>12, Zenon DEF BeginSideEffect, SendAccepted
  <2> QED
    BY <1>6, <1>7, <2>1
<1>13. CASE PassOver(w) \/ SkipSideEffect(w) \/ SendRefused(w) \/ SealSideEffect(w) \/ SealFails(w)
  <2>1. UNCHANGED inboxVars /\ \E err \in BOOLEAN : NextAction(w, err)
    BY <1>13, Zenon DEF PassOver, SkipSideEffect, SendRefused, SealSideEffect, SealFails
  <2> QED
    BY <1>8, <2>1
<1>14. CASE FinishActions(w)
  <2>1. \/ Return(w, "failed")
        \/ run' = [run EXCEPT ![w].at = "welcome"] /\ UNCHANGED inboxVars
    BY <1>14, Zenon DEF FinishActions
  <2> QED
    BY <1>4, <1>6, <1>7, <2>1
<1>15. CASE ProcessStep(w)
  BY <1>4, <1>9, <1>10, <1>11, <1>12, <1>13, <1>14, <1>15, Zenon
  DEF ProcessStep, IgnoreEvent, SyncFails, RejectChangedIntent, EnqueueWelcome
<1> QED
  BY <1>1, <1>2, <1>3, <1>15 DEF Stay

LEMMA RunsNext == EffectState /\ [Next]_vars => RunsAreClaimed'
<1> SUFFICES ASSUME EffectState, [Next]_vars, NEW v \in Workers
             PROVE  /\ run'[v].at # "none" => worker'[v].pc = "processing"
                    /\ run'[v].at \in {"sending", "sealing"} => run'[v].k \in Actions
  BY DEF RunsAreClaimed
<1> DEFINE Good == /\ run'[v].at # "none" => worker'[v].pc = "processing"
                   /\ run'[v].at \in {"sending", "sealing"} => run'[v].k \in Actions
<1> SUFFICES Good
  OBVIOUS
<1>0. /\ run \in [Workers -> RunState] /\ worker \in [Workers -> WorkerState]
      /\ run[v].at # "none" => worker[v].pc = "processing"
      /\ run[v].at \in {"sending", "sealing"} => run[v].k \in Actions
  BY DEF InboxTypeOK, EffectTypeOK, RunsAreClaimed, EffectState
<1>1. run'[v] = run[v] /\ (run[v].at = "none" \/ worker'[v].pc = worker[v].pc) => Good
  BY <1>0
<1>2. run'[v] = NotRunning => Good
  BY DEF NotRunning
<1>3. CASE InboxStep(v)
  BY <1>0, <1>1, <1>3 DEF InboxStep, effectVars, Claim, Complete, Fail, Defer
<1>4. CASE StartProcess(v)
  BY <1>0, <1>4 DEF StartProcess, Validate
<1>5. ASSUME EndRun(v) PROVE Good
  BY <1>0, <1>2, <1>5 DEF EndRun
<1>6. ASSUME NEW err \in BOOLEAN, NextAction(v, err), run[v].at # "none", UNCHANGED inboxVars
      PROVE  Good
  BY <1>0, <1>6, RunAtNextAction DEF inboxVars, RunBecomes
<1>7. CASE ProcessStep(v)
  <2>0. run[v].at # "none" => worker[v].pc = "processing"
    BY <1>0
  <2>a. {"fission", "action", "sending", "sealing", "welcome"} \subseteq RunPlaces
    BY DEF RunPlaces
  <2>b. ASSUME NEW p \in RunPlaces \ {"sending", "sealing"}, RunBecomes(v, p),
               run[v].at # "none", UNCHANGED inboxVars
        PROVE  Good
    BY <2>0, <2>b DEF RunBecomes, inboxVars
  <2>1. CASE SyncContact(v)
    <3>1. RunBecomes(v, "fission")
      BY <1>0, <2>1, RunAtFission
    <3>2. UNCHANGED inboxVars /\ run[v].at = "contact"
      BY <2>1, Zenon DEF SyncContact
    <3> QED
      BY <2>a, <2>b, <3>1, <3>2
  <2>2. CASE CountInvitation(v) \/ SkipInvitation(v)
    <3>1. \/ ActionsBegin(v, DueActions(v))
          \/ run' = [run EXCEPT ![v].at = "welcome"]
      BY <2>2, Zenon DEF CountInvitation, SkipInvitation, ActionsBegin
    <3>2. UNCHANGED inboxVars /\ run[v].at # "none"
      BY <2>2 DEF CountInvitation, SkipInvitation
    <3> QED
      BY <1>0, <2>a, <2>b, <3>1, <3>2, DueIsActions, RunAtFirstAction, RunMoves
  <2>3. CASE BeginSideEffect(v)
    <3>1. run[v].at = "action" /\ run[v].k \in Actions
      BY <1>0, <2>3 DEF BeginSideEffect, AtAction, RunState
    <3> QED
      BY <1>0, <2>3, <2>a, <3>1, RunMoves DEF BeginSideEffect, inboxVars, RunBecomes
  <2>4. CASE PassOver(v) \/ SkipSideEffect(v) \/ SendLost(v) \/ SendRefused(v)
             \/ SealSideEffect(v) \/ SealFails(v)
    BY <1>5, <1>6, <2>4, Zenon
    DEF PassOver, SkipSideEffect, SendLost, SendRefused, SealSideEffect, SealFails, AtAction
  <2>5. CASE SendAccepted(v)
    BY <1>0, <2>5, <2>a, RunMoves DEF SendAccepted, inboxVars, RunBecomes
  <2>6. CASE FinishActions(v)
    <3>1. CASE EndRun(v)
      BY <1>5, <3>1
    <3>2. CASE run' = [run EXCEPT ![v].at = "welcome"] /\ UNCHANGED inboxVars
      BY <1>0, <2>6, <2>a, <2>b, <3>2, RunMoves DEF FinishActions
    <3> QED
      BY <2>6, <3>1, <3>2 DEF FinishActions, Return
  <2> HIDE DEF Good
  <2> QED
    BY <1>5, <1>7, <2>1, <2>2, <2>3, <2>4, <2>5, <2>6, Zenon
    DEF ProcessStep, IgnoreEvent, SyncFails, RejectChangedIntent, EnqueueWelcome, Return
<1>8. CASE WorkerCrash(v)
  BY <1>5, <1>8 DEF WorkerCrash
<1>9. ASSUME NEW w \in Workers, w # v,
             InboxStep(w) \/ StartProcess(w) \/ ProcessStep(w) \/ WorkerCrash(w)
      PROVE  Good
  BY <1>1, <1>9, OthersStay
<1>10. CASE PassTime
  <2>1. run'[v] = run[v]
    BY <1>10, Zenon DEF PassTime
  <2>2. worker'[v].pc = worker[v].pc
    <3>1. Elapse /\ InboxTypeOK
      BY <1>10, Zenon DEF PassTime, EffectState
    <3> QED
      BY <3>1, ElapseFacts, Zenon
  <2> QED
    BY <1>1, <2>1, <2>2
<1>11. CASE run' = run /\ worker' = worker
  BY <1>0, <1>11
<1> HIDE DEF Good
<1>12. CASE Deliveries \/ ChangeActivity \/ UNCHANGED vars
  BY <1>11, <1>12, Zenon
  DEF Deliveries, Deliver, ChangeActivity, vars, inboxVars, effectVars
<1>13. ASSUME NEW r, NEW e, NEW a, Inspect(r, e, a) \/ LateAccept(e, a) PROVE Good
  BY <1>11, <1>13, Zenon DEF Inspect, LateAccept, inboxVars
<1>14. ASSUME NEW r \in Requests, Reconcile(r) PROVE Good
  BY <1>11, <1>14, Zenon DEF Reconcile, Revive, inboxVars
<1> QED
  BY <1>3, <1>4, <1>7, <1>8, <1>9, <1>10, <1>12, <1>13, <1>14, Zenon DEF Next

--------------------------------------------------------------------------------
(* The composition implements the inbox *)

\* When no timer of the inbox runs, the passing of time leaves it as it is.
LEMMA ElapseStutters == InboxTypeOK /\ Elapse /\ ~InboxTimersRun => UNCHANGED inboxVars
<1> SUFFICES ASSUME InboxTypeOK, Elapse, ~InboxTimersRun PROVE UNCHANGED inboxVars
  OBVIOUS
<1>1. ASSUME NEW r \in Row, r.lease = 0, r.wait = 0
      PROVE  [r EXCEPT !.lease = Dec(@), !.wait = Dec(@)] = r
  <2>1. Dec(r.lease) = r.lease /\ Dec(r.wait) = r.wait
    BY <1>1 DEF Dec
  <2> QED
    BY <2>1, Zenon DEF Row
<1>2. ASSUME NEW s \in WorkerState, s.ctx = 0
      PROVE  [s EXCEPT !.ctx = Dec(@)] = s
  <2>1. Dec(s.ctx) = s.ctx
    BY <1>2 DEF Dec
  <2> QED
    BY <2>1, Zenon DEF WorkerState
<1>3. ASSUME NEW e \in Events PROVE row[e] \in Row /\ row[e].lease = 0 /\ row[e].wait = 0
  <2>1. row[e] \in Row /\ row[e].lease \in Nat /\ row[e].wait \in Nat
    BY DEF InboxTypeOK, Row
  <2> QED
    BY <2>1 DEF InboxTimersRun
<1>4. \A w \in Workers : worker[w] \in WorkerState /\ worker[w].ctx = 0
  BY DEF InboxTypeOK, InboxTimersRun, WorkerState
<1>5. row' = row
  <2>1. row' = [e \in Events |-> [row[e] EXCEPT !.lease = Dec(@), !.wait = Dec(@)]]
    BY Zenon DEF Elapse
  <2>2. \A e \in Events : [row[e] EXCEPT !.lease = Dec(@), !.wait = Dec(@)] = row[e]
    BY <1>1, <1>3, Zenon
  <2>3. row' = [e \in Events |-> row[e]]
    BY <2>1, <2>2, Zenon
  <2> QED
    BY <2>3 DEF InboxTypeOK
<1>6. worker' = worker
  <2>1. worker' = [w \in Workers |-> [worker[w] EXCEPT !.ctx = Dec(@)]]
    BY Zenon DEF Elapse
  <2>2. \A w \in Workers : [worker[w] EXCEPT !.ctx = Dec(@)] = worker[w]
    BY <1>2, <1>4, Zenon
  <2>3. worker' = [w \in Workers |-> worker[w]]
    BY <2>1, <2>2, Zenon
  <2> QED
    BY <2>3 DEF InboxTypeOK
<1> QED
  BY <1>5, <1>6, Zenon DEF Elapse, inboxVars

\* Every step of the worker, the operator and WeCom is a step of the inbox or
\* leaves it alone.
LEMMA InboxSimulation == EffectState /\ [Next]_vars => [InboxNext]_inboxVars
<1> SUFFICES ASSUME EffectState, [Next]_vars PROVE [InboxNext]_inboxVars
  OBVIOUS
<1> USE DEF EffectState
<1>1. ASSUME Deliveries PROVE InboxNext
  BY <1>1 DEF Deliveries, InboxNext
<1>2. ASSUME NEW w \in Workers, InboxStep(w) \/ StartProcess(w) \/ WorkerCrash(w)
      PROVE  InboxNext
  BY <1>2 DEF InboxStep, StartProcess, WorkerCrash, InboxNext, WorkerStep
<1>3. ASSUME NEW w \in Workers, ProcessStep(w) PROVE [InboxNext]_inboxVars
  <2>1. ASSUME NEW outcome \in Outcomes, Return(w, outcome) PROVE InboxNext
    BY <2>1 DEF Return, InboxNext, WorkerStep
  <2>2. CASE Crash(w)
    BY <2>2 DEF InboxNext
  <2>3. \/ UNCHANGED inboxVars
        \/ Crash(w)
        \/ \E outcome \in Outcomes : Return(w, outcome)
    BY <1>3, Zenon
    DEF ProcessStep, SyncContact, IgnoreEvent, SyncFails, CountInvitation,
        SkipInvitation, RejectChangedIntent, PassOver, BeginSideEffect, SkipSideEffect,
        SendAccepted, SendLost, SendRefused, SealSideEffect, SealFails,
        FinishActions, EnqueueWelcome, Outcomes
  <2> QED
    BY <2>1, <2>2, <2>3
<1>4. ASSUME NEW r \in Requests, Reconcile(r) PROVE [InboxNext]_inboxVars
  <2>1. cmd[r].event \in Events
    BY <1>4 DEF Reconcile, Reserved, EffectTypeOK, Command
  <2> QED
    BY <1>4, <2>1 DEF Reconcile, InboxNext
<1>5. ASSUME PassTime PROVE [InboxNext]_inboxVars
  BY <1>5, ElapseStutters DEF PassTime, InboxNext, Tick
<1> QED
  BY <1>1, <1>2, <1>3, <1>4, <1>5
  DEF Next, Inspect, LateAccept, ChangeActivity, vars

--------------------------------------------------------------------------------
(* Type correctness and refinement *)

LEMMA EffectsTyped == Spec => []EffectState
<1>1. Init => EffectState
  BY InboxTypeInit, EffectTypeInit, RunsInit DEF Init, EffectState
<1>2. EffectState /\ [Next]_vars => EffectState'
  BY InboxSimulation, InboxTypeNext, EffectTypeNext, RunsNext DEF EffectState
<1> QED
  BY <1>1, <1>2, PTL DEF Spec

\* Type correctness of the ledger, of the runs inside Process and of what WeCom
\* has seen.
THEOREM EffectsTypeCorrect == Spec => []EffectTypeOK
<1>1. EffectState => EffectTypeOK
  BY DEF EffectState
<1> QED
  BY <1>1, EffectsTyped, PTL

\* Refinement: the worker's processing of the contact event, the operator's
\* reconciliation and WeCom drive the inbox only through its own steps.
THEOREM EffectsImplementInbox == Spec => ImplementsInbox
<1>1. Init => InboxInit
  BY DEF Init
<1>2. EffectState /\ [Next]_vars => [InboxNext]_inboxVars
  BY InboxSimulation
<1> QED
  BY <1>1, <1>2, EffectsTyped, PTL DEF Spec, ImplementsInbox, InboxSpec

--------------------------------------------------------------------------------
(* The ledger invariant *)

\* w may still send message a of event e: it marked the intent unknown and its
\* processing context is not over.
Live(w, e, a) ==
    /\ run[w].at = "sending" /\ worker[w].ctx > 0
    /\ worker[w].event = e /\ run[w].k = a

Sealing(w, e, a) ==
    run[w].at = "sealing" /\ worker[w].event = e /\ run[w].k = a

\* What the ledger says of message a of event e, WeCom agrees with.
EntryAgrees(e, a) ==
    LET i == intent[e][a] IN
    /\ i.status = "none" => i.version = 1
    /\ i.status \in {"none", "pending"} => provider[e][a] = 0
    /\ i.status = "sent" => provider[e][a] = 1
    /\ provider[e][a] <= 1

\* At most one request for the message can still be accepted, and only while the
\* intent is unknown, in quarantine, and WeCom has not accepted it.
OneRequest(e, a) ==
    LET i == intent[e][a] IN
    /\ flight[e][a] <= i.quar
    /\ i.status # "unknown" \/ provider[e][a] = 1 => flight[e][a] = 0
    /\ \A w \in Workers : Live(w, e, a) =>
          /\ i.status = "unknown" /\ provider[e][a] = 0 /\ flight[e][a] = 0
          /\ worker[w].ctx + RequestLife <= i.quar
          /\ \A v \in Workers : Live(v, e, a) => v = w
    /\ \A w \in Workers : Sealing(w, e, a) => provider[e][a] = 1

\* The evidence of an operator's command stays true while the command can still
\* be applied.
EvidenceHolds(e, a) ==
    \A r \in Requests :
        LET c == cmd[r]
            i == intent[e][a] IN
        c # NoCommand /\ c.event = e /\ c.action = a =>
            /\ c.version <= i.version
            /\ c.version = i.version /\ i.status = "unknown" =>
                  /\ i.quar = 0
                  /\ c.decision = "confirm_sent" <=> provider[e][a] = 1

EntryOK(e, a) == EntryAgrees(e, a) /\ OneRequest(e, a) /\ EvidenceHolds(e, a)

LedgerInv ==
    /\ \A w \in Workers : worker[w].ctx <= ProcessingTimeout
    /\ \A e \in Events, a \in Actions : EntryOK(e, a)

LEMMA EntryTypes ==
  ASSUME EffectState, NEW e \in Events, NEW a \in Actions
  PROVE  /\ intent[e][a] \in Intent
         /\ intent[e][a].status \in {"none", "pending", "unknown", "sent"}
         /\ intent[e][a].version \in Nat /\ intent[e][a].quar \in Nat
         /\ provider[e][a] \in Nat /\ flight[e][a] \in Nat
<1>1. intent[e][a] \in Intent /\ provider[e][a] \in Nat /\ flight[e][a] \in Nat
  BY DEF EffectState, EffectTypeOK
<1> QED
  BY <1>1 DEF Intent

LEMMA WorkerTypes ==
  ASSUME EffectState, NEW w \in Workers
  PROVE  /\ worker[w] \in WorkerState /\ worker[w].event \in Events
         /\ worker[w].ctx \in Nat /\ worker[w].fence \in Nat
         /\ run[w] \in RunState /\ run[w].k \in Nat
<1>1. worker[w] \in WorkerState /\ run[w] \in RunState
  BY DEF EffectState, EffectTypeOK, InboxTypeOK
<1> QED
  BY <1>1 DEF WorkerState, RunState

LEMMA DueTypes ==
  ASSUME EffectState, NEW w \in Workers
  PROVE  run[w].due \subseteq Actions
  BY WorkerTypes DEF RunState

LEMMA LedgerInit == Init => LedgerInv
<1> SUFFICES ASSUME Init PROVE LedgerInv
  OBVIOUS
<1>1. \A w \in Workers : worker[w].ctx = 0 /\ run[w].at = "none"
  BY DEF Init, InboxInit, EffectInit, NoClaim, NotRunning
<1>2. \A e \in Events, a \in Actions :
        /\ intent[e][a].status = "none" /\ intent[e][a].version = 1
        /\ intent[e][a].quar = 0 /\ provider[e][a] = 0 /\ flight[e][a] = 0
  BY DEF Init, EffectInit
<1>3. \A r \in Requests : cmd[r] = NoCommand
  BY DEF Init, EffectInit
<1> QED
  BY <1>1, <1>2, <1>3, InboxConstants
  DEF LedgerInv, EntryOK, EntryAgrees, OneRequest, EvidenceHolds, Live, Sealing

\* A processing context never exceeds the processing timeout.
LEMMA ContextsNext ==
  ASSUME InboxTypeOK, [InboxNext]_inboxVars,
         \A w \in Workers : worker[w].ctx <= ProcessingTimeout
  PROVE  \A w \in Workers : worker'[w].ctx <= ProcessingTimeout
<1> SUFFICES ASSUME NEW v \in Workers PROVE worker'[v].ctx <= ProcessingTimeout
  OBVIOUS
<1>0. /\ worker \in [Workers -> WorkerState] /\ worker[v].ctx \in Nat
      /\ NoClaim.ctx <= ProcessingTimeout /\ ProcessingTimeout \in Nat
      /\ worker[v].ctx <= ProcessingTimeout
  BY InboxConstants DEF InboxTypeOK, WorkerState, NoClaim
<1>1. ASSUME NEW w \in Workers, worker' = Idle(w) PROVE worker'[v].ctx <= ProcessingTimeout
  BY <1>0, <1>1 DEF Idle
<1>2. ASSUME NEW w \in Workers, Claim(w) PROVE worker'[v].ctx <= ProcessingTimeout
  <2>1. worker' = worker \/ \E e \in Events : worker' = [worker EXCEPT ![w] = ClaimOf(e, Leased(row[e]))]
    BY <1>2, Zenon DEF Claim, Claimable
  <2>2. \A e : ClaimOf(e, Leased(row[e])).ctx = 0
    BY DEF ClaimOf
  <2> HIDE DEF ClaimOf
  <2> QED
    BY <1>0, <2>1, <2>2
<1>3. ASSUME NEW w \in Workers, Validate(w) PROVE worker'[v].ctx <= ProcessingTimeout
  <2>1. CASE worker' = [worker EXCEPT ![w].pc = "processing", ![w].ctx = ProcessingTimeout]
    BY <1>0, <2>1 DEF WorkerState
  <2> QED
    BY <1>1, <1>3, <2>1, Zenon DEF Validate
<1>4. ASSUME NEW w \in Workers, NEW outcome \in Outcomes, ProcessReturns(w, outcome)
      PROVE  worker'[v].ctx <= ProcessingTimeout
  <2>1. worker' = [worker EXCEPT ![w].pc = outcome, ![w].ctx = 0]
    BY <1>4, Zenon DEF ProcessReturns
  <2> QED
    BY <1>0, <2>1 DEF WorkerState
<1>5. ASSUME NEW w \in Workers, Complete(w) \/ Fail(w) \/ Defer(w) \/ Crash(w)
      PROVE  worker'[v].ctx <= ProcessingTimeout
  BY <1>1, <1>5, Zenon DEF Complete, Fail, Defer, Crash
<1>6. CASE Elapse
  <2>1. worker'[v].ctx = Dec(worker[v].ctx)
    BY <1>6, ElapseFacts, Zenon
  <2> QED
    BY <1>0, <2>1 DEF Dec
<1>7. CASE worker' = worker
  BY <1>0, <1>7
<1> QED
  BY <1>2, <1>3, <1>4, <1>5, <1>6, <1>7, Zenon
  DEF InboxNext, WorkerStep, Deliver, Revive, Tick, inboxVars

\* A step that leaves an entry, its commands and the workers near it alone.
SameEntry(e, a) ==
    /\ intent'[e][a] = intent[e][a]
    /\ provider'[e][a] = provider[e][a] /\ flight'[e][a] = flight[e][a]

NobodyArrives(e, a) ==
    \A w \in Workers :
        /\ Live(w, e, a)' => Live(w, e, a) /\ worker'[w].ctx = worker[w].ctx
        /\ Sealing(w, e, a)' => Sealing(w, e, a)

LEMMA EntryStays ==
  ASSUME NEW e \in Events, NEW a \in Actions,
         EntryOK(e, a), SameEntry(e, a), NobodyArrives(e, a), UNCHANGED cmd
  PROVE  EntryOK(e, a)'
<1>1. EntryAgrees(e, a)'
  BY DEF EntryOK, EntryAgrees, SameEntry
<1>2. OneRequest(e, a)'
  BY DEF EntryOK, OneRequest, SameEntry, NobodyArrives
<1>3. EvidenceHolds(e, a)'
  BY DEF EntryOK, EvidenceHolds, SameEntry
<1> QED
  BY <1>1, <1>2, <1>3 DEF EntryOK

\* A worker that leaves Process, or stands neither before nor after a send, is
\* not near any entry.
LEMMA WorkerLeaves ==
  ASSUME NEW w \in Workers, NEW e \in Events, NEW a \in Actions,
         \A v \in Workers : v # w => run'[v] = run[v] /\ worker'[v] = worker[v],
         run'[w].at \notin {"sending", "sealing"}
  PROVE  NobodyArrives(e, a)
  BY DEF NobodyArrives, Live, Sealing

\* One entry of the ledger is stamped, the others stay.
EntryBecomes(d, b, s, q) ==
    intent' = [intent EXCEPT ![d][b] = Stamped(intent[d][b], s, q)]

EntriesStay(d, b) ==
    \A e \in Events, a \in Actions :
        e # d \/ a # b => intent'[e][a] = intent[e][a]

LEMMA EntryWrite ==
  ASSUME EffectState, NEW d \in Events, NEW b \in Actions,
         NEW s \in LedgerStatus, NEW q \in Nat, EntryBecomes(d, b, s, q)
  PROVE  StampOf(intent'[d][b], intent[d][b], s, q) /\ EntriesStay(d, b)
<1>0. PICK i : i = Stamped(intent[d][b], s, q)
  OBVIOUS
<1>1. StampOf(i, intent[d][b], s, q)
  <2>1. intent[d][b] \in Intent
    BY EntryTypes
  <2> QED
    BY <1>0, <2>1, StampedRow, Zenon
<1>2. intent \in [Events -> [Actions -> Intent]] /\ intent' = [intent EXCEPT ![d][b] = i]
  BY <1>0 DEF EffectState, EffectTypeOK, EntryBecomes
<1>3. i \in Intent
  BY <1>1 DEF StampOf
<1>4. intent'[d][b] = i /\ EntriesStay(d, b)
  BY <1>2, <1>3, TableWrite DEF EntriesStay
<1> QED
  BY <1>1, <1>4

\* One entry of a table of counts is written, the others stay.
LEMMA CountWrite ==
  ASSUME NEW f \in [Events -> [Actions -> Nat]], NEW g, NEW n \in Nat,
         NEW d \in Events, NEW b \in Actions, g = [f EXCEPT ![d][b] = n]
  PROVE  /\ g[d][b] = n
         /\ \A e \in Events, a \in Actions : e # d \/ a # b => g[e][a] = f[e][a]
  BY TableWrite

\* A stamp invalidates every command that was prepared for the entry before.
LEMMA CommandsAreOlder ==
  ASSUME EffectState, NEW d \in Events, NEW b \in Actions, EntryOK(d, b),
         intent'[d][b].version = intent[d][b].version + 1, UNCHANGED cmd
  PROVE  EvidenceHolds(d, b)'
<1>1. intent[d][b].version \in Nat
  BY EntryTypes
<1>2. \A r \in Requests : cmd[r] # NoCommand /\ cmd[r].event = d /\ cmd[r].action = b
        => cmd[r].version \in Nat /\ cmd[r].version <= intent[d][b].version
  BY DEF EntryOK, EvidenceHolds, EffectState, EffectTypeOK, Command
<1> QED
  BY <1>1, <1>2 DEF EvidenceHolds

LEMMA BeginKeepsLedger ==
  ASSUME EffectState, LedgerInv, NEW w \in Workers, BeginSideEffect(w),
         NEW e \in Events, NEW a \in Actions
  PROVE  EntryOK(e, a)'
<1>a. PICK d \in Events : d = worker[w].event
  BY WorkerTypes
<1>b. PICK b \in Actions : b = run[w].k
  BY DueTypes DEF BeginSideEffect, AtAction
<1>1. /\ worker[w].ctx > 0 /\ intent[d][b].status = "pending"
      /\ run' = [run EXCEPT ![w].at = "sending"]
      /\ UNCHANGED <<worker, provider, flight, cmd>>
  BY <1>a, <1>b, Zenon DEF BeginSideEffect, AtAction, inboxVars, externalVars, operatorVars
<1>2. EntryBecomes(d, b, "unknown", Quarantine)
  BY <1>a, <1>b, Zenon DEF BeginSideEffect, EntryBecomes
<1>3. /\ RunBecomes(w, "sending") /\ run'[w].k = b
  BY <1>1, <1>b, RunMoves DEF RunPlaces, EffectState, EffectTypeOK
<1>4. worker[w].ctx \in Nat /\ worker[w].ctx <= ProcessingTimeout
  BY WorkerTypes DEF LedgerInv
<1>5. /\ intent'[d][b].status = "unknown" /\ intent'[d][b].quar = Quarantine
      /\ intent'[d][b].version = intent[d][b].version + 1
      /\ e # d \/ a # b => intent'[e][a] = intent[e][a]
  <2>1. "unknown" \in LedgerStatus /\ Quarantine \in Nat
    BY SideEffectConstants DEF LedgerStatus
  <2>2. StampOf(intent'[d][b], intent[d][b], "unknown", Quarantine) /\ EntriesStay(d, b)
    BY <1>2, <2>1, EntryWrite, Zenon
  <2> QED
    BY <2>2 DEF StampOf, EntriesStay
<1>6. EntryOK(e, a) /\ EntryOK(d, b)
  BY DEF LedgerInv
<1>7. CASE e # d \/ a # b
  <2>1. NobodyArrives(e, a)
    BY <1>1, <1>3, <1>7, <1>a, <1>b DEF NobodyArrives, Live, Sealing, RunBecomes
  <2> QED
    BY <1>1, <1>5, <1>6, <1>7, <2>1, EntryStays DEF SameEntry
<1>8. CASE e = d /\ a = b
  <2>1. provider[d][b] = 0 /\ flight[d][b] = 0
    BY <1>1, <1>6 DEF EntryOK, EntryAgrees, OneRequest
  <2>2. \A v \in Workers : ~Live(v, d, b) /\ ~Sealing(v, d, b)
    BY <1>1, <1>6, <2>1 DEF EntryOK, OneRequest
  <2>3. \A v \in Workers : Live(v, d, b)' => v = w
    BY <1>1, <1>3, <2>2 DEF Live, RunBecomes
  <2>4. \A v \in Workers : ~Sealing(v, d, b)'
    BY <1>1, <1>3, <2>2 DEF Sealing, RunBecomes
  <2>5. worker[w].ctx + RequestLife <= Quarantine /\ Quarantine \in Nat
    BY <1>4, SideEffectConstants, InboxConstants
  <2>6. EntryAgrees(d, b)'
    BY <1>1, <1>5, <2>1 DEF EntryAgrees
  <2>7. OneRequest(d, b)'
    BY <1>1, <1>5, <2>1, <2>3, <2>4, <2>5 DEF OneRequest
  <2>8. EvidenceHolds(d, b)'
    BY <1>1, <1>5, <1>6, CommandsAreOlder
  <2> QED
    BY <1>8, <2>6, <2>7, <2>8 DEF EntryOK
<1> QED
  BY <1>7, <1>8

LEMMA AcceptKeepsLedger ==
  ASSUME EffectState, LedgerInv, NEW w \in Workers, SendAccepted(w),
         NEW e \in Events, NEW a \in Actions
  PROVE  EntryOK(e, a)'
<1>a. PICK d \in Events : d = worker[w].event
  BY WorkerTypes
<1>b. PICK b \in Actions : b = run[w].k
  BY Zenon DEF SendAccepted, EffectState, RunsAreClaimed
<1>1. /\ Live(w, d, b)
      /\ run' = [run EXCEPT ![w].at = "sealing"]
      /\ UNCHANGED <<worker, intent, flight, cmd>>
  BY <1>a, <1>b, Zenon DEF SendAccepted, Live, inboxVars, operatorVars
<1>2. RunBecomes(w, "sealing") /\ run'[w].k = b
  BY <1>1, <1>b, RunMoves DEF RunPlaces, EffectState, EffectTypeOK
<1>3. EntryOK(e, a) /\ EntryOK(d, b)
  BY DEF LedgerInv
<1>4. /\ intent[d][b].status = "unknown" /\ provider[d][b] = 0 /\ flight[d][b] = 0
      /\ intent[d][b].quar > 0
      /\ \A v \in Workers : Live(v, d, b) => v = w
  <2>1. /\ worker[w].ctx \in Nat /\ worker[w].ctx > 0
        /\ RequestLife \in Nat /\ intent[d][b].quar \in Nat
    BY <1>1, WorkerTypes, EntryTypes, SideEffectConstants DEF Live
  <2> QED
    BY <1>1, <1>3, <2>1 DEF EntryOK, OneRequest
<1>5. provider'[d][b] = 1 /\ (e # d \/ a # b => provider'[e][a] = provider[e][a])
  <2>1. provider' = [provider EXCEPT ![d][b] = provider[d][b] + 1]
    BY <1>a, <1>b DEF SendAccepted
  <2> QED
    BY <1>4, <2>1, CountWrite DEF EffectState, EffectTypeOK
<1>6. CASE e # d \/ a # b
  <2>1. NobodyArrives(e, a)
    BY <1>1, <1>2, <1>6, <1>a, <1>b DEF NobodyArrives, Live, Sealing, RunBecomes
  <2> QED
    BY <1>1, <1>3, <1>5, <1>6, <2>1, EntryStays DEF SameEntry
<1>7. CASE e = d /\ a = b
  <2>1. \A v \in Workers : ~Live(v, d, b)'
    BY <1>1, <1>2, <1>4 DEF Live, RunBecomes
  <2>2. EntryAgrees(d, b)'
    BY <1>1, <1>4, <1>5 DEF EntryAgrees
  <2>3. OneRequest(d, b)'
    BY <1>1, <1>3, <1>4, <1>5, <2>1 DEF EntryOK, OneRequest
  <2>4. EvidenceHolds(d, b)'
    BY <1>1, <1>3, <1>4 DEF EntryOK, EvidenceHolds
  <2> QED
    BY <1>7, <2>2, <2>3, <2>4 DEF EntryOK
<1> QED
  BY <1>6, <1>7

LEMMA LossKeepsLedger ==
  ASSUME EffectState, LedgerInv, NEW w \in Workers, SendLost(w),
         NEW e \in Events, NEW a \in Actions
  PROVE  EntryOK(e, a)'
<1>a. PICK d \in Events : d = worker[w].event
  BY WorkerTypes
<1>b. PICK b \in Actions : b = run[w].k
  BY Zenon DEF SendLost, EffectState, RunsAreClaimed
<1>1. Live(w, d, b) /\ UNCHANGED <<intent, provider, cmd>>
  BY <1>a, <1>b, Zenon DEF SendLost, Live, operatorVars
<1>2. /\ run'[w].at \in {"action", "none"}
      /\ \A v \in Workers : v # w => run'[v] = run[v] /\ worker'[v] = worker[v]
  <2>1. run \in [Workers -> RunState]
    BY DEF EffectState, EffectTypeOK
  <2>2. NextAction(w, TRUE) \/ EndRun(w)
    BY Zenon DEF SendLost
  <2>3. run'[w].at \in {"action", "none"}
    BY <2>1, <2>2, RunAtNextAction, RunEnds DEF RunBecomes
  <2>4. ProcessStep(w)
    BY DEF ProcessStep
  <2> QED
    BY <2>3, <2>4, OthersStay
<1>3. EntryOK(e, a) /\ EntryOK(d, b)
  BY DEF LedgerInv
<1>4. /\ intent[d][b].status = "unknown" /\ provider[d][b] = 0
      /\ RequestLife <= intent[d][b].quar
      /\ \A v \in Workers : Live(v, d, b) => v = w
  <2>1. /\ worker[w].ctx \in Nat /\ RequestLife \in Nat /\ intent[d][b].quar \in Nat
    BY <1>1, WorkerTypes, EntryTypes, SideEffectConstants DEF Live
  <2> QED
    BY <1>1, <1>3, <2>1 DEF EntryOK, OneRequest
<1>5. flight'[d][b] = RequestLife /\ (e # d \/ a # b => flight'[e][a] = flight[e][a])
  <2>1. flight' = [flight EXCEPT ![d][b] = RequestLife]
    BY <1>a, <1>b DEF SendLost
  <2> QED
    BY <2>1, CountWrite, SideEffectConstants DEF EffectState, EffectTypeOK
<1>6. CASE e # d \/ a # b
  <2>1. NobodyArrives(e, a)
    BY <1>2, WorkerLeaves
  <2> QED
    BY <1>1, <1>3, <1>5, <1>6, <2>1, EntryStays DEF SameEntry
<1>7. CASE e = d /\ a = b
  <2>1. \A v \in Workers : ~Live(v, d, b)' /\ ~Sealing(v, d, b)'
    BY <1>2, <1>3, <1>4 DEF Live, Sealing, EntryOK, OneRequest
  <2>2. EntryAgrees(d, b)' /\ EvidenceHolds(d, b)'
    BY <1>1, <1>3 DEF EntryOK, EntryAgrees, EvidenceHolds
  <2>3. OneRequest(d, b)'
    BY <1>1, <1>4, <1>5, <2>1 DEF OneRequest
  <2> QED
    BY <1>7, <2>2, <2>3 DEF EntryOK
<1> QED
  BY <1>6, <1>7

LEMMA SealKeepsLedger ==
  ASSUME EffectState, LedgerInv, NEW w \in Workers, SealSideEffect(w),
         NEW e \in Events, NEW a \in Actions
  PROVE  EntryOK(e, a)'
<1>a. PICK d \in Events : d = worker[w].event
  BY WorkerTypes
<1>b. PICK b \in Actions : b = run[w].k
  BY Zenon DEF SealSideEffect, EffectState, RunsAreClaimed
<1>1. Sealing(w, d, b) /\ UNCHANGED <<worker, provider, flight, cmd>>
  BY <1>a, <1>b, Zenon DEF SealSideEffect, Sealing, inboxVars, externalVars, operatorVars
<1>2. RunBecomes(w, "action")
  <2>1. \E lost \in BOOLEAN : NextAction(w, lost)
    BY Zenon DEF SealSideEffect
  <2> QED
    BY <2>1, RunAtNextAction DEF EffectState, EffectTypeOK
<1>3. EntryOK(e, a) /\ EntryOK(d, b)
  BY DEF LedgerInv
<1>4. NobodyArrives(e, a) /\ NobodyArrives(d, b)
  BY <1>1, <1>2, WorkerLeaves DEF RunBecomes
<1>5. CASE intent' = intent
  BY <1>1, <1>3, <1>4, <1>5, EntryStays DEF SameEntry
<1>6. CASE EntryBecomes(d, b, "sent", 0)
  <2>1. /\ intent'[d][b].status = "sent" /\ intent'[d][b].quar = 0
        /\ intent'[d][b].version = intent[d][b].version + 1
        /\ e # d \/ a # b => intent'[e][a] = intent[e][a]
    <3>1. "sent" \in LedgerStatus /\ 0 \in Nat
      BY DEF LedgerStatus
    <3>2. StampOf(intent'[d][b], intent[d][b], "sent", 0) /\ EntriesStay(d, b)
      BY <1>6, <3>1, EntryWrite, Zenon
    <3> QED
      BY <3>2 DEF StampOf, EntriesStay
  <2>2. CASE e # d \/ a # b
    BY <1>1, <1>3, <1>4, <2>1, <2>2, EntryStays DEF SameEntry
  <2>3. CASE e = d /\ a = b
    <3>1. provider[d][b] = 1 /\ flight[d][b] = 0 /\ \A v \in Workers : ~Live(v, d, b)
      BY <1>1, <1>3 DEF EntryOK, OneRequest
    <3>2. EntryAgrees(d, b)'
      BY <1>1, <2>1, <3>1 DEF EntryAgrees
    <3>3. OneRequest(d, b)'
      BY <1>1, <1>4, <2>1, <3>1 DEF OneRequest, NobodyArrives
    <3>4. EvidenceHolds(d, b)'
      BY <1>1, <1>3, <2>1, CommandsAreOlder
    <3> QED
      BY <2>3, <3>2, <3>3, <3>4 DEF EntryOK
  <2> QED
    BY <2>2, <2>3
<1> QED
  BY <1>5, <1>6, <1>a, <1>b, Zenon DEF SealSideEffect, EntryBecomes

\* Counting an invitation turns entries that are not there yet into pending ones.
Inserted(e, a) ==
    /\ intent[e][a].status = "none" /\ intent'[e][a].status = "pending"
    /\ intent'[e][a].version = 1 /\ intent'[e][a].quar = 0

LEMMA CountInserts ==
  ASSUME EffectState, NEW w \in Workers, CountInvitation(w),
         NEW e \in Events, NEW a \in Actions
  PROVE  intent'[e][a] = intent[e][a] \/ Inserted(e, a)
<1> DEFINE new(b) == [status |-> "pending", version |-> 1,
                      hash |-> activity.push[b], quar |-> 0]
<1>1. PICK d \in Events : d = worker[w].event
  BY WorkerTypes
<1>2. PICK D : D = DueActions(w)
  OBVIOUS
<1>3. intent' = [intent EXCEPT ![d] = [b \in Actions |->
                  IF b \in D /\ intent[d][b].status = "none"
                  THEN new(b) ELSE intent[d][b]]]
  BY <1>1, <1>2, Zenon DEF CountInvitation
<1>4. new(a).status = "pending" /\ new(a).version = 1 /\ new(a).quar = 0
  OBVIOUS
<1>5. intent \in [Events -> [Actions -> Intent]]
  BY DEF EffectState, EffectTypeOK
<1> HIDE DEF new
<1>6. CASE d # e
  BY <1>1, <1>3, <1>5, <1>6
<1>7. CASE d = e
  <2>1. intent'[e][a] = IF a \in D /\ intent[e][a].status = "none"
                        THEN new(a) ELSE intent[e][a]
    BY <1>1, <1>3, <1>5, <1>7
  <2> QED
    BY <1>4, <2>1 DEF Inserted
<1> QED
  BY <1>6, <1>7

LEMMA CountKeepsLedger ==
  ASSUME EffectState, LedgerInv, NEW w \in Workers, CountInvitation(w),
         NEW e \in Events, NEW a \in Actions
  PROVE  EntryOK(e, a)'
<1>1. UNCHANGED <<worker, provider, flight, cmd>>
  BY Zenon DEF CountInvitation, inboxVars, externalVars, operatorVars
<1>2. NobodyArrives(e, a)
  <2>1. run \in [Workers -> RunState]
    BY DEF EffectState, EffectTypeOK
  <2>2. ActionsBegin(w, DueActions(w))
    BY Zenon DEF CountInvitation, ActionsBegin
  <2>3. RunBecomes(w, "action")
    BY <2>1, <2>2, DueIsActions, RunAtFirstAction, Zenon
  <2> QED
    BY <1>1, <2>3, WorkerLeaves DEF RunBecomes
<1>3. EntryOK(e, a)
  BY DEF LedgerInv
<1>4. CASE intent'[e][a] = intent[e][a]
  BY <1>1, <1>2, <1>3, <1>4, EntryStays DEF SameEntry
<1>5. CASE Inserted(e, a)
  <2>1. provider[e][a] = 0 /\ flight[e][a] = 0 /\ intent[e][a].version = 1
    BY <1>3, <1>5 DEF Inserted, EntryOK, EntryAgrees, OneRequest
  <2>2. \A v \in Workers : ~Live(v, e, a)' /\ ~Sealing(v, e, a)'
    BY <1>2, <1>3, <1>5, <2>1 DEF Inserted, EntryOK, OneRequest, NobodyArrives
  <2>3. EntryAgrees(e, a)' /\ OneRequest(e, a)'
    BY <1>1, <1>5, <2>1, <2>2 DEF Inserted, EntryAgrees, OneRequest
  <2>4. EvidenceHolds(e, a)'
    BY <1>1, <1>3, <1>5, <2>1 DEF Inserted, EntryOK, EvidenceHolds
  <2> QED
    BY <2>3, <2>4 DEF EntryOK
<1> QED
  BY <1>4, <1>5, CountInserts

LEMMA InspectKeepsLedger ==
  ASSUME EffectState, LedgerInv,
         NEW r \in Requests, NEW d \in Events, NEW b \in Actions, Inspect(r, d, b),
         NEW e \in Events, NEW a \in Actions
  PROVE  EntryOK(e, a)'
<1>1. UNCHANGED <<worker, run, intent, provider, flight>>
  BY Zenon DEF Inspect, inboxVars, externalVars
<1>2. EntryOK(e, a)
  BY DEF LedgerInv
<1>3. EntryAgrees(e, a)' /\ OneRequest(e, a)'
  BY <1>1, <1>2 DEF EntryOK, EntryAgrees, OneRequest, Live, Sealing
<1>4. EvidenceHolds(e, a)'
  <2> DEFINE new == [event |-> d, action |-> b, version |-> intent[d][b].version,
                     fence |-> row[d].fence,
                     decision |-> IF provider[d][b] > 0 THEN "confirm_sent"
                                  ELSE "confirm_not_sent_and_retry"]
  <2>1. /\ new.event = d /\ new.action = b /\ new.version = intent[d][b].version
        /\ new.decision = "confirm_sent" <=> provider[d][b] > 0
    OBVIOUS
  <2>2. cmd' = [cmd EXCEPT ![r] = new] /\ intent[d][b].quar = 0
    BY DEF Inspect
  <2> HIDE DEF new
  <2>3. cmd'[r] = new /\ \A q \in Requests : q # r => cmd'[q] = cmd[q]
    BY <2>2 DEF EffectState, EffectTypeOK
  <2>4. /\ intent[d][b].version \in Nat /\ provider[d][b] \in Nat
        /\ provider[d][b] <= 1
    BY EntryTypes DEF LedgerInv, EntryOK, EntryAgrees
  <2>5. provider[d][b] > 0 <=> provider[d][b] = 1
    BY <2>4
  <2> QED
    BY <1>1, <1>2, <2>1, <2>2, <2>3, <2>4, <2>5 DEF EntryOK, EvidenceHolds
<1> QED
  BY <1>3, <1>4 DEF EntryOK

LEMMA ReconcileKeepsLedger ==
  ASSUME EffectState, LedgerInv, NEW r \in Requests, Reconcile(r),
         NEW e \in Events, NEW a \in Actions
  PROVE  EntryOK(e, a)'
<1>0. PICK c \in Command : c = cmd[r]
  BY DEF Reconcile, Reserved, EffectState, EffectTypeOK
<1>a. PICK d \in Events, b \in Actions, s \in {"sent", "pending"} :
        /\ d = c.event /\ b = c.action
        /\ s = IF c.decision = "confirm_sent" THEN "sent" ELSE "pending"
  BY DEF Command
<1>1. UNCHANGED <<worker, run, provider, flight, cmd>>
  BY Zenon DEF Reconcile, Revive, inboxVars, externalVars
<1>2. EntryBecomes(d, b, s, 0)
  BY <1>0, <1>a, Zenon DEF Reconcile, Decide, EntryBecomes
<1>3. /\ intent[d][b].status = "unknown" /\ intent[d][b].quar = 0
      /\ c.version = intent[d][b].version /\ cmd[r] # NoCommand
  BY <1>0, <1>a, Zenon DEF Reconcile, Reserved, ReconcileAllowed
<1>4. EntryOK(e, a) /\ EntryOK(d, b)
  BY DEF LedgerInv
<1>5. /\ intent'[d][b].status = s /\ intent'[d][b].quar = 0
      /\ intent'[d][b].version = intent[d][b].version + 1
      /\ e # d \/ a # b => intent'[e][a] = intent[e][a]
  <2>1. s \in LedgerStatus /\ 0 \in Nat
    BY DEF LedgerStatus
  <2>2. StampOf(intent'[d][b], intent[d][b], s, 0) /\ EntriesStay(d, b)
    BY <1>2, <2>1, EntryWrite, Zenon
  <2> QED
    BY <2>2 DEF StampOf, EntriesStay
<1>6. NobodyArrives(e, a) /\ NobodyArrives(d, b)
  BY <1>1 DEF NobodyArrives, Live, Sealing
<1>7. CASE e # d \/ a # b
  BY <1>1, <1>4, <1>5, <1>6, <1>7, EntryStays DEF SameEntry
<1>8. CASE e = d /\ a = b
  <2>1. provider[d][b] \in Nat /\ flight[d][b] \in Nat
    BY EntryTypes
  <2>2. /\ provider[d][b] = IF s = "sent" THEN 1 ELSE 0
        /\ flight[d][b] = 0
    <3>1. c.decision = "confirm_sent" <=> provider[d][b] = 1
      <4>1. EvidenceHolds(d, b)
        BY <1>4 DEF EntryOK
      <4>2. c # NoCommand /\ c.event = d /\ c.action = b
        BY <1>0, <1>3, <1>a
      <4> QED
        BY <1>0, <1>3, <4>1, <4>2 DEF EvidenceHolds
    <3>2. provider[d][b] <= 1 /\ flight[d][b] <= intent[d][b].quar
      BY <1>4 DEF EntryOK, EntryAgrees, OneRequest
    <3>3. provider[d][b] = 0 \/ provider[d][b] = 1
      BY <2>1, <3>2
    <3>4. s = "sent" <=> provider[d][b] = 1
      BY <1>a, <3>1
    <3> QED
      BY <1>3, <2>1, <3>2, <3>3, <3>4
  <2>3. \A v \in Workers : ~Live(v, d, b)
    <3> SUFFICES ASSUME NEW v \in Workers, Live(v, d, b) PROVE FALSE
      OBVIOUS
    <3>1. worker[v].ctx \in Nat /\ worker[v].ctx > 0 /\ RequestLife \in Nat
      BY WorkerTypes, SideEffectConstants DEF Live
    <3> QED
      BY <1>3, <1>4, <3>1 DEF EntryOK, OneRequest
  <2>4. EntryAgrees(d, b)'
    BY <1>1, <1>5, <2>2 DEF EntryAgrees
  <2>5. OneRequest(d, b)'
    BY <1>1, <1>4, <1>5, <1>6, <2>2, <2>3 DEF OneRequest, NobodyArrives, EntryOK
  <2>6. EvidenceHolds(d, b)'
    BY <1>1, <1>4, <1>5, CommandsAreOlder
  <2> QED
    BY <1>8, <2>4, <2>5, <2>6 DEF EntryOK
<1> QED
  BY <1>7, <1>8

LEMMA LateAcceptKeepsLedger ==
  ASSUME EffectState, LedgerInv, NEW d \in Events, NEW b \in Actions, LateAccept(d, b),
         NEW e \in Events, NEW a \in Actions
  PROVE  EntryOK(e, a)'
<1>1. UNCHANGED <<worker, run, intent, cmd>>
  BY Zenon DEF LateAccept, inboxVars, operatorVars
<1>2. EntryOK(e, a) /\ EntryOK(d, b)
  BY DEF LedgerInv
<1>3. NobodyArrives(e, a)
  BY <1>1 DEF NobodyArrives, Live, Sealing
<1>4. /\ intent[d][b].status = "unknown" /\ provider[d][b] = 0 /\ intent[d][b].quar > 0
      /\ \A v \in Workers : ~Live(v, d, b)
  <2>1. /\ flight[d][b] \in Nat /\ provider[d][b] \in Nat /\ intent[d][b].quar \in Nat
        /\ flight[d][b] > 0
    BY EntryTypes DEF LateAccept
  <2> QED
    BY <1>2, <2>1 DEF EntryOK, EntryAgrees, OneRequest
<1>5. /\ provider'[d][b] = 1 /\ flight'[d][b] = 0
      /\ e # d \/ a # b => provider'[e][a] = provider[e][a] /\ flight'[e][a] = flight[e][a]
  <2>1. /\ provider' = [provider EXCEPT ![d][b] = provider[d][b] + 1]
        /\ flight' = [flight EXCEPT ![d][b] = 0]
    BY DEF LateAccept
  <2> QED
    BY <1>4, <2>1, CountWrite DEF EffectState, EffectTypeOK
<1>6. CASE e # d \/ a # b
  BY <1>1, <1>2, <1>3, <1>5, <1>6, EntryStays DEF SameEntry
<1>7. CASE e = d /\ a = b
  <2>1. EntryAgrees(d, b)'
    BY <1>1, <1>4, <1>5 DEF EntryAgrees
  <2>2. OneRequest(d, b)'
    <3>1. 0 <= intent[d][b].quar
      BY <1>4, EntryTypes
    <3> QED
      BY <1>1, <1>4, <1>5, <3>1 DEF OneRequest, Live
  <2>3. EvidenceHolds(d, b)'
    BY <1>1, <1>2, <1>4 DEF EntryOK, EvidenceHolds
  <2> QED
    BY <1>7, <2>1, <2>2, <2>3 DEF EntryOK
<1> QED
  BY <1>6, <1>7

LEMMA TimeKeepsLedger ==
  ASSUME EffectState, LedgerInv, PassTime, NEW e \in Events, NEW a \in Actions
  PROVE  EntryOK(e, a)'
<1>1. UNCHANGED <<run, provider, cmd>>
  BY Zenon DEF PassTime, operatorVars
<1>2. EntryOK(e, a)
  BY DEF LedgerInv
<1>3. \A w \in Workers : /\ worker'[w].event = worker[w].event
                         /\ worker'[w].ctx = Dec(worker[w].ctx)
                         /\ worker[w].ctx \in Nat
  BY ElapseFacts, WorkerTypes DEF PassTime, EffectState
<1>4. /\ intent'[e][a].status = intent[e][a].status
      /\ intent'[e][a].version = intent[e][a].version
      /\ intent'[e][a].quar = Dec(intent[e][a].quar)
      /\ flight'[e][a] = Dec(flight[e][a])
  <2>1. PICK i \in Intent : i = intent[e][a]
    BY EntryTypes
  <2>2. intent'[e][a] = [i EXCEPT !.quar = Dec(@)] /\ flight'[e][a] = Dec(flight[e][a])
    BY <2>1, Zenon DEF PassTime
  <2>3. PICK j : j = intent'[e][a]
    OBVIOUS
  <2>4. j.status = i.status /\ j.version = i.version /\ j.quar = Dec(i.quar)
    BY <2>2, <2>3, CooledRow
  <2> QED
    BY <2>1, <2>2, <2>3, <2>4, Zenon
<1>5. intent[e][a].quar \in Nat /\ flight[e][a] \in Nat /\ RequestLife \in Nat
  BY EntryTypes, SideEffectConstants
<1>6. \A w \in Workers : Live(w, e, a)' =>
        Live(w, e, a) /\ worker'[w].ctx = worker[w].ctx - 1
  BY <1>1, <1>3 DEF Live, Dec
<1>7. \A w \in Workers : Sealing(w, e, a)' => Sealing(w, e, a)
  BY <1>1, <1>3 DEF Sealing
<1>8. EntryAgrees(e, a)'
  BY <1>1, <1>2, <1>4 DEF EntryOK, EntryAgrees
<1>9. OneRequest(e, a)'
  <2>1. flight'[e][a] <= intent'[e][a].quar
    BY <1>2, <1>4, <1>5 DEF EntryOK, OneRequest, Dec
  <2>2. intent'[e][a].status # "unknown" \/ provider'[e][a] = 1 => flight'[e][a] = 0
    BY <1>1, <1>2, <1>4 DEF EntryOK, OneRequest, Dec
  <2>3. ASSUME NEW w \in Workers, Live(w, e, a)'
        PROVE  /\ intent'[e][a].status = "unknown" /\ provider'[e][a] = 0
               /\ flight'[e][a] = 0
               /\ worker'[w].ctx + RequestLife <= intent'[e][a].quar
               /\ \A v \in Workers : Live(v, e, a)' => v = w
    <3>1. /\ Live(w, e, a) /\ worker'[w].ctx = worker[w].ctx - 1
          /\ worker[w].ctx \in Nat /\ worker[w].ctx > 0
      BY <1>3, <1>6, <2>3 DEF Live
    <3>2. /\ intent[e][a].status = "unknown" /\ provider[e][a] = 0 /\ flight[e][a] = 0
          /\ worker[w].ctx + RequestLife <= intent[e][a].quar
          /\ \A v \in Workers : Live(v, e, a) => v = w
      BY <1>2, <3>1 DEF EntryOK, OneRequest
    <3> QED
      BY <1>1, <1>4, <1>5, <1>6, <3>1, <3>2 DEF Dec
  <2> QED
    BY <1>1, <1>2, <1>7, <2>1, <2>2, <2>3 DEF EntryOK, OneRequest
<1>10. EvidenceHolds(e, a)'
  BY <1>1, <1>2, <1>4 DEF EntryOK, EvidenceHolds, Dec
<1> QED
  BY <1>8, <1>9, <1>10 DEF EntryOK

\* The steps of a worker that touch no entry end outside a send.
LEMMA OtherStepsKeepLedger ==
  ASSUME EffectState, LedgerInv, NEW w \in Workers,
         \/ InboxStep(w) \/ StartProcess(w) \/ WorkerCrash(w)
         \/ SyncContact(w) \/ IgnoreEvent(w) \/ SyncFails(w) \/ SkipInvitation(w)
         \/ RejectChangedIntent(w) \/ PassOver(w) \/ SkipSideEffect(w) \/ SendRefused(w)
         \/ SealFails(w) \/ FinishActions(w) \/ EnqueueWelcome(w),
         NEW e \in Events, NEW a \in Actions
  PROVE  EntryOK(e, a)'
<1>1. UNCHANGED <<intent, provider, flight, cmd>>
  BY Zenon
  DEF InboxStep, StartProcess, WorkerCrash, SyncContact, IgnoreEvent, SyncFails,
      SkipInvitation, RejectChangedIntent, PassOver, SkipSideEffect, SendRefused,
      SealFails, FinishActions, EnqueueWelcome, effectVars, externalVars, operatorVars
<1>2. \A v \in Workers : v # w => run'[v] = run[v] /\ worker'[v] = worker[v]
  <2>1. InboxStep(w) \/ StartProcess(w) \/ ProcessStep(w) \/ WorkerCrash(w)
    BY Zenon DEF ProcessStep
  <2> QED
    BY <2>1, OthersStay
<1>3. run'[w].at \notin {"sending", "sealing"}
  <2>0. /\ run \in [Workers -> RunState] /\ "welcome" \in RunPlaces /\ "contact" \in RunPlaces
        /\ run[w].at # "none" => worker[w].pc = "processing"
    BY DEF EffectState, EffectTypeOK, RunPlaces, RunsAreClaimed
  <2>1. CASE InboxStep(w)
    <3>1. worker[w].pc # "processing" /\ run' = run
      BY <2>1 DEF InboxStep, Claim, Complete, Fail, Defer, effectVars
    <3> QED
      BY <2>0, <3>1
  <2>2. CASE StartProcess(w)
    <3>1. worker[w].pc # "processing"
      BY <2>2 DEF StartProcess, Validate
    <3>2. run' = run \/ run' = [run EXCEPT ![w].at = "contact"]
      BY <2>2, Zenon DEF StartProcess
    <3> QED
      BY <2>0, <3>1, <3>2, RunMoves DEF RunBecomes
  <2>3. CASE EndRun(w)
    BY <2>0, <2>3, RunEnds DEF RunBecomes
  <2>4. CASE SyncContact(w)
    BY <2>0, <2>4, RunAtFission DEF RunBecomes
  <2>5. CASE run' = [run EXCEPT ![w].at = "welcome"]
    BY <2>0, <2>5, RunMoves DEF RunBecomes
  <2>6. ASSUME NEW err \in BOOLEAN, NextAction(w, err)
        PROVE  run'[w].at \notin {"sending", "sealing"}
    BY <2>0, <2>6, RunAtNextAction DEF RunBecomes
  <2>7. \/ InboxStep(w) \/ StartProcess(w) \/ EndRun(w) \/ SyncContact(w)
        \/ run' = [run EXCEPT ![w].at = "welcome"]
        \/ \E err \in BOOLEAN : NextAction(w, err)
    BY Zenon
    DEF WorkerCrash, IgnoreEvent, SyncFails, SkipInvitation, RejectChangedIntent,
        PassOver, SkipSideEffect, SendRefused, SealFails, FinishActions,
        EnqueueWelcome, Return
  <2> QED
    BY <2>1, <2>2, <2>3, <2>4, <2>5, <2>6, <2>7
<1> QED
  BY <1>1, <1>2, <1>3, WorkerLeaves, EntryStays DEF LedgerInv, SameEntry

\* A step of the environment that touches neither the entries nor the workers.
LEMMA QuietStepsKeepLedger ==
  ASSUME LedgerInv, UNCHANGED <<intent, provider, flight, cmd, run, worker>>,
         NEW e \in Events, NEW a \in Actions
  PROVE  EntryOK(e, a)'
<1>1. NobodyArrives(e, a)
  BY DEF NobodyArrives, Live, Sealing
<1> QED
  BY <1>1, EntryStays DEF LedgerInv, SameEntry

LEMMA LedgerNext == EffectState /\ LedgerInv /\ [Next]_vars => LedgerInv'
<1> SUFFICES ASSUME EffectState, LedgerInv, [Next]_vars PROVE LedgerInv'
  OBVIOUS
<1>1. \A w \in Workers : worker'[w].ctx <= ProcessingTimeout
  <2>1. [InboxNext]_inboxVars /\ InboxTypeOK
    BY InboxSimulation DEF EffectState
  <2> QED
    BY <2>1, ContextsNext DEF LedgerInv
<1>2. ASSUME NEW e \in Events, NEW a \in Actions PROVE EntryOK(e, a)'
  <2>1. CASE Deliveries \/ ChangeActivity \/ UNCHANGED vars
    <3>1. UNCHANGED <<intent, provider, flight, cmd, run, worker>>
      BY <2>1, Zenon
      DEF Deliveries, Deliver, ChangeActivity, vars, inboxVars, effectVars, operatorVars
    <3> QED
      BY <3>1, QuietStepsKeepLedger
  <2>2. ASSUME NEW w \in Workers,
               InboxStep(w) \/ StartProcess(w) \/ ProcessStep(w) \/ WorkerCrash(w)
        PROVE  EntryOK(e, a)'
    BY <2>2, BeginKeepsLedger, AcceptKeepsLedger, LossKeepsLedger, SealKeepsLedger,
       CountKeepsLedger, OtherStepsKeepLedger, Zenon DEF ProcessStep
  <2>3. ASSUME NEW r \in Requests, NEW d \in Events, NEW b \in Actions, Inspect(r, d, b)
        PROVE  EntryOK(e, a)'
    BY <2>3, InspectKeepsLedger
  <2>4. ASSUME NEW r \in Requests, Reconcile(r) PROVE EntryOK(e, a)'
    BY <2>4, ReconcileKeepsLedger
  <2>5. ASSUME NEW d \in Events, NEW b \in Actions, LateAccept(d, b) PROVE EntryOK(e, a)'
    BY <2>5, LateAcceptKeepsLedger
  <2>6. CASE PassTime
    BY <2>6, TimeKeepsLedger
  <2> QED
    BY <2>1, <2>2, <2>3, <2>4, <2>5, <2>6, Zenon DEF Next
<1> QED
  BY <1>1, <1>2 DEF LedgerInv

LEMMA LedgerSafe == Spec => []LedgerInv
<1>1. EffectState /\ LedgerInv /\ [Next]_vars => LedgerInv'
  BY LedgerNext
<1> QED
  BY <1>1, LedgerInit, EffectsTyped, PTL DEF Spec

--------------------------------------------------------------------------------
(* The safety of the ledger *)

\* WeCom accepts every message at most once: an intent is unknown before the
\* request leaves, and stays so, in quarantine, for as long as a request of it
\* can still be accepted.
THEOREM SentAtMostOnce == Spec => []AtMostOnce
<1>1. LedgerInv => AtMostOnce
  BY DEF LedgerInv, EntryOK, EntryAgrees, AtMostOnce
<1> QED
  BY <1>1, LedgerSafe, PTL

\* The ledger's verdicts, the operators' included, are true of WeCom.
THEOREM LedgerTellsTheTruth == Spec => []LedgerIsTruthful
<1>1. LedgerInv => LedgerIsTruthful
  BY DEF LedgerInv, EntryOK, EntryAgrees, LedgerIsTruthful
<1> QED
  BY <1>1, LedgerSafe, PTL

--------------------------------------------------------------------------------
(* What a completed event has sent *)

Early == {"none", "contact", "fission"}
Acting == {"action", "sending", "sealing"}

\* Before the count nothing is due; an execution that has remembered no error has
\* sent what was due behind it; at the welcome message it has sent all of it.
ExecutionOK(w) ==
    /\ run[w].at \in Early => run[w].due = {}
    /\ run[w].at \in Acting =>
          /\ run[w].k >= 1
          /\ ~run[w].err =>
               \A a \in run[w].due : a < run[w].k =>
                  intent[worker[w].event][a].status = "sent"
    /\ run[w].at = "welcome" =>
          \A a \in run[w].due : intent[worker[w].event][a].status = "sent"

\* What the last successful execution found due is sent.
RememberedIsSent ==
    \A e \in Events : \A a \in okDue[e] : intent[e][a].status = "sent"

CompletionInv == (\A w \in Workers : ExecutionOK(w)) /\ RememberedIsSent

\* The moves of an entry's status.
EntryMove(e, a) ==
    \/ intent'[e][a].status = intent[e][a].status
    \/ Inserted(e, a)
    \/ intent[e][a].status = "pending" /\ intent'[e][a].status = "unknown"
    \/ intent[e][a].status = "unknown" /\ intent'[e][a].status \in {"sent", "pending"}

LEMMA EntryMoves ==
  ASSUME EffectState, [Next]_vars, NEW e \in Events, NEW a \in Actions
  PROVE  EntryMove(e, a)
<1>1. CASE intent' = intent
  BY <1>1 DEF EntryMove
<1>2. ASSUME NEW w \in Workers, CountInvitation(w) PROVE EntryMove(e, a)
  BY <1>2, CountInserts DEF EntryMove
<1>3. ASSUME NEW w \in Workers, BeginSideEffect(w) PROVE EntryMove(e, a)
  <2>1. PICK d \in Events, b \in Actions : d = worker[w].event /\ b = run[w].k
    BY <1>3, DueTypes, WorkerTypes DEF BeginSideEffect, AtAction
  <2>2. EntryBecomes(d, b, "unknown", Quarantine) /\ intent[d][b].status = "pending"
    BY <1>3, <2>1, Zenon DEF BeginSideEffect, EntryBecomes
  <2>3. "unknown" \in LedgerStatus /\ Quarantine \in Nat
    BY SideEffectConstants DEF LedgerStatus
  <2>4. StampOf(intent'[d][b], intent[d][b], "unknown", Quarantine) /\ EntriesStay(d, b)
    BY <2>2, <2>3, EntryWrite, Zenon
  <2> QED
    BY <1>3, <2>1, <2>2, <2>4, Zenon DEF StampOf, EntriesStay, EntryMove
<1>4. ASSUME NEW w \in Workers, SealSideEffect(w) PROVE EntryMove(e, a)
  <2>1. PICK d \in Events, b \in Actions : d = worker[w].event /\ b = run[w].k
    BY <1>4, WorkerTypes DEF SealSideEffect, EffectState, RunsAreClaimed
  <2>2. \/ intent' = intent
        \/ intent[d][b].status = "unknown" /\ EntryBecomes(d, b, "sent", 0)
    BY <1>4, <2>1, Zenon DEF SealSideEffect, EntryBecomes
  <2>3. CASE intent[d][b].status = "unknown" /\ EntryBecomes(d, b, "sent", 0)
    <3>1. "sent" \in LedgerStatus /\ 0 \in Nat
      BY DEF LedgerStatus
    <3>2. StampOf(intent'[d][b], intent[d][b], "sent", 0) /\ EntriesStay(d, b)
      BY <2>3, <3>1, EntryWrite, Zenon
    <3> QED
      BY <2>3, <3>2 DEF StampOf, EntriesStay, EntryMove
  <2> QED
    BY <1>1, <2>2, <2>3
<1>5. ASSUME NEW r \in Requests, Reconcile(r) PROVE EntryMove(e, a)
  <2>1. PICK c \in Command : c = cmd[r]
    BY <1>5 DEF Reconcile, Reserved, EffectState, EffectTypeOK
  <2>2. PICK d \in Events, b \in Actions, s \in {"sent", "pending"} :
          /\ d = c.event /\ b = c.action
          /\ s = IF c.decision = "confirm_sent" THEN "sent" ELSE "pending"
    BY DEF Command
  <2>3. EntryBecomes(d, b, s, 0)
    BY <1>5, <2>1, <2>2, Zenon DEF Reconcile, Decide, EntryBecomes
  <2>4. intent[d][b].status = "unknown"
    BY <1>5, <2>1, <2>2 DEF Reconcile, ReconcileAllowed
  <2>5. s \in LedgerStatus /\ 0 \in Nat
    BY DEF LedgerStatus
  <2>6. StampOf(intent'[d][b], intent[d][b], s, 0) /\ EntriesStay(d, b)
    BY <2>3, <2>5, EntryWrite, Zenon
  <2> QED
    BY <2>4, <2>6 DEF StampOf, EntriesStay, EntryMove
<1>6. CASE PassTime
  <2>1. PICK i \in Intent : i = intent[e][a]
    BY EntryTypes
  <2>2. intent'[e][a] = [i EXCEPT !.quar = Dec(@)]
    BY <1>6, <2>1, Zenon DEF PassTime
  <2>3. PICK j : j = intent'[e][a]
    OBVIOUS
  <2>4. j.status = i.status
    BY <2>2, <2>3, CooledRow
  <2>5. intent'[e][a].status = intent[e][a].status
    BY <2>1, <2>3, <2>4, Zenon
  <2> QED
    BY <2>5 DEF EntryMove
<1> QED
  BY <1>1, <1>2, <1>3, <1>4, <1>5, <1>6, Zenon
  DEF Next, Deliveries, InboxStep, StartProcess, ProcessStep, WorkerCrash, Inspect,
      LateAccept, ChangeActivity, SyncContact, IgnoreEvent, SyncFails, SkipInvitation,
      RejectChangedIntent, PassOver, SkipSideEffect, SendAccepted, SendLost,
      SendRefused, SealFails, FinishActions, EnqueueWelcome, vars, effectVars

\* A message that was sent stays sent.
LEMMA SentStays ==
  ASSUME EffectState, [Next]_vars, NEW e \in Events, NEW a \in Actions,
         intent[e][a].status = "sent"
  PROVE  intent'[e][a].status = "sent"
  BY EntryMoves DEF EntryMove, Inserted

LEMMA CompletionInit == Init => CompletionInv
  BY DEF Init, EffectInit, NotRunning, CompletionInv, ExecutionOK, RememberedIsSent,
         Early, Acting

\* An execution that stands where it stood, or stands before the count.
LEMMA ExecutionStays ==
  ASSUME EffectState, [Next]_vars, NEW v \in Workers, ExecutionOK(v),
         run'[v] = run[v],
         run[v].at \in Early \/ worker'[v].event = worker[v].event
  PROVE  ExecutionOK(v)'
<1>1. PICK e \in Events : e = worker[v].event
  BY WorkerTypes
<1>2. run[v].due \subseteq Actions
  BY DueTypes
<1>3. CASE run[v].at \in Early
  BY <1>3 DEF ExecutionOK, Early, Acting
<1>4. CASE worker'[v].event = e
  BY <1>1, <1>2, <1>4, SentStays DEF ExecutionOK
<1> QED
  BY <1>1, <1>3, <1>4

\* An action was begun or sent: the execution stays at it.
LEMMA ExecutionGoesOn ==
  ASSUME EffectState, [Next]_vars, NEW v \in Workers, ExecutionOK(v),
         run[v].at \in Acting, run'[v].at \in Acting,
         run'[v].k = run[v].k, run'[v].err = run[v].err, run'[v].due = run[v].due,
         worker'[v].event = worker[v].event
  PROVE  ExecutionOK(v)'
<1>1. PICK e \in Events : e = worker[v].event
  BY WorkerTypes
<1>2. run[v].due \subseteq Actions
  BY DueTypes
<1> QED
  BY <1>1, <1>2, SentStays DEF ExecutionOK, Early, Acting

\* The execution leaves an action behind, with an error, with a message sent, or
\* with nothing due.
LEMMA ExecutionMovesOn ==
  ASSUME EffectState, [Next]_vars, NEW v \in Workers, ExecutionOK(v),
         run[v].at \in Acting, worker' = worker,
         NEW err \in BOOLEAN, NextAction(v, err),
         ~err /\ run[v].k \in run[v].due =>
            intent'[worker[v].event][run[v].k].status = "sent"
  PROVE  ExecutionOK(v)'
<1>1. PICK e \in Events : e = worker[v].event
  BY WorkerTypes
<1>2. run[v].due \subseteq Actions /\ run[v].err \in BOOLEAN /\ run[v].k \in Nat
  BY DueTypes, WorkerTypes DEF RunState
<1>3. /\ run'[v].at = "action" /\ run'[v].k = run[v].k + 1
      /\ run'[v].err = (run[v].err \/ err) /\ run'[v].due = run[v].due
  BY RunAtNextAction DEF EffectState, EffectTypeOK, RunBecomes
<1>4. run[v].k >= 1
  BY DEF ExecutionOK
<1>5. ASSUME ~run'[v].err, NEW a \in run[v].due, a < run[v].k + 1
      PROVE  intent'[e][a].status = "sent"
  <2>1. a \in Nat
    BY <1>2, SideEffectConstants DEF Actions
  <2>2. CASE a = run[v].k
    BY <1>1, <1>3, <1>5, <2>2
  <2>3. CASE a < run[v].k
    BY <1>1, <1>2, <1>3, <1>5, <2>3, SentStays DEF ExecutionOK
  <2> QED
    BY <1>2, <1>5, <2>1, <2>2, <2>3
<1> QED
  BY <1>1, <1>2, <1>3, <1>4, <1>5 DEF ExecutionOK, Early, Acting

\* One step of the worker's own.
LEMMA ExecutionStep ==
  ASSUME EffectState, [Next]_vars, NEW v \in Workers, ExecutionOK(v),
         InboxStep(v) \/ StartProcess(v) \/ ProcessStep(v) \/ WorkerCrash(v)
  PROVE  ExecutionOK(v)'
<1>0. run \in [Workers -> RunState] /\ run[v].due \subseteq Actions /\ run[v].k \in Nat
  BY DueTypes, WorkerTypes DEF EffectState, EffectTypeOK
<1>1. CASE EndRun(v)
  <2>1. run'[v] = NotRunning
    BY <1>0, <1>1, RunEnds
  <2> QED
    BY <2>1 DEF NotRunning, ExecutionOK, Acting
<1>2. CASE InboxStep(v)
  <2>1. worker[v].pc # "processing" /\ run' = run
    BY <1>2 DEF InboxStep, Claim, Complete, Fail, Defer, effectVars
  <2>2. run[v].at \in Early
    BY <2>1 DEF EffectState, RunsAreClaimed, Early
  <2> QED
    BY <2>1, <2>2, ExecutionStays
<1>3. CASE StartProcess(v)
  <2>1. worker[v].pc # "processing"
    BY <1>3 DEF StartProcess, Validate
  <2>2. run[v].at = "none"
    BY <2>1 DEF EffectState, RunsAreClaimed
  <2>3. run' = run \/ run' = [run EXCEPT ![v].at = "contact"]
    BY <1>3, Zenon DEF StartProcess
  <2>4. CASE run' = [run EXCEPT ![v].at = "contact"]
    <3>1. run'[v].at = "contact" /\ run'[v].due = run[v].due
      BY <1>0, <2>4, RunMoves DEF RunBecomes, RunPlaces
    <3> QED
      BY <2>2, <3>1 DEF ExecutionOK, Early, Acting
  <2> QED
    BY <2>2, <2>3, <2>4, ExecutionStays DEF Early
<1>4. CASE SyncContact(v)
  <2>1. run'[v].at = "fission" /\ run'[v].due = run[v].due
    BY <1>0, <1>4, RunAtFission DEF RunBecomes
  <2>2. run[v].at = "contact"
    BY <1>4 DEF SyncContact
  <2> QED
    BY <2>1, <2>2 DEF ExecutionOK, Early, Acting
<1>5. CASE CountInvitation(v)
  <2>1. ActionsBegin(v, DueActions(v))
    BY <1>5, Zenon DEF CountInvitation, ActionsBegin
  <2>2. run'[v].at = "action" /\ run'[v].k = 1 /\ run'[v].due = DueActions(v)
    BY <1>0, <2>1, DueIsActions, RunAtFirstAction DEF RunBecomes
  <2>3. \A a \in DueActions(v) : ~(a < 1)
    BY DueIsActions, SideEffectConstants DEF Actions
  <2> QED
    BY <2>2, <2>3 DEF ExecutionOK, Early, Acting
<1>6. CASE SkipInvitation(v)
  <2>1. run' = [run EXCEPT ![v].at = "welcome"] /\ run[v].at = "fission"
    BY <1>6, Zenon DEF SkipInvitation
  <2>2. run'[v].at = "welcome" /\ run'[v].due = run[v].due
    BY <1>0, <2>1, RunMoves DEF RunBecomes, RunPlaces
  <2> QED
    BY <2>1, <2>2 DEF ExecutionOK, Early, Acting
<1>7. CASE BeginSideEffect(v) \/ SendAccepted(v)
  <2>1. /\ run' = [run EXCEPT ![v].at = "sending"] \/ run' = [run EXCEPT ![v].at = "sealing"]
        /\ run[v].at \in Acting /\ worker' = worker
    BY <1>7, Zenon DEF BeginSideEffect, AtAction, SendAccepted, Acting, inboxVars
  <2>2. /\ run'[v].at \in Acting /\ run'[v].k = run[v].k
        /\ run'[v].err = run[v].err /\ run'[v].due = run[v].due
    BY <1>0, <2>1, RunMoves DEF RunBecomes, RunPlaces, Acting
  <2> QED
    BY <2>1, <2>2, ExecutionGoesOn
<1>8. CASE SealSideEffect(v)
  <2>1. PICK d \in Events, b \in Actions : d = worker[v].event /\ b = run[v].k
    BY <1>8, WorkerTypes DEF SealSideEffect, EffectState, RunsAreClaimed
  <2>2. intent'[d][b].status = "sent"
    <3>1. \/ intent' = intent /\ intent[d][b].status = "sent"
          \/ EntryBecomes(d, b, "sent", 0)
      BY <1>8, <2>1, Zenon DEF SealSideEffect, EntryBecomes
    <3>2. CASE EntryBecomes(d, b, "sent", 0)
      <4>1. "sent" \in LedgerStatus /\ 0 \in Nat
        BY DEF LedgerStatus
      <4>2. StampOf(intent'[d][b], intent[d][b], "sent", 0)
        BY <3>2, <4>1, EntryWrite, Zenon
      <4> QED
        BY <4>2 DEF StampOf
    <3> QED
      BY <3>1, <3>2
  <2>3. /\ \E err \in BOOLEAN : NextAction(v, err)
        /\ worker' = worker /\ run[v].at \in Acting
    BY <1>8, Zenon DEF SealSideEffect, Acting, inboxVars
  <2> QED
    BY <2>1, <2>2, <2>3, ExecutionMovesOn
<1>9. CASE PassOver(v) \/ SkipSideEffect(v) \/ SendRefused(v) \/ SealFails(v)
  <2>1. /\ worker' = worker /\ run[v].at \in Acting
        /\ \E err \in BOOLEAN :
              /\ NextAction(v, err)
              /\ ~err /\ run[v].k \in run[v].due =>
                   intent'[worker[v].event][run[v].k].status = "sent"
    BY <1>9, Zenon
    DEF PassOver, SkipSideEffect, SendRefused, SealFails, AtAction, Acting, inboxVars
  <2> QED
    BY <2>1, ExecutionMovesOn, Zenon
<1>10. CASE SendLost(v)
  <2>1. CASE NextAction(v, TRUE) /\ UNCHANGED inboxVars
    <3>1. worker' = worker /\ run[v].at \in Acting /\ \E err \in BOOLEAN : err /\ NextAction(v, err)
      BY <1>10, <2>1, Zenon DEF SendLost, Acting, inboxVars
    <3> QED
      BY <3>1, ExecutionMovesOn
  <2> QED
    BY <1>1, <1>10, <2>1, Zenon DEF SendLost
<1>11. CASE FinishActions(v) /\ ~EndRun(v)
  <2>1. /\ run' = [run EXCEPT ![v].at = "welcome"] /\ ~run[v].err
        /\ run[v].at = "action" /\ run[v].k \notin Actions
        /\ intent' = intent /\ worker' = worker
    BY <1>11, Zenon DEF FinishActions, Return, inboxVars
  <2>2. run'[v].at = "welcome" /\ run'[v].due = run[v].due
    BY <1>0, <2>1, RunMoves DEF RunBecomes, RunPlaces
  <2>3. run[v].k >= 1 /\ \A a \in run[v].due : a < run[v].k =>
                              intent[worker[v].event][a].status = "sent"
    BY <2>1 DEF ExecutionOK, Acting
  <2>4. \A a \in run[v].due : a < run[v].k
    BY <1>0, <2>1, <2>3, SideEffectConstants DEF Actions
  <2> QED
    BY <2>1, <2>2, <2>3, <2>4 DEF ExecutionOK, Early, Acting
<1>12. \/ InboxStep(v) \/ StartProcess(v) \/ EndRun(v) \/ SyncContact(v)
       \/ CountInvitation(v) \/ SkipInvitation(v) \/ BeginSideEffect(v)
       \/ SendAccepted(v) \/ SealSideEffect(v) \/ PassOver(v) \/ SkipSideEffect(v)
       \/ SendRefused(v) \/ SealFails(v) \/ SendLost(v) \/ FinishActions(v)
  BY Zenon
  DEF ProcessStep, WorkerCrash, IgnoreEvent, SyncFails, RejectChangedIntent,
      EnqueueWelcome, Return
<1> QED
  BY <1>1, <1>2, <1>3, <1>4, <1>5, <1>6, <1>7, <1>8, <1>9, <1>10, <1>11, <1>12, Zenon

LEMMA ExecutionNext ==
  ASSUME EffectState, [Next]_vars, NEW v \in Workers, ExecutionOK(v)
  PROVE  ExecutionOK(v)'
<1>1. CASE run'[v] = run[v] /\ worker'[v].event = worker[v].event
  BY <1>1, ExecutionStays
<1>2. ASSUME NEW w \in Workers, w # v,
             InboxStep(w) \/ StartProcess(w) \/ ProcessStep(w) \/ WorkerCrash(w)
      PROVE  ExecutionOK(v)'
  BY <1>1, <1>2, OthersStay
<1>3. CASE PassTime
  <2>1. worker'[v].event = worker[v].event /\ run' = run
    BY <1>3, ElapseFacts, Zenon DEF PassTime, EffectState
  <2> QED
    BY <1>1, <2>1
<1>4. CASE UNCHANGED <<run, worker>>
  BY <1>1, <1>4
<1> QED
  BY <1>2, <1>3, <1>4, ExecutionStep, Zenon
  DEF Next, Deliveries, Deliver, Inspect, Reconcile, Revive, LateAccept, ChangeActivity,
      vars, inboxVars, effectVars

\* Only an execution that succeeds is remembered: at the welcome message, or when
\* the employee has left before anything was due.
LEMMA RememberStep ==
  ASSUME [Next]_vars
  PROVE  \/ okDue' = okDue
         \/ \E w \in Workers : Remembers(w) /\ run[w].at \in {"contact", "welcome"}
<1> DEFINE Goal == \/ okDue' = okDue
                   \/ \E w \in Workers :
                         Remembers(w) /\ run[w].at \in {"contact", "welcome"}
<1> SUFFICES Goal
  OBVIOUS
<1>1. ASSUME NEW w \in Workers, NEW outcome \in {"failed", "deferred"}, Return(w, outcome)
      PROVE  okDue' = okDue
  BY <1>1 DEF Return, ProcessReturns
<1>2. ASSUME NEW w \in Workers, IgnoreEvent(w) \/ EnqueueWelcome(w) PROVE Goal
  <2>1. \E outcome : Return(w, outcome)
    BY <1>2, Zenon DEF IgnoreEvent, EnqueueWelcome
  <2>2. run[w].at = "contact" \/ run[w].at = "welcome"
    BY <1>2, Zenon DEF IgnoreEvent, EnqueueWelcome
  <2> QED
    BY <2>1, <2>2, ReturnRemembers
<1>3. ASSUME NEW w \in Workers, SyncFails(w) \/ RejectChangedIntent(w) \/ FinishActions(w)
      PROVE  Goal
  <2>1. okDue' = okDue \/ Return(w, "failed") \/ Return(w, "deferred")
    BY <1>3, Zenon DEF SyncFails, RejectChangedIntent, FinishActions
  <2> QED
    BY <1>1, <2>1
<1>4. ASSUME NEW w \in Workers,
             InboxStep(w) \/ StartProcess(w) \/ ProcessStep(w) \/ WorkerCrash(w)
      PROVE  Goal
  BY <1>2, <1>3, <1>4, Zenon
  DEF InboxStep, StartProcess, WorkerCrash, ProcessStep, SyncContact, CountInvitation,
      SkipInvitation, PassOver, BeginSideEffect, SkipSideEffect, SendAccepted, SendLost,
      SendRefused, SealSideEffect, SealFails, effectVars
<1>5. ASSUME ~\E w \in Workers :
                InboxStep(w) \/ StartProcess(w) \/ ProcessStep(w) \/ WorkerCrash(w)
      PROVE  okDue' = okDue
  BY <1>5, Zenon
  DEF Next, Deliveries, Inspect, Reconcile, LateAccept, ChangeActivity, PassTime, vars,
      effectVars
<1> QED
  BY <1>4, <1>5

LEMMA CompletionNext ==
  EffectState /\ CompletionInv /\ [Next]_vars => CompletionInv'
<1> SUFFICES ASSUME EffectState, CompletionInv, [Next]_vars PROVE CompletionInv'
  OBVIOUS
<1>1. \A w \in Workers : ExecutionOK(w)'
  BY ExecutionNext DEF CompletionInv
<1>2. ASSUME NEW e \in Events, NEW a \in okDue'[e] PROVE intent'[e][a].status = "sent"
  <2>0. /\ okDue \in [Events -> SUBSET Actions]
        /\ \A w \in Workers : worker[w].event \in Events /\ run[w].due \subseteq Actions
    BY DueTypes, WorkerTypes DEF EffectState, EffectTypeOK
  <2>1. CASE a \in okDue[e]
    <3>1. a \in Actions /\ intent[e][a].status = "sent"
      BY <2>0, <2>1 DEF CompletionInv, RememberedIsSent
    <3> QED
      BY <3>1, SentStays
  <2>2. CASE a \notin okDue[e]
    <3>1. PICK w \in Workers : Remembers(w) /\ run[w].at \in {"contact", "welcome"}
      BY <1>2, <2>2, RememberStep
    <3>2. worker[w].event = e /\ a \in run[w].due
      BY <1>2, <2>0, <2>2, <3>1 DEF Remembers
    <3>3. intent[e][a].status = "sent"
      BY <3>1, <3>2 DEF CompletionInv, ExecutionOK, Early
    <3>4. a \in Actions
      BY <2>0, <3>2
    <3> QED
      BY <3>3, <3>4, SentStays
  <2> QED
    BY <2>1, <2>2
<1> QED
  BY <1>1, <1>2 DEF CompletionInv, RememberedIsSent

LEMMA CompletionSafe == Spec => []CompletionInv
<1>1. EffectState /\ CompletionInv /\ [Next]_vars => CompletionInv'
  BY CompletionNext
<1> QED
  BY <1>1, CompletionInit, EffectsTyped, PTL DEF Spec

\* An event is completed by the execution of its last claim, and only after WeCom
\* accepted every message that execution found due: an execution that remembers
\* an error does not succeed, and a message once sent stays sent.
THEOREM CompletionSendsWhatWasDue == Spec => []CompletedSentWhatWasDue
<1>1. CompletedByLastOwner /\ EffectState /\ LedgerInv /\ CompletionInv
        => CompletedSentWhatWasDue
  <2> SUFFICES ASSUME CompletedByLastOwner, EffectState, LedgerInv, CompletionInv,
                      NEW e \in Events, row[e].status = "completed"
               PROVE  /\ okFence[e] = row[e].fence
                      /\ \A a \in okDue[e] : provider[e][a] = 1
    BY DEF CompletedSentWhatWasDue
  <2>1. okFence[e] = row[e].fence
    BY DEF CompletedByLastOwner
  <2>2. ASSUME NEW a \in okDue[e] PROVE provider[e][a] = 1
    <3>1. a \in Actions
      BY <2>2 DEF EffectState, EffectTypeOK
    <3>2. intent[e][a].status = "sent"
      BY <2>2 DEF CompletionInv, RememberedIsSent
    <3> QED
      BY <3>1, <3>2 DEF LedgerInv, EntryOK, EntryAgrees
  <2> QED
    BY <2>1, <2>2
<1> QED
  BY <1>1, CompletionSafe, EffectsTyped, EffectsImplementInbox, InboxCompletionIsOwned,
     LedgerSafe, PTL DEF ImplementsInbox

--------------------------------------------------------------------------------
(* Replays and counts *)

LEMMA DeliveryKeeps ==
  ASSUME InboxTypeOK, NEW d \in Events, NEW f \in Fingerprints, Deliver(d, f),
         NEW e \in Events, row[e].status = "dead"
  PROVE  row'[e].status = "dead"
  BY DEF Deliver, Accept, InboxTypeOK, Row

LEMMA DeadStays ==
  ASSUME EffectState, NEW e \in Events, row[e].status = "dead",
         \/ Deliveries \/ PassTime
         \/ \E w \in Workers :
               InboxStep(w) \/ StartProcess(w) \/ ProcessStep(w) \/ WorkerCrash(w)
  PROVE  row'[e].status = "dead"
<1>0. row \in [Events -> Row] /\ \A w \in Workers : worker[w].event \in Events
  BY WorkerTypes DEF EffectState, InboxTypeOK
<1>1. CASE row'[e] = row[e]
  BY <1>1
<1>2. CASE Deliveries
  <2>1. \E d \in Events, f \in Fingerprints : Deliver(d, f)
    BY <1>2, Zenon DEF Deliveries
  <2> QED
    BY <2>1, DeliveryKeeps DEF EffectState
<1>3. CASE PassTime
  <2>1. row'[e].status = row[e].status
    BY <1>3, ElapseFacts, Zenon DEF PassTime, EffectState
  <2> QED
    BY <2>1
<1>4. ASSUME NEW w \in Workers, InboxStep(w) PROVE row'[e].status = "dead"
  <2>1. CASE Claim(w)
    <3>1. Swept[e] = row[e] /\ e \notin Claimable /\ Swept \in [Events -> Row]
      BY <1>0, SweptType DEF Swept, Due, Claimable, EffectState
    <3>2. \/ row' = Swept
          \/ \E d \in Claimable : row' = [Swept EXCEPT ![d] = Leased(row[d])]
      BY <2>1, Zenon DEF Claim
    <3> QED
      BY <1>1, <3>1, <3>2
  <2>2. CASE Complete(w) \/ Fail(w) \/ Defer(w)
    <3>1. HoldsLease(w) => worker[w].event # e
      BY DEF HoldsLease
    <3>2. row' = row \/ \E r : HoldsLease(w) /\ row' = [row EXCEPT ![worker[w].event] = r]
      BY <2>2, Zenon DEF Complete, Fail, Defer
    <3> QED
      BY <1>0, <1>1, <3>1, <3>2
  <2> QED
    BY <1>4, <2>1, <2>2 DEF InboxStep
<1>5. ASSUME NEW w \in Workers, StartProcess(w) \/ ProcessStep(w) \/ WorkerCrash(w)
      PROVE  row' = row
  BY <1>5, Zenon
  DEF StartProcess, Validate, ProcessStep, WorkerCrash, SyncContact, IgnoreEvent,
      SyncFails, CountInvitation, SkipInvitation, RejectChangedIntent, PassOver,
      BeginSideEffect, SkipSideEffect, SendAccepted, SendLost, SendRefused, SealSideEffect, SealFails,
      FinishActions, EnqueueWelcome, Return, ProcessReturns, Crash, inboxVars
<1> QED
  BY <1>1, <1>2, <1>3, <1>4, <1>5

\* An operator's command replays its event in the transaction that settles the
\* last of its unknown actions.
LEMMA ReplayStep ==
  ASSUME EffectState, [Next]_vars, NEW e \in Events,
         row[e].status = "dead", row'[e].status # "dead"
  PROVE  \A a \in Actions : intent'[e][a].status # "unknown"
<1>1. PICK r \in Requests : Reconcile(r) /\ row' # row
  BY DeadStays, Zenon
  DEF Next, Inspect, LateAccept, ChangeActivity, vars, inboxVars
<1>2. PICK c \in Command : c = cmd[r]
  BY <1>1 DEF Reconcile, Reserved, EffectState, EffectTypeOK
<1>3. PICK d \in Events, b \in Actions, s \in {"sent", "pending"} :
        /\ d = c.event /\ b = c.action
        /\ s = IF c.decision = "confirm_sent" THEN "sent" ELSE "pending"
  BY DEF Command
<1>4. /\ EntryBecomes(d, b, s, 0)
      /\ \A a \in Actions \ {b} : intent[d][a].status # "unknown"
      /\ Revive(d)
  BY <1>1, <1>2, <1>3, Zenon DEF Reconcile, Decide, EntryBecomes, inboxVars
<1>5. d = e
  <2>1. row \in [Events -> Row] /\ row' = [row EXCEPT ![d] = Revived(row[d])]
    BY <1>4 DEF Revive, EffectState, InboxTypeOK
  <2> QED
    BY <2>1
<1>6. s \in LedgerStatus /\ 0 \in Nat
  BY DEF LedgerStatus
<1>7. StampOf(intent'[d][b], intent[d][b], s, 0) /\ EntriesStay(d, b)
  BY <1>4, <1>6, EntryWrite, Zenon
<1> QED
  BY <1>4, <1>5, <1>7 DEF StampOf, EntriesStay

\* A replay never revives an event one of whose messages may still have been
\* accepted: the command that does so settles the last unknown action.
THEOREM ReplaysWait == Spec => ReplayWaitsForEveryAction
<1>1. EffectState /\ [Next]_vars =>
        [\A e \in Events :
            row[e].status = "dead" /\ row'[e].status # "dead"
               => \A a \in Actions : intent'[e][a].status # "unknown"]_vars
  BY ReplayStep
<1> QED
  BY <1>1, EffectsTyped, PTL DEF Spec, ReplayWaitsForEveryAction

\* When a returning friend counts too, the counter is the number of children.
ChildrenCounted == IsFiniteSet(children) /\ inviteCount = Cardinality(children)

LEMMA ChildrenCountedNext ==
  ASSUME \A c \in Campaigns : ~c.newOnly, EffectState, ChildrenCounted, [Next]_vars
  PROVE  ChildrenCounted'
<1>1. CASE UNCHANGED <<children, inviteCount>>
  BY <1>1 DEF ChildrenCounted
<1>2. ASSUME NEW w \in Workers, CountInvitation(w) PROVE ChildrenCounted'
  <2>1. PICK e : e = worker[w].event
    OBVIOUS
  <2>2. /\ children' = children \cup {e}
        /\ inviteCount' = IF e \notin children THEN inviteCount + 1 ELSE inviteCount
    <3>1. ~activity.newOnly
      BY DEF EffectState, EffectTypeOK
    <3> QED
      BY <1>2, <2>1, <3>1, Zenon DEF CountInvitation, InvitesNow
  <2>3. /\ IsFiniteSet(children')
        /\ Cardinality(children') =
             IF e \in children THEN Cardinality(children) ELSE Cardinality(children) + 1
    BY <2>2, FS_AddElement DEF ChildrenCounted
  <2> QED
    BY <2>2, <2>3 DEF ChildrenCounted
<1> QED
  BY <1>1, <1>2, Zenon
  DEF Next, Deliveries, InboxStep, StartProcess, ProcessStep, WorkerCrash, Inspect,
      Reconcile, LateAccept, ChangeActivity, PassTime, SyncContact, IgnoreEvent,
      SyncFails, SkipInvitation, RejectChangedIntent, PassOver, BeginSideEffect, SkipSideEffect,
      SendAccepted, SendLost, SendRefused, SealSideEffect, SealFails, FinishActions,
      EnqueueWelcome, vars, effectVars, businessVars

\* As long as no edit makes the campaign count new friends only, every child is counted once,
\* however often its event is replayed or processed by a stale worker.
THEOREM ChildrenCountOnce ==
  ASSUME \A c \in Campaigns : ~c.newOnly
  PROVE  Spec => []InvitationsCountOnce
<1>1. Init => ChildrenCounted
  BY FS_EmptySet DEF Init, EffectInit, ChildrenCounted
<1>2. EffectState /\ ChildrenCounted /\ [Next]_vars => ChildrenCounted'
  <2> SUFFICES ASSUME EffectState, ChildrenCounted, [Next]_vars PROVE ChildrenCounted'
    OBVIOUS
  <2> QED
    BY ChildrenCountedNext, Zenon
<1>3. ChildrenCounted => InvitationsCountOnce
  BY DEF ChildrenCounted, InvitationsCountOnce
<1> QED
  BY <1>1, <1>2, <1>3, EffectsTyped, PTL DEF Spec

--------------------------------------------------------------------------------
(* The ledger implements OneDelivery *)

\* What WeCom accepts, by the answer to a worker or late, is a message of an
\* unknown intent that it did not accept before.
AcceptsOne ==
    \E e \in Events, a \in Actions :
        /\ intent[e][a].status = "unknown" /\ intent' = intent
        /\ provider[e][a] = 0 /\ provider'[e][a] = 1
        /\ \A d \in Events, b \in Actions :
              d # e \/ b # a => provider'[d][b] = provider[d][b]

LEMMA AcceptWrites ==
  ASSUME EffectState, NEW e \in Events, NEW a \in Actions,
         intent[e][a].status = "unknown", provider[e][a] = 0, UNCHANGED intent,
         provider' = [provider EXCEPT ![e][a] = @ + 1]
  PROVE  AcceptsOne
<1>1. provider' = [provider EXCEPT ![e][a] = 1]
  BY DEF EffectState, EffectTypeOK
<1>2. /\ provider'[e][a] = 1
      /\ \A d \in Events, b \in Actions :
            d # e \/ b # a => provider'[d][b] = provider[d][b]
  BY <1>1, CountWrite DEF EffectState, EffectTypeOK
<1> QED
  BY <1>2 DEF AcceptsOne

LEMMA ProviderMoves ==
  ASSUME EffectState, LedgerInv, [Next]_vars
  PROVE  provider' = provider \/ AcceptsOne
<1>1. ASSUME NEW w \in Workers, SendAccepted(w) PROVE AcceptsOne
  <2>1. PICK e \in Events, a \in Actions : e = worker[w].event /\ a = run[w].k
    BY <1>1, WorkerTypes DEF SendAccepted, EffectState, RunsAreClaimed
  <2>2. /\ Live(w, e, a) /\ UNCHANGED intent
        /\ provider' = [provider EXCEPT ![e][a] = @ + 1]
    BY <1>1, <2>1, Zenon DEF SendAccepted, Live
  <2>3. intent[e][a].status = "unknown" /\ provider[e][a] = 0
    BY <2>2 DEF LedgerInv, EntryOK, OneRequest
  <2> QED
    BY <2>2, <2>3, AcceptWrites
<1>2. ASSUME NEW e \in Events, NEW a \in Actions, LateAccept(e, a) PROVE AcceptsOne
  <2>1. /\ flight[e][a] > 0 /\ UNCHANGED intent
        /\ provider' = [provider EXCEPT ![e][a] = @ + 1]
    BY <1>2, Zenon DEF LateAccept
  <2>2. intent[e][a].status = "unknown" /\ provider[e][a] = 0
    <3>1. EntryOK(e, a) /\ flight[e][a] \in Nat /\ provider[e][a] \in Nat
      BY EntryTypes DEF LedgerInv
    <3> QED
      BY <2>1, <3>1 DEF EntryOK, EntryAgrees, OneRequest
  <2> QED
    BY <2>1, <2>2, AcceptWrites
<1>3. \/ UNCHANGED provider
      \/ \E w \in Workers : SendAccepted(w)
      \/ \E e \in Events, a \in Actions : LateAccept(e, a)
  BY Zenon
  DEF Next, Deliveries, InboxStep, StartProcess, ProcessStep, WorkerCrash, Inspect,
      Reconcile, ChangeActivity, PassTime, SyncContact, IgnoreEvent, SyncFails,
      CountInvitation, SkipInvitation, RejectChangedIntent, PassOver, BeginSideEffect,
      SkipSideEffect, SendLost, SendRefused, SealSideEffect, SealFails, FinishActions,
      EnqueueWelcome, vars, effectVars, externalVars
<1> QED
  BY <1>1, <1>2, <1>3

\* A message that is sent stays so, and one that becomes sent was accepted.
LEMMA VerdictMoves ==
  ASSUME EffectState, LedgerInv, LedgerInv', [Next]_vars,
         NEW e \in Events, NEW a \in Actions
  PROVE  /\ intent[e][a].status = "sent" => intent'[e][a].status = "sent"
         /\ intent'[e][a].status = "sent" => provider'[e][a] = 1
<1>1. EntryMove(e, a)
  BY EntryMoves
<1>2. intent[e][a].status = "sent" => intent'[e][a].status = "sent"
  BY <1>1 DEF EntryMove, Inserted
<1>3. EntryAgrees(e, a)'
  BY DEF LedgerInv, EntryOK
<1> QED
  BY <1>2, <1>3 DEF EntryAgrees

\* What the refinement mapping makes of a state.
Accepted == [m \in Messages |-> provider[m[1]][m[2]]]

Concluded == [m \in Messages |->
                IF intent[m[1]][m[2]].status = "sent" THEN "sent" ELSE "open"]

LEMMA MappedStep ==
  Delivery!DeliveryNext \/ UNCHANGED <<Accepted, Concluded>>
    => [Delivery!DeliveryNext]_(Delivery!deliveryVars)
  BY Zenon DEF Delivery!deliveryVars, Accepted, Concluded

LEMMA MessagesConclude ==
  ASSUME NEW S \in SUBSET Messages,
         \A m \in S : Concluded[m] = "open" /\ Accepted[m] = 1,
         Concluded' = [m \in Messages |-> IF m \in S THEN "sent" ELSE Concluded[m]],
         Accepted' = Accepted
  PROVE  [Delivery!DeliveryNext]_(Delivery!deliveryVars)
<1>1. \A m \in S : Concluded[m] = "open"
  OBVIOUS
<1>2. \A m \in S : Accepted[m] = 1
  OBVIOUS
<1>3. Delivery!Conclude(S, "sent")
  BY <1>1, <1>2, Zenon DEF Delivery!Conclude, Accepted, Concluded
<1> QED
  BY <1>3, MappedStep DEF Delivery!DeliveryNext

LEMMA MessageAccepted ==
  ASSUME NEW m \in Messages, Concluded[m] = "open", Accepted[m] = 0,
         Accepted' = [Accepted EXCEPT ![m] = 1], Concluded' = Concluded
  PROVE  [Delivery!DeliveryNext]_(Delivery!deliveryVars)
<1>1. Concluded[m] \in {"open", "failed"}
  OBVIOUS
<1>2. Delivery!HandOver(m)
  BY <1>1, Zenon DEF Delivery!HandOver, Accepted, Concluded
<1> QED
  BY <1>2, MappedStep DEF Delivery!DeliveryNext

LEMMA DeliveryStep ==
  EffectState /\ LedgerInv /\ LedgerInv' /\ [Next]_vars
    => [Delivery!DeliveryNext]_(Delivery!deliveryVars)
<1> SUFFICES ASSUME EffectState, LedgerInv, LedgerInv', [Next]_vars
             PROVE  [Delivery!DeliveryNext]_(Delivery!deliveryVars)
  OBVIOUS
<1>0. \A m \in Messages : \E e \in Events, a \in Actions :
         m = <<e, a>> /\ m[1] = e /\ m[2] = a
  BY DEF Messages
<1>1. CASE provider' = provider
  <2> DEFINE S == {m \in Messages : Concluded[m] = "open" /\ Concluded'[m] = "sent"}
  <2>1. /\ S \in SUBSET Messages
        /\ \A m \in Messages : m \in S <=> Concluded[m] = "open" /\ Concluded'[m] = "sent"
    OBVIOUS
  <2> HIDE DEF S
  <2>2. ASSUME NEW m \in Messages
        PROVE  /\ Concluded[m] = "sent" => Concluded'[m] = "sent"
               /\ Concluded'[m] = "sent" => Accepted[m] = 1
               /\ Concluded[m] \in {"open", "sent"} /\ Concluded'[m] \in {"open", "sent"}
    <3>1. PICK e \in Events, a \in Actions : m = <<e, a>> /\ m[1] = e /\ m[2] = a
      BY <1>0
    <3>2. /\ Concluded[m] = IF intent[e][a].status = "sent" THEN "sent" ELSE "open"
          /\ Concluded'[m] = IF intent'[e][a].status = "sent" THEN "sent" ELSE "open"
          /\ Accepted[m] = provider[e][a]
      BY <3>1 DEF Concluded, Accepted
    <3>3. /\ intent[e][a].status = "sent" => intent'[e][a].status = "sent"
          /\ intent'[e][a].status = "sent" => provider[e][a] = 1
      BY <1>1, VerdictMoves
    <3> QED
      BY <3>2, <3>3
  <2>3. Concluded' = [m \in Messages |-> IF m \in S THEN "sent" ELSE Concluded[m]]
    <3>1. \A m \in Messages : Concluded'[m] = IF m \in S THEN "sent" ELSE Concluded[m]
      BY <2>1, <2>2
    <3> QED
      BY <3>1 DEF Concluded
  <2>4. Accepted' = Accepted
    BY <1>1 DEF Accepted
  <2>5. \A m \in S : Concluded[m] = "open" /\ Accepted[m] = 1
    BY <2>1, <2>2
  <2> QED
    BY <2>1, <2>3, <2>4, <2>5, MessagesConclude
<1>2. CASE AcceptsOne
  <2>1. PICK e \in Events, a \in Actions :
           /\ intent[e][a].status = "unknown" /\ intent' = intent
           /\ provider[e][a] = 0 /\ provider'[e][a] = 1
           /\ \A d \in Events, b \in Actions :
                 d # e \/ b # a => provider'[d][b] = provider[d][b]
    BY <1>2 DEF AcceptsOne
  <2>2. PICK m \in Messages : m = <<e, a>>
    BY DEF Messages
  <2>3. Accepted[m] = 0 /\ Accepted'[m] = 1 /\ Concluded[m] = "open"
    BY <2>1, <2>2 DEF Accepted, Concluded
  <2>4. ASSUME NEW o \in Messages, o # m PROVE Accepted'[o] = Accepted[o]
    <3>1. PICK d \in Events, b \in Actions : o = <<d, b>> /\ o[1] = d /\ o[2] = b
      BY <1>0
    <3>2. d # e \/ b # a
      BY <2>2, <2>4, <3>1
    <3>3. Accepted[o] = provider[d][b] /\ Accepted'[o] = provider'[d][b]
      BY <3>1 DEF Accepted
    <3> QED
      BY <2>1, <3>2, <3>3
  <2>5. Accepted' = [Accepted EXCEPT ![m] = 1]
    BY <2>3, <2>4 DEF Accepted
  <2>6. Concluded' = Concluded
    BY <2>1 DEF Concluded
  <2> QED
    BY <2>3, <2>5, <2>6, MessageAccepted
<1> QED
  BY <1>1, <1>2, ProviderMoves

\* Refinement: the intents, the workers that stall and replay, and the operators
\* implement one hand-over per message and one final verdict on it.
THEOREM LedgerImplementsDelivery == Spec => ImplementsDelivery
<1>1. Init => Delivery!DeliveryInit
  <2> SUFFICES ASSUME Init PROVE Delivery!DeliveryInit
    OBVIOUS
  <2>1. \A e \in Events, a \in Actions :
           intent[e][a].status = "none" /\ provider[e][a] = 0
    BY DEF Init, EffectInit
  <2> QED
    BY <2>1 DEF Delivery!DeliveryInit, Messages
<1> QED
  BY <1>1, EffectsTyped, LedgerSafe, DeliveryStep, PTL
  DEF Spec, ImplementsDelivery, Delivery!DeliverySpec

\* By transitivity, an event whose messages are counted, sent, reconciled and
\* replayed lives the lifecycle of an inbox event.
THEOREM EffectsImplementLifecycle == Spec => ImplementsLifecycle
  BY EffectsImplementInbox, InboxImplementsLifecycle, PTL DEF ImplementsInbox

================================================================================
