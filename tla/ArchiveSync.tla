---------------------------- MODULE ArchiveSync ----------------------------
(***************************************************************************)
(* The durable synchronisation of one corporation's conversation archive.  *)
(* Messages get increasing sequence numbers at WeCom; a bridge hands them  *)
(* out in pages.  Runs are rows of mochat_go_archive_sync_runs: a          *)
(* scheduler probes the bridge and adds one when something is new, a user  *)
(* adds one by hand, and periodic workers take queued rows (or rows whose  *)
(* lease ran out), store the messages of a page one transaction each, and  *)
(* then save the cursor.  The next run starts at the highest cursor.       *)
(*                                                                         *)
(* A run's attempt number and lease token both change between two starts,  *)
(* and one worker works on one run at a time, so the fence "status         *)
(* running, this attempt, this token" is `holder` here.                    *)
(***************************************************************************)
EXTENDS Integers, FiniteSets, FiniteSetsExt

CONSTANTS
    Workers,      \* processes that call RunPendingOnce
    Schedulers,   \* processes that call EnqueueScheduledOnce
    Requesters,   \* users that ask for a synchronisation by hand
    NoWorker,     \* the empty lease token
    Limit,        \* messages of a page
    MaxSeq,       \* bound: messages that arrive
    MaxRuns,      \* bound: rows of the ledger
    Reserve,      \* bound: rows kept for probes of a cursor not probed before
    MaxFaults,    \* bound: crashes, failed calls, lost replies, slow workers
    Strangers     \* messages whose participants are not known at first

ASSUME ArchiveAssumption ==
    /\ NoWorker \notin Workers
    /\ Schedulers \cap Requesters = {}
    /\ Limit \in Nat \ {0}
    /\ MaxSeq \in Nat /\ MaxRuns \in Nat \ {0} /\ Reserve \in Nat /\ MaxFaults \in Nat
    /\ Strangers \subseteq 1 .. MaxSeq

VARIABLES
    arrived,    \* WeCom holds the messages 1 .. arrived
    known,      \* the messages whose participants can be resolved
    stored,     \* the messages in the archive tables
    runs,       \* the ledger
    wk,         \* what each worker is doing
    enq,        \* what each scheduler and each user's request is doing
    faults

vars == <<arrived, known, stored, runs, wk, enq, faults>>

RunIds == 1 .. MaxRuns
Enqueuers == Schedulers \cup Requesters
InFlight == {"queued", "running"}

NoRun == [status |-> "none", kind |-> "none", start |-> 0, cursor |-> 0,
          holder |-> NoWorker, expired |-> FALSE, due |-> 0]
Resting == [pc |-> "idle", todo |-> {}, run |-> 1, cursor |-> 0, next |-> 1, last |-> 0]
NotAsking == [pc |-> "idle", cursor |-> 0]

Init ==
    /\ arrived = 0
    /\ known = (1 .. MaxSeq) \ Strangers
    /\ stored = {}
    /\ runs = [r \in RunIds |-> NoRun]
    /\ wk = [w \in Workers |-> Resting]
    /\ enq = [e \in Enqueuers |-> NotAsking]
    /\ faults = 0

Fault == faults < MaxFaults /\ faults' = faults + 1

Used == {r \in RunIds : runs[r].status # "none"}
Free == RunIds \ Used

-----------------------------------------------------------------------------
(* The world: messages arrive, contacts get known, leases run out.          *)

Arrive ==
    /\ arrived < MaxSeq
    /\ arrived' = arrived + 1
    /\ UNCHANGED <<known, stored, runs, wk, enq, faults>>

Learn(s) ==
    /\ s \notin known
    /\ known' = known \cup {s}
    /\ UNCHANGED <<arrived, stored, runs, wk, enq, faults>>

Working(w, r) == wk[w].run = r /\ wk[w].pc \in {"beat", "fetch", "store", "save", "finish", "fail"}

\* A lease nobody renews ends; one whose worker is only slow ends by a fault.
LeaseRunsOut(r) ==
    /\ runs[r].status = "running" /\ ~runs[r].expired
    /\ \/ ~Working(runs[r].holder, r) /\ UNCHANGED faults
       \/ Working(runs[r].holder, r) /\ Fault
    /\ runs' = [runs EXCEPT ![r].expired = TRUE]
    /\ UNCHANGED <<arrived, known, stored, wk, enq>>

-----------------------------------------------------------------------------
(* Adding runs.                                                             *)

\* LatestArchiveSyncCursor: the highest cursor of any row, whatever its state.
LatestArchiveSyncCursor == Max({0} \cup {runs[r].cursor : r \in Used})

\* Faulty variant (Requeued): an abandoned run is not taken over.
RequeuedFailedOnly(run) ==
    IF run.status = "failed" THEN [run EXCEPT !.status = "queued"] ELSE run

\* enqueueArchiveSyncOnce on an existing row, asked with retryFailed: a failed
\* row, or a running one whose lease ran out, is queued for a new attempt.
Requeued(run) ==
    IF run.status = "failed" \/ (run.status = "running" /\ run.expired)
    THEN [run EXCEPT !.status = "queued", !.holder = NoWorker, !.expired = FALSE]
    ELSE run

\* Whether a row in flight keeps the scheduler from adding another.
Busy == \E r \in Used : runs[r].status \in InFlight

\* EnqueueScheduledOnce begins with BusyDurableArchiveScopes.
CheckBusy(e) ==
    /\ e \in Schedulers /\ enq[e].pc = "idle"
    /\ ~Busy
    /\ enq' = [enq EXCEPT ![e].pc = "cursor"]
    /\ UNCHANGED <<arrived, known, stored, runs, wk, faults>>

ReadCursor(e) ==
    /\ enq[e].pc = (IF e \in Schedulers THEN "cursor" ELSE "idle")
    /\ enq' = [enq EXCEPT ![e] = [pc |-> IF e \in Schedulers THEN "probe" ELSE "add",
                                  cursor |-> LatestArchiveSyncCursor]]
    /\ UNCHANGED <<arrived, known, stored, runs, wk, faults>>

\* The probe of the bridge: nothing new, or an error, ends the pass.
Probe(e) ==
    /\ enq[e].pc = "probe"
    /\ \/ arrived > enq[e].cursor /\ enq' = [enq EXCEPT ![e].pc = "add"] /\ UNCHANGED faults
       \/ arrived <= enq[e].cursor /\ enq' = [enq EXCEPT ![e] = NotAsking] /\ UNCHANGED faults
       \/ Fault /\ enq' = [enq EXCEPT ![e] = NotAsking]
    /\ UNCHANGED <<arrived, known, stored, runs, wk>>

\* The rows the request's idempotency key may name: a user's request id, or
\* the probed cursor and the minute.
SameKey(e) ==
    {r \in Used : IF e \in Schedulers THEN runs[r].kind = "poll" /\ runs[r].start = enq[e].cursor
                                      ELSE runs[r].kind = "manual"}

\* The bound on rows; a request beyond it is forgotten.
MayAdd(e) ==
    \/ e \in Schedulers /\ SameKey(e) = {} /\ Free # {}
    \/ Cardinality(Free) > Reserve

\* EnqueueArchiveSync: the row of the key, or a new one at the cursor read.
EnqueueArchiveSync(e) ==
    /\ enq[e].pc = "add"
    /\ \/ \E r \in SameKey(e) : runs' = [runs EXCEPT ![r] = Requeued(@)]
       \/ /\ MayAdd(e)
          /\ runs' = [runs EXCEPT ![Min(Free)] =
                        [status |-> "queued", kind |-> IF e \in Schedulers THEN "poll" ELSE "manual",
                         start |-> enq[e].cursor, cursor |-> enq[e].cursor,
                         holder |-> NoWorker, expired |-> FALSE, due |-> arrived]]
       \/ SameKey(e) = {} /\ ~MayAdd(e) /\ UNCHANGED runs
    /\ enq' = [enq EXCEPT ![e] = NotAsking]
    /\ UNCHANGED <<arrived, known, stored, wk, faults>>

-----------------------------------------------------------------------------
(* Working runs off.                                                        *)

\* PendingDurableArchiveRuns.
Pending(r) == runs[r].status = "queued" \/ (runs[r].status = "running" /\ runs[r].expired)

\* RunPendingOnce: one read of the pending rows, then one after the other.
Scan(w) ==
    /\ wk[w].pc = "idle"
    /\ \E r \in RunIds : Pending(r)
    /\ wk' = [wk EXCEPT ![w] = [Resting EXCEPT !.pc = "take", !.todo = {r \in RunIds : Pending(r)}]]
    /\ UNCHANGED <<arrived, known, stored, runs, enq, faults>>

\* The item is over, one way or another.
NextItem(w) ==
    wk' = [wk EXCEPT ![w] = IF @.todo = {} THEN Resting ELSE [Resting EXCEPT !.pc = "take", !.todo = wk[w].todo]]

To(w, pc) == wk' = [wk EXCEPT ![w].pc = pc, ![w].next = 1, ![w].last = 0]

\* Sync: the row is enqueued again by its key, whatever became of it since the
\* list was read; only a row that is queued then goes on.
Take(w) ==
    /\ wk[w].pc = "take"
    /\ \E r \in wk[w].todo :
         LET rest == wk[w].todo \ {r}
         IN  /\ runs' = [runs EXCEPT ![r] = Requeued(@)]
             /\ wk' = [wk EXCEPT ![w] =
                         IF Requeued(runs[r]).status = "queued"
                         THEN [wk[w] EXCEPT !.pc = "start", !.run = r, !.todo = rest]
                         ELSE IF rest = {} THEN Resting ELSE [wk[w] EXCEPT !.todo = rest]]
    /\ UNCHANGED <<arrived, known, stored, enq, faults>>

\* MarkArchiveSyncRunning.  When the answer is lost the row stays running.
MarkArchiveSyncRunning(w) ==
    LET r == wk[w].run
        start == runs' = [runs EXCEPT ![r].status = "running", ![r].holder = w, ![r].expired = FALSE]
    IN  /\ wk[w].pc = "start"
        /\ \/ /\ runs[r].status = "queued" /\ start
              /\ wk' = [wk EXCEPT ![w].pc = "beat", ![w].cursor = runs[r].cursor]
              /\ UNCHANGED faults
           \/ /\ Fault
              /\ (runs[r].status = "queued" /\ start) \/ UNCHANGED runs
              /\ NextItem(w)
           \/ runs[r].status # "queued" /\ NextItem(w) /\ UNCHANGED <<runs, faults>>
        /\ UNCHANGED <<arrived, known, stored, enq>>

\* Faulty variant (Fenced): a run is written by its id alone.
Unfenced(w) == runs[wk[w].run].status # "none"

\* Every write of a run asks for its status, attempt and token.
Fenced(w) == runs[wk[w].run].status = "running" /\ runs[wk[w].run].holder = w

\* HeartbeatArchiveSync: renews the lease, even one that ran out.
HeartbeatArchiveSync(w) ==
    LET r == wk[w].run
        renew == runs' = [runs EXCEPT ![r].expired = FALSE]
    IN  /\ wk[w].pc = "beat"
        /\ \/ Fenced(w) /\ renew /\ To(w, "fetch") /\ UNCHANGED faults
           \/ Fault /\ ((Fenced(w) /\ renew) \/ UNCHANGED runs) /\ To(w, "fail")
           \/ ~Fenced(w) /\ To(w, "fail") /\ UNCHANGED <<runs, faults>>
        /\ UNCHANGED <<arrived, known, stored, enq>>

\* The last message of the page the bridge hands out.
PageEnd(w) == Min({arrived, wk[w].cursor + Limit})

\* BridgeSource.Fetch: the messages after the cursor, at most Limit.
Fetch(w) ==
    LET last == PageEnd(w)
    IN  /\ wk[w].pc = "fetch"
        /\ \/ /\ wk' = [wk EXCEPT ![w].pc = IF last > wk[w].cursor THEN "store" ELSE "finish",
                                  ![w].next = IF last > wk[w].cursor THEN wk[w].cursor + 1 ELSE 1,
                                  ![w].last = IF last > wk[w].cursor THEN last ELSE 0]
              /\ UNCHANGED faults
           \/ Fault /\ To(w, "fail")
        /\ UNCHANGED <<arrived, known, stored, runs, enq>>

\* Faulty variant (UpsertArchiveMessage): a message that cannot be stored is
\* passed over.
UpsertOrSkip(w) ==
    LET s == wk[w].next
    IN  /\ wk[w].pc = "store"
        /\ stored' = IF Fenced(w) /\ s \in known THEN stored \cup {s} ELSE stored
        /\ wk' = [wk EXCEPT ![w].next = s + 1, ![w].pc = IF s < wk[w].last THEN "store" ELSE "save"]
        /\ UNCHANGED <<arrived, known, runs, enq, faults>>

\* Faulty variant (UpsertArchiveMessage): a message that cannot be stored ends
\* the page before it, and the run.
UpsertOrStop(w) ==
    LET s == wk[w].next
        may == Fenced(w) /\ s \in known
    IN  /\ wk[w].pc = "store"
        /\ stored' = IF may THEN stored \cup {s} ELSE stored
        /\ wk' = [wk EXCEPT ![w].next = IF may THEN s + 1 ELSE s,
                            ![w].last = IF may THEN @ ELSE s - 1,
                            ![w].pc = IF may /\ s < wk[w].last THEN "store" ELSE "save"]
        /\ UNCHANGED <<arrived, known, runs, enq, faults>>

\* UpsertArchiveMessage: one transaction for a message; it is refused when the
\* lease is lost and when its participants are unknown.
UpsertArchiveMessage(w) ==
    LET s == wk[w].next
        may == Fenced(w) /\ s \in known
        store == stored' = stored \cup {s}
    IN  /\ wk[w].pc = "store"
        /\ \/ /\ may /\ store
              /\ wk' = [wk EXCEPT ![w].next = s + 1, ![w].pc = IF s < wk[w].last THEN "store" ELSE "save"]
              /\ UNCHANGED faults
           \/ Fault /\ ((may /\ store) \/ UNCHANGED stored) /\ To(w, "fail")
           \/ ~may /\ To(w, "fail") /\ UNCHANGED <<stored, faults>>
        /\ UNCHANGED <<arrived, known, runs, enq>>

\* Page.HasMore: a page shorter than the limit was the last one.
HasMore(w) == wk[w].last - wk[w].cursor >= Limit

\* SaveArchiveSyncCursor, after the whole page.  When the save fails or its
\* reply is lost, the run fails with the cursor before the page.
SaveArchiveSyncCursor(w) ==
    LET r == wk[w].run
        save == runs' = [runs EXCEPT ![r].cursor = wk[w].last]
    IN  /\ wk[w].pc = "save"
        /\ \/ /\ Fenced(w) /\ save
              /\ wk' = [wk EXCEPT ![w].pc = IF HasMore(w) THEN "beat" ELSE "finish", ![w].cursor = wk[w].last,
                                  ![w].next = 1, ![w].last = 0]
              /\ UNCHANGED faults
           \/ Fault /\ ((Fenced(w) /\ save) \/ UNCHANGED runs) /\ To(w, "fail")
           \/ ~Fenced(w) /\ To(w, "fail") /\ UNCHANGED <<runs, faults>>
        /\ UNCHANGED <<arrived, known, stored, enq>>

\* CompleteArchiveSync and FailArchiveSync, both by finishArchiveSync.
finishArchiveSync(w) ==
    LET r == wk[w].run
        finish == runs' = [runs EXCEPT ![r].status = IF wk[w].pc = "finish" THEN "succeeded" ELSE "failed",
                                       ![r].cursor = wk[w].cursor, ![r].holder = NoWorker,
                                       ![r].expired = FALSE]
    IN  /\ wk[w].pc \in {"finish", "fail"}
        /\ \/ Fenced(w) /\ finish /\ UNCHANGED faults
           \/ Fault /\ UNCHANGED runs
           \/ ~Fenced(w) /\ UNCHANGED <<runs, faults>>
        /\ NextItem(w)
        /\ UNCHANGED <<arrived, known, stored, enq>>

Crash(w) ==
    /\ wk[w].pc # "idle"
    /\ Fault
    /\ wk' = [wk EXCEPT ![w] = Resting]
    /\ UNCHANGED <<arrived, known, stored, runs, enq>>

WorkerStep(w) ==
    \/ Scan(w) \/ Take(w) \/ MarkArchiveSyncRunning(w) \/ HeartbeatArchiveSync(w) \/ Fetch(w)
    \/ UpsertArchiveMessage(w) \/ SaveArchiveSyncCursor(w) \/ finishArchiveSync(w)

EnqueueStep(e) == CheckBusy(e) \/ ReadCursor(e) \/ Probe(e) \/ EnqueueArchiveSync(e)

Next ==
    \/ Arrive
    \/ \E s \in 1 .. MaxSeq : Learn(s)
    \/ \E r \in RunIds : LeaseRunsOut(r)
    \/ \E e \in Enqueuers : EnqueueStep(e)
    \/ \E w \in Workers : WorkerStep(w) \/ Crash(w)

Spec == Init /\ [][Next]_vars

\* The periodic workers and the scheduler go on, leases end, and contacts get
\* known by the contact synchronisation; nobody has to ask by hand.
FairSpec ==
    /\ Spec
    /\ \A w \in Workers : WF_vars(WorkerStep(w))
    /\ \A e \in Schedulers : WF_vars(EnqueueStep(e))
    /\ \A r \in RunIds : WF_vars(LeaseRunsOut(r))
    /\ \A s \in 1 .. MaxSeq : WF_vars(Learn(s))

-----------------------------------------------------------------------------
\* The state has its types; no cursor and no page passes the last message.
ArchiveTypeOK ==
    /\ arrived \in 0 .. MaxSeq
    /\ known \subseteq 1 .. MaxSeq /\ stored \subseteq 1 .. MaxSeq
    /\ runs \in [RunIds -> [status : {"none", "queued", "running", "succeeded", "failed"},
                            kind : {"none", "poll", "manual"}, start : 0 .. MaxSeq, cursor : 0 .. MaxSeq,
                            holder : Workers \cup {NoWorker}, expired : BOOLEAN, due : 0 .. MaxSeq]]
    /\ wk \in [Workers -> [pc : {"idle", "take", "start", "beat", "fetch", "store", "save", "finish", "fail"},
                           todo : SUBSET RunIds, run : RunIds, cursor : 0 .. MaxSeq,
                           next : 1 .. MaxSeq + 1, last : 0 .. MaxSeq]]
    /\ enq \in [Enqueuers -> [pc : {"idle", "cursor", "probe", "add"}, cursor : 0 .. MaxSeq]]
    /\ faults \in 0 .. MaxFaults

\* No message is lost: whatever failed, died, was taken over or ran beside
\* another run, all messages up to every cursor of the ledger are stored.
NothingBelowCursorMissing == \A r \in Used : 1 .. runs[r].cursor \subseteq stored

\* A run that says it succeeded stored everything WeCom held when the run was
\* asked for.
SucceededIsComplete ==
    \A r \in Used : runs[r].status = "succeeded" => 1 .. runs[r].due \subseteq stored

\* A row in the hands of a live worker is not given a second outcome: once a
\* run succeeded nothing reopens it or changes its cursor.
SucceededIsFinal ==
    [][\A r \in RunIds : runs[r].status = "succeeded" => runs'[r] = runs[r]]_vars

\* Every message WeCom holds is stored in the end.
EveryMessageArchived == \A s \in 1 .. MaxSeq : s <= arrived ~> s \in stored

=============================================================================
