---------------------------- MODULE EmployeeSync ----------------------------
(***************************************************************************)
(* The company employee synchronisation: the dashboard request that        *)
(* queues a job in Redis and then notes it in MySQL, the worker that       *)
(* executes the job, the marker in mc_work_update_time that the dashboard  *)
(* shows, and the credentials that are rotated meanwhile.  The job queue   *)
(* is ReliableQueue with tickets; every job of the model belongs to one    *)
(* company, so there is one idempotency key.                               *)
(***************************************************************************)
EXTENDS ReliableQueue

CONSTANTS Requests,     \* concurrent StartEmployeeSync calls
          MaxVersion    \* bound: versions of the binding

ASSUME SyncConstants == MaxVersion \in Nat \ {0} /\ Ticketed /\ Kinds = {"event"}

VARIABLES marker,    \* newest mc_work_update_time row: code, version, ticket
          binding,   \* the tenant's WeCom binding: version, verified or not
          request,   \* calls between their Redis step and their MySQL step
          run,       \* each worker's position in Process and after it
          stored     \* the employees in MySQL: which job wrote them, fetched with which version

syncVars == <<marker, binding, request, run, stored>>
vars == <<queueVars, syncVars>>

NoRow == [code |-> "none", ver |-> 0, ticket |-> 0]

Marker == [code: {"none", "queued", "running", "failed", "completed"},
           ver: 0..MaxVersion, ticket: 0..MaxItems]

\* ver is the credential version Process read; 0 until then.
Run == [pc: {"none", "start", "read", "begun", "fetched", "done", "failed", "record"},
        ver: 0..MaxVersion, ticket: 0..MaxItems, verdict: {"none", "queued", "failed"}]

NoRun == [pc |-> "none", ver |-> 0, ticket |-> 0, verdict |-> "none"]

SyncTypeOK ==
    /\ QueueTypeOK
    /\ marker \in Marker
    /\ binding \in [ver: 1..MaxVersion, verified: BOOLEAN]
    /\ request \in [Requests -> 0..MaxItems]
    /\ run \in [Workers -> Run]
    /\ stored \in [ver: 0..MaxVersion, ticket: 0..MaxItems]

SyncInit ==
    /\ QueueInit
    /\ marker = NoRow
    /\ binding = [ver |-> 1, verified |-> TRUE]
    /\ request = [r \in Requests |-> 0]
    /\ run = [w \in Workers |-> NoRun]
    /\ stored = [ver |-> 0, ticket |-> 0]

-----------------------------------------------------------------------------
\* StartEmployeeSync, first half: the enqueue script returns a new ticket, or
\* the one that holds the claim.
StartSync(r, k) ==
    /\ request[r] = 0
    /\ binding.verified
    /\ \/ Enqueue(k) /\ request' = [request EXCEPT ![r] = issued + 1]
       \/ /\ claim[k].ttl > 0
          /\ request' = [request EXCEPT ![r] = claim[k].n]
          /\ UNCHANGED queueVars
    /\ UNCHANGED <<marker, binding, run, stored>>

\* Faulty variant (KeepsMarker): the guard against newer tickets is missing.
KeepsMarkerOfOwnTicket(t) ==
    /\ marker.ticket = t
    /\ marker.ver = binding.ver
    /\ marker.code \in {"queued", "running", "completed"}

\* Faulty variant (KeepsMarker): a completion is not preserved.
KeepsMarkerUntilDone(t) ==
    \/ marker.ticket > t
    \/ /\ marker.ticket = t
       /\ marker.ver = binding.ver
       /\ marker.code \in {"queued", "running"}

\* queueCompanySyncStateTx leaves the row alone for a newer ticket, and for its
\* own ticket when the current version is queued, running or completed.
KeepsMarker(t) ==
    \/ marker.ticket > t
    \/ /\ marker.ticket = t
       /\ marker.ver = binding.ver
       /\ marker.code \in {"queued", "running", "completed"}

\* StartEmployeeSync, second half: QueueEmployeeSync notes the job.
NoteQueued(r) ==
    LET t == request[r] IN
    /\ t # 0
    /\ binding.verified
    /\ marker' = IF KeepsMarker(t) THEN marker
                 ELSE [code |-> "queued", ver |-> binding.ver, ticket |-> t]
    /\ request' = [request EXCEPT ![r] = 0]
    /\ UNCHANGED <<queueVars, binding, run, stored>>

\* The second half fails or the server dies; the job stays in Redis.
NoteLost(r) ==
    /\ request[r] # 0
    /\ request' = [request EXCEPT ![r] = 0]
    /\ UNCHANGED <<queueVars, marker, binding, run, stored>>

\* Credentials are rotated or verified again: updateCompanyBindingVersionTx.
ChangeBinding ==
    /\ binding.ver < MaxVersion
    /\ \E verified \in BOOLEAN :
          binding' = [ver |-> binding.ver + 1, verified |-> verified]
    /\ UNCHANGED <<queueVars, marker, request, run, stored>>

-----------------------------------------------------------------------------
\* The worker takes a job when it has nothing left to record.
TakeJob(w) == run[w].pc = "none" /\ Take(w) /\ UNCHANGED syncVars

MarkJob(w) ==
    /\ Mark(w)
    /\ run' = IF worker'[w].pc = "busy"
              THEN [run EXCEPT ![w] = [NoRun EXCEPT !.pc = "start", !.ticket = worker[w].item.n]]
              ELSE run
    /\ UNCHANGED <<marker, binding, request, stored>>

\* CompanyEmployeeSyncCredentials: the version every later write is tied to.
ReadCredential(w) ==
    /\ run[w].pc = "start"
    /\ binding.verified
    /\ run' = [run EXCEPT ![w].pc = "read", ![w].ver = binding.ver]
    /\ UNCHANGED <<queueVars, marker, binding, request, stored>>

\* Faulty variant (MayWrite): the credential version is not compared.
MayWriteAnyVersion(w) == binding.verified /\ marker.ticket <= run[w].ticket

\* What every versioned transaction of the worker checks.
MayWrite(w) ==
    /\ binding.verified
    /\ binding.ver = run[w].ver
    /\ marker.ticket <= run[w].ticket

\* BeginCompanyEmployeeSyncAtVersion.
BeginSync(w) ==
    /\ run[w].pc = "read"
    /\ MayWrite(w)
    /\ marker' = [code |-> "running", ver |-> binding.ver, ticket |-> run[w].ticket]
    /\ run' = [run EXCEPT ![w].pc = "begun"]
    /\ UNCHANGED <<queueVars, binding, request, stored>>

\* Departments and users are read from WeCom.
FetchEmployees(w) ==
    /\ run[w].pc = "begun"
    /\ run' = [run EXCEPT ![w].pc = "fetched"]
    /\ UNCHANGED <<queueVars, marker, binding, request, stored>>

\* SyncCompanyEmployeesAtVersion: employees and marker in one transaction.  Its
\* commit may succeed while the worker sees an error.
SaveEmployees(w) ==
    /\ run[w].pc = "fetched"
    /\ MayWrite(w)
    /\ stored' = [ver |-> run[w].ver, ticket |-> run[w].ticket]
    /\ marker' = [code |-> "completed", ver |-> binding.ver, ticket |-> run[w].ticket]
    /\ \E pc \in {"done", "failed"} : run' = [run EXCEPT ![w].pc = pc]
    /\ UNCHANGED <<queueVars, binding, request>>

\* Any step of Process returns an error: a refused or failed transaction, a
\* missing credential, an error of WeCom.
FailSync(w) ==
    /\ run[w].pc \in {"start", "read", "begun", "fetched"}
    /\ run' = [run EXCEPT ![w].pc = "failed"]
    /\ UNCHANGED <<queueVars, marker, binding, request, stored>>

AckJob(w) ==
    /\ run[w].pc = "done"
    /\ Ack(w)
    /\ run' = [run EXCEPT ![w] = NoRun]
    /\ UNCHANGED <<marker, binding, request, stored>>

\* Faulty variant (VerdictOf): every failure is reported as the last one.
VerdictAlwaysFailed(item) == "failed"

\* retryFailedDelivery: what is to be recorded for the item just put back.
VerdictOf(item) == IF item.att + 1 >= MaxAttempts THEN "failed" ELSE "queued"

\* The job is put back first and the marker is written in a later step; without
\* a credential version, or when the job was no longer this worker's, never.
RetryJob(w) ==
    /\ run[w].pc = "failed"
    /\ Retry(w)
    /\ run' = [run EXCEPT ![w] =
                 IF In(worker[w].item, processing) /\ run[w].ver # 0
                 THEN [run[w] EXCEPT !.pc = "record", !.verdict = VerdictOf(worker[w].item)]
                 ELSE NoRun]
    /\ UNCHANGED <<marker, binding, request, stored>>

\* recordRequeuedState and recordDeadLetterState; a refusal is only logged.
RecordVerdict(w) ==
    /\ run[w].pc = "record"
    /\ marker' = IF MayWrite(w)
                 THEN [code |-> run[w].verdict, ver |-> binding.ver, ticket |-> run[w].ticket]
                 ELSE marker
    /\ run' = [run EXCEPT ![w] = NoRun]
    /\ UNCHANGED <<queueVars, binding, request, stored>>

\* The worker process dies, or the write of its verdict fails.
LoseWorker(w) ==
    /\ \/ Lose(w)
       \/ run[w].pc = "record" /\ UNCHANGED queueVars
    /\ run' = [run EXCEPT ![w] = NoRun]
    /\ UNCHANGED <<marker, binding, request, stored>>

RecoverJobs(w) ==
    /\ run[w].pc = "none"
    /\ StartRecovery(w) \/ RecoverItem(w) \/ Poll(w)
    /\ UNCHANGED syncVars

SyncNext ==
    \/ \E r \in Requests : \/ \E k \in Keys : StartSync(r, k)
                           \/ NoteQueued(r) \/ NoteLost(r)
    \/ ChangeBinding
    \/ \E w \in Workers :
         \/ TakeJob(w) \/ MarkJob(w) \/ ReadCredential(w) \/ BeginSync(w)
         \/ FetchEmployees(w) \/ SaveEmployees(w) \/ FailSync(w)
         \/ AckJob(w) \/ RetryJob(w) \/ RecordVerdict(w) \/ LoseWorker(w) \/ RecoverJobs(w)
    \/ Tick /\ UNCHANGED syncVars

SyncSpec == SyncInit /\ [][SyncNext]_vars

-----------------------------------------------------------------------------
\* A delayed request or a delayed worker never replaces the marker or the
\* employees of a newer job.
NewerJobWins ==
    [][marker'.ticket >= marker.ticket /\ stored'.ticket >= stored.ticket]_vars

\* A marker that says completed describes the employees in the database: same
\* job, same credential version as they were fetched with.
CompletedDescribesData ==
    marker.code = "completed" =>
        stored = [ver |-> marker.ver, ticket |-> marker.ticket]

\* "Failed" is shown only for a job that will not run again.
FailedIsOver == marker.code = "failed" => Copies(marker.ticket, dead) = 1

\* A request's late note never takes back the completion of its own job: while
\* the credentials stay, only a worker of the job may replace it
\* (company_employee_sync.go:342-346).
LateNoteKeepsCompletion ==
    [][marker.code = "completed" /\ marker'.ticket = marker.ticket /\ marker'.ver = marker.ver
         => marker' = marker \/ run' # run]_vars

=============================================================================
