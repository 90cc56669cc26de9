# Mochat-go: a TLA+ development

Mochat-go (Go module `jiyi/mochat-go`) is the server of a WeCom (WeChat Work)
customer-relationship platform: it receives WeCom's callbacks, keeps contacts,
rooms, tags and marketing campaigns in MySQL, pulls the conversation archive,
sends messages through WeCom, and runs a SaaS control plane (approvals, payments,
backups, audit). Most of its 415,000 lines of Go are request handlers over one
database. The part with a protocol of its own, several processes, an unreliable
peer and a promise that is hard to keep, is the path from a WeCom callback to
the messages sent because of it. That path is the core of
this development. Around it stand the other durable protocols of the server: the
Redis queues, the employee synchronisation, the one-time cutover from Redis to
MySQL, group sends, and the three generations of archive synchronisation.

## Inventory

| Component | State it keeps | Operations | What makes it correct | Module |
|---|---|---|---|---|
| Callback endpoint (`internal/dashboard/wework_callback.go`) | none of its own | verify, decrypt, accept into the inbox, answer, wake a worker | "success" is answered only for what is stored | `CallbackInbox` |
| Durable inbox (`internal/store/wework_callback_inbox.go`, table `mochat_go_wework_callback_inbox`) | status, attempts, deferrals, lease token, fence and expiry, next attempt | accept, claim (with dead-letter sweep), validate, complete, fail, defer | one live owner; a verdict only by the latest owner; bounded retries; every event resolved | `CallbackInbox` |
| Callback worker (`internal/dashboard/wework_callback_worker.go`) | the claim in hand, a processing context with a deadline | poll, process, give the verdict | a stalled worker changes nothing it no longer owns | `CallbackInbox` |
| Side effect ledger (`internal/store/wework_callback_side_effect.go`, table `mochat_go_wework_callback_side_effects`) | per event and action: pending, unknown or sent; version, payload hash, quarantine deadline | insert intent, begin, complete | a message leaves at most once; `sent` and `pending` are true of WeCom | `CallbackSideEffects` |
| Operator reconciliation (`internal/companyprofile/callback_side_effect_recovery.go`, `internal/store/wework_callback_side_effect_recovery.go`) | receipts per Idempotency-Key, audit | list, detail, reconcile (confirm sent / confirm not sent and retry) | stale commands are refused; the replay waits for all actions | `CallbackSideEffects` |
| Fission campaign (`HandleWorkFissionAddContact` in `internal/store/mysql.go`) | children of a parent contact, `invite_count`, status | sync contact, count invitation, derive completion messages | each invitation counts once, what an execution finds due is sent before its event is over | `CallbackSideEffects` |
| Legacy Redis cutover (`cmd/mochat-callback-legacy-cutover`) | one cutover row with an owner token, the three old Redis lists | begin, import, complete, fail | nothing removed before it is stored, one importer, `completed` means drained | `LegacyCutover` |
| Redis queues (`internal/store/redis.go`) | source, processing and dead list, idempotency claims, tickets | enqueue, take, mark, acknowledge, retry, recover | nothing taken is lost or held twice | `ReliableQueue` |
| Employee synchronisation (`internal/store/company_employee_sync.go`, `internal/dashboard/employee_apply_worker.go`) | the marker in `mc_work_update_time`, the queue, the credential version | request, note queued, begin, save, complete, fail, retry | the marker describes the newest job and the data it wrote | `EmployeeSync` |
| Capability dispatch (`internal/wecomcapability/dispatch_runner.go`, `internal/store/wecom_capability_ledger.go`) with contact and room batches (`internal/dashboard/contact_message_batch_send.go`, `internal/store/contact_batch_dispatch_read.go`) | operation, dispatch and result rows, leases, credential generations | create, cancel, claim, submit, record, poll, retry, fail | WeCom is asked once per chunk, a cancelled batch is not sent, a success is true | `BatchDispatch` |
| Batch reminder (same files) | one operation row per Idempotency-Key | prepare, send, record | nobody is reminded twice by one request | `BatchReminder` |
| Archive synchronisation (`internal/modules/providers/archive`, `internal/store/archive_sync.go`) | run ledger with leases and cursors, messages | probe, enqueue, take, fetch, store, save cursor, finish | the cursor never passes an unstored message | `ArchiveSync` |
| Archive media (`internal/modules/providers/archive/media_sync.go`, `internal/store/archive_media.go`) | media row with lease and checkpoint, part files, final file | claim, resume, fetch, checkpoint, publish, clean up | `ready` means the whole file is there, a checkpoint is backed by bytes | `ArchiveMedia` |
| Older archive cron (`internal/store/work_message_archive_sync.go`) | cursor rows, messages | read cursor, fetch, store, write cursor | no message is skipped | `ArchiveCron` |
| Task runner (`internal/taskrunner`) | run records | start, finish, record | records match runs | - |
| SaaS approvals (`internal/store/saas_admin_approval.go`) | approval requests | request, approve, reject, execute, expire | two people, one execution | - |
| SaaS payments, backup recovery, audit anchor, export worker | their tables | claim loops and long transactions | single execution, monotonic states | - |
| Migrations, authentication, HTTP handlers, front end, deployment | - | - | not modelled, see below | - |

How they interact. WeCom calls the endpoint; the endpoint inserts a row and wakes
the worker loop through Redis (the wake-up is a hint: the loop also polls). Any
number of worker processes claim rows; the claim carries a random token and a
fence that every later statement of that execution compares. Processing an
`add_external_contact` event of a fission campaign commits the contact, then in a
second transaction the child, the counter and the ledger's intents, then calls
WeCom for up to two messages, each bracketed by two ledger transactions that
re-check the lease. An operator, in a third process, resolves ledger rows that
ended `unknown` and reopens the inbox row in the same transaction. When an
installation moves from the former Redis lists to the inbox, an operator stops
the old producers and runs the cutover command once.

The dashboard and other handlers push work into ten Redis queues that share one
implementation; the employee synchronisation is one of them and couples the queue
to a MySQL marker and to the tenant's credential version. A batch request writes
an operation and its dispatches in one transaction; a cron in every process picks
them up, calls WeCom and polls until every recipient has a result; the credential
may be rotated and rights withdrawn meanwhile. Archive runs are requested by a
timer and by people, executed by periodic workers of every process, and leave
media rows that other workers download into a shared directory that a cleaner
also visits.

What is hard here: a lease can expire at any point of a sequence of transactions,
calls and file operations; the two business transactions of the callback are not
fenced; WeCom is not trusted to reject a duplicate, and a request without an
answer may still be accepted; a replay re-reads a campaign that people edit
meanwhile; operators act on pages they read earlier; Redis and MySQL, and MySQL
and the file system, change in separate steps; a Redis item is removed by its
value, so a rewritten item is another item; a pass that was overtaken writes its
older cursor. `PROJECT.json` lists these hazards line by line.

## Modules

* `EventLifecycle` - the abstract promise about one event: absent, open, then one
  verdict; completed is final, dead can be reopened. `VerdictSpec` is the same
  without the reopening: the promise about an item of a Redis queue.
* `OneDelivery` - the abstract promise about a message for WeCom: handed over at
  most once, its verdict true and final. The side effect ledger, the batch ledger
  and the reminders each implement it, with a property `ImplementsDelivery` in
  their module.
* `CallbackInbox` - the inbox table, the endpoint and the worker loop. One action
  per SQL transaction or worker step:

  | Action | Code |
  |---|---|
  | `Deliver` (with `Accept`) | `receiveEvent`, `AcceptWeWorkCallback` |
  | `Claim` (`Swept`, `Claimable`, `Leased`) | `ClaimWeWorkCallback`: sweep, select lowest id, lease, one transaction |
  | `Validate` | `ValidateWeWorkCallbackClaim`, called from `handleClaim` before the processing context starts |
  | `ProcessReturns` | the return of `Process`: ok, error, or the dependency-unavailable error |
  | `Complete`, `Fail`, `Defer` | the three fenced verdict statements |
  | `Crash` | the process ends, or a verdict's error is only logged |
  | `Revive` | the inbox UPDATE of `ReconcileCallbackSideEffect` |
  | `Tick` | the database clock and the context deadlines |

  State: `row` is the table (`fp` the payload fingerprint, `defers` the deferral
  count kept with the row, `revived` a history count), `worker` is each process'
  claim and program position, `acked` and `okFence` are history used only by
  properties.
* `CallbackSideEffects` - extends the inbox with the body of `Process` for the
  contact event, the ledger, the operator, the campaign and WeCom. `run` is the
  position in `syncContactFromEvent` / `handleFissionAddContactFromState`;
  `intent` is the ledger; `provider` and `flight` are what WeCom accepted and what
  may still arrive; `contacts`, `children`, `inviteCount` are the business rows;
  `activity` is the campaign as the next execution will read it, one of the records
  `Campaigns`: whether it is found and staffed, its total, its new-friend rule, and
  for each of the two messages what it would say, or `Nothing` when it is switched
  off, when the campaign has ended, or when it has no recipient. `ChangeActivity` is
  the editor (`UpdateWorkFission`), the clock and the directory: any number of
  moves, there and back, between these records; only a deleted campaign does not
  come back. `DueActions` decides each message alone, `PassOver` is the message that
  is not due, and `HashConflict` compares only those that are. `cmd` and `receipts`
  are operator commands, and `okDue` is history: what the successful execution that
  `okFence` remembers had found due. Inbox actions are reused, conjoined with what `Process` does:
  the property `ImplementsInbox` checks that the composition is still an inbox.

* `ReliableQueue` - the ten work queues and their worker loops (`LoopStep`). `Ticketed` tells
  the employee-apply queue, whose claims carry a ticket number, from the rest.

  | Action | Code |
  |---|---|
  | `Enqueue`, `Push` | the enqueue scripts: claim, INCR, LPUSH; and a plain LPUSH without envelope |
  | `StartRecovery`, `RecoverItem` | the LRANGE snapshot of abandoned items, and each of them moved back or buried |
  | `Take`, `Poll` | BLMOVE from the source to the processing list, or its timeout |
  | `Mark` | the rest of Dequeue: bury what cannot be decoded, write the processing mark |
  | `Ack`, `Retry` | the two ends of `Process`; a retry counts the attempt and buries the last |
  | `Lose` | a process dies, or a script took effect and its reply was lost |
  | `Tick` | marks grow stale, claims expire |

  An item is identified by what makes its string unique: number, attempts and
  mark. LREM with count 1 removes the first item that equals a string
  (`RemoveFirst`); of a string that is no longer there it removes nothing, and the
  scripts return before changing anything else: that is the queue's only fence.
* `EmployeeSync` - extends `ReliableQueue`; each queue step of a job is conjoined
  with what the employee worker does at that step. `StartSync` and `NoteQueued`
  (or `NoteLost`) are the two halves of a request, in Redis and in MySQL;
  `TakeJob`, `MarkJob`, `ReadCredential`, `BeginSync`, `FetchEmployees`,
  `SaveEmployees`, `FailSync`, `AckJob`, `RetryJob`, `RecordVerdict` are the
  worker, `ChangeBinding` is a rotation or a loss of verification, `LoseWorker`
  and `RecoverJobs` the crash and what follows it.
* `LegacyCutover` - starts of the command (`runner`), the marker row, the lists of
  two Redis instances, and the inbox as a map from event key to payload.
  `ReadMarker`, `Begin`, `Preflight`, `NextLegacy`, `Accept`, `Ack`, `FinalCheck`,
  `Complete`, `FailCutover` follow the command line by line; `ImportError`, `Die`
  are its ends; `Deliver` is new traffic that already goes to the inbox and
  `Straggle` a legacy producer somebody left running.
* `BatchDispatch` - `op`, `row` and `recorded` are the three tables, `message` is
  WeCom. `Create` and `Cancel` are the batch's requests, `Pick` is the list of
  one pass of the cron, and `Run` is the disjunction of the steps of
  `DispatchRunner.Run`: `Preclaim`, `Claim`, `Authorize`, `StartSubmit`,
  `Payload`, `Send`, `Record`, `Reconcile`, `Fail`, `Poll`, `Wait`, `Retry`,
  `ToPolling`, `RecordResult`, `Finish`. The environment is `Crash`,
  `LeaseRunsOut`, `RunOutlivesLease`, `NextPollComes`, `RotateCredential`,
  `Withdraw`, `Restore`, and WeCom: `Deliver` ends the task with any recipients
  reached and any others in the result list, `DeliverLate` and `ListMore` add to
  either afterwards. `Successes` and `Polled` are what the poller and the runner
  make of the list. `message[d].told` is history: the successes the list named when
  the holder of the lease last asked.
* `BatchReminder` - `Prepare`, `Send`, `Record` of one request, `Crash`,
  `LeaseRunsOut`.
* `ArchiveSync` - schedulers (`CheckBusy`, `ReadCursor`, `Probe`), requesters and
  schedulers (`EnqueueArchiveSync`), workers (`Scan`, `Take`,
  `MarkArchiveSyncRunning`, `HeartbeatArchiveSync`, `Fetch`,
  `UpsertArchiveMessage`, `SaveArchiveSyncCursor`, `finishArchiveSync`), and
  `Arrive`, `Learn`, `LeaseRunsOut`, `Crash`.
* `ArchiveMedia` - `ClaimArchiveMedia`, the copy of the earlier attempt's file, one
  action per chunk fetched, written and checkpointed, the link to the final name,
  the verdicts, `CleanupAttempts`, and the cleaner's `GcSnapshot` and `GcRemove`.
  The part files and the final file are variables beside the row.
* `ArchiveCron` - `ReadCursor`, `FetchWorkMessageArchive`,
  `UpsertWorkMessageArchive`, `UpdateCursor`, `InsertCursor`, and `Arrive`,
  `Crash`.
* `MC...` - model values for TLC, one module per specification.

Theorems are in modules of their own (see *Proofs*):

| Module | Theorems about |
|---|---|
| `CallbackProofs` | `CallbackInbox`, `CallbackSideEffects` |
| `EmployeeSyncProofs` | `ReliableQueue`, `EmployeeSync` |
| `LegacyCutoverProofs` | `LegacyCutover` |
| `BatchDispatchProofs` | `BatchDispatch` |
| `BatchReminderProofs` | `BatchReminder` |
| `ArchiveSyncProofs` | `ArchiveSync` |
| `ArchiveMediaProofs` | `ArchiveMedia` |
| `ArchiveCronProofs` | `ArchiveCron` |

Each module also states its type invariant (`...TypeOK`). That of the inbox is a
property of its run too; the others are theorems only, because a violated type
would show in the run's other properties first. The queue's and the
synchronisation's have a hypothesis, see *Only model-checked*.

Operators commented "Faulty variant (X)" are not used by any specification. They
state plausible mistakes in X; replacing X by one of them makes the property
paired with it in `PROJECT.json` fail, which shows that the property depends on
that line of the code.

### Abstractions

* Time. In the callback modules and the queue, a deadline the code compares with
  "now" is a countdown compared with 0, and `Tick` lowers all of them; durations
  are small numbers that keep the order the code has: lease longer than
  processing, quarantine at least processing plus the provider's request life. In
  the batch and archive modules a lease is live or not, and ends in a step of its
  own; that it ends while its worker still runs counts as a fault.
* Lease tokens. The inbox draws a random token per claim, modelled as the number
  of the claim. In the batch ledger and the archive runs token and attempt are
  compared together and a worker runs one claim at a time, so the holder's name
  stands for both. In the media row every claim takes a new attempt, and the
  attempt stands for the token.
* A payload is a fingerprint; a ledger payload hash stands for what the message
  says, and differs when an edit changed that; a file is the sequence of its chunks and stands for its
  digest; an archived message is its sequence number.
* The order of steps inside one SQL transaction or one Redis script is not
  observable and is one action; every point between transactions, and before and
  after each call, is a separate state where another actor, the clock or a crash
  can act.
* The other event types of `Process` are `ProcessReturns` with any outcome.
* All events of the side-effect model are invitations of the same parent, by
  contacts who were not known before the event arrived.
* What the authorizer of a batch looks at (tenant, quota, rights, scope,
  ownership) is one Boolean that may change at any time.
* The employee queue is modelled with tickets and versions. The older callers
  that write the same marker without a ticket are left out.
* Whether a binding is eligible for archive runs, audit rows and status pages are
  left out.
* Crashes are those of processes: what was written to MySQL, Redis or a file
  before the crash is still there. Loss of power is not modelled.
* Logging, error texts, tenant scoping, audit rows and pagination are left out.

### Environment assumptions

* WeCom accepts a callback's message at most once and, after the client gave up,
  within `RequestLife`. `SideEffectConstants` assumes
  `Quarantine >= ProcessingTimeout + RequestLife`: the code fixes 15 minutes for
  the quarantine and defaults to 5 minutes of processing, but does not enforce the
  relation (`internal/config/config.go:629`).
* The operator is truthful and collects the evidence after the quarantine, as
  the runbook `docs/runbooks/2026-08-30-wework-callback-side-effect-reconciliation.zh-CN.md`
  demands: `Inspect` reads the ledger and WeCom in one step. Between `Inspect` and
  `Reconcile` anything may happen.
* Dependency outages are finite: `MaxDefers`. The code has no such limit, because
  a deferral gives the attempt back; with endless outages an event waits for ever,
  by design.
* Everywhere else too, faults are finite (`MaxFaults`, `MaxLosses`,
  `MaxStragglers`): crashes, failed or unanswered calls, leases that end under a
  live worker. Safety properties hold for any order of that many faults, and
  liveness says what happens once they stop.
* The employee's task for a submitted group message ends eventually, and a task
  that ended lists somebody eventually. Nothing is assumed of who is listed, of
  when the list is complete, or of it naming those who were reached; what it says
  of a recipient is true.
* A reminder request that repeats a `requestId` is a repetition of the same request.
  The key, `contact-remind:request:<requestId>`
  (`internal/store/contact_batch_dispatch_read.go:525`), has neither the batch nor
  the employee in it, so one that names another batch under a succeeded key would
  be answered success without a message. Without a `requestId` the key names both.
* The participants of an archived message get known eventually.
* An archive page limit is at most 1000. The bridge turns a larger one into 100
  (`internal/archivebridge/handler.go:188`), and its pages would look short.

## Runs

| Run | Instance | Checks |
|---|---|---|
| `inbox` | 1 event, 2 payloads, 2 workers, 2 attempts, 2 deferrals, 1 replay, fairness | `InboxTypeOK`, `AckedIsStored`, `OneLiveOwner`, `CompletedByLastOwner`, `RetryBudget`, `ImplementsLifecycle`, `AcceptedIsResolved` |
| `effects` | 1 event, 2 workers, 1 attempt, 1 deferral, 2 actions, 2 operator commands, 2 replays, any moves between 4 forms of the campaign | `ImplementsDelivery`, `ImplementsInbox`, `LedgerIsTruthful`, `CompletedSentWhatWasDue`, `InvitationsCountOnce`, `ReplayWaitsForEveryAction` |
| `effects_overtaken` | 2 events, 1 worker, 2 attempts, 1 action, task total 1 | `UnknownBlocksCompletion` is violated |
| `queue` | tickets, 2 items of one key and malformed ones, 2 workers, 2 attempts, 2 losses, fairness | `ImplementsLifecycle`, `OneHolder`, `ClaimIsLive`, `ClaimFreedByOwner`, `ItemsSettle` |
| `sync` | 2 requests, 2 jobs, 2 workers, 2 attempts, 1 loss, 2 credential versions | `FailedIsOver`, `CompletedDescribesData`, `NewerJobWins`, `LateNoteKeepsCompletion` |
| `cutover` | 2 starts, 2 Redis instances, 1 straggler, 5 backlogs, fairness | `RemovedIsStored`, `OneImporter`, `CompletedIsDrained`, `RunningEnds` |
| `batch` | 1 chunk of 2 recipients, 2 processes, 2 credential generations, 2 faults, any result list, fairness | `ImplementsDelivery`, `CancelledWasNotSent`, `ReportedSuccessIsTrue`, `DispatchSettles` |
| `reminder` | 3 requests under 2 keys, 2 employees, 3 faults | `RemindedOnce` |
| `archive_workers` | 2 workers, a scheduler and a requester, 2 runs, pages of 2 messages, one with unknown participants, 1 fault | `NothingBelowCursorMissing`, `SucceededIsComplete`, `SucceededIsFinal` |
| `archive_live` | 2 workers, a scheduler, pages of 1 message, 2 faults, fairness | `EveryMessageArchived` |
| `media` | 2 workers and the cleaner, 2 chunks, 3 faults, fairness | `ReadyIsWhole`, `CheckpointIsBacked`, `CorruptIsExplained`, `MediaSettles` |
| `archive_cron` | 2 processes, 4 messages, pages of 2, 3 cursor rows, 3 faults | `NoMessageSkipped` |

Why these bounds are enough to be interesting.

* Ownership, everywhere, involves a stale owner and the new one: two workers, and
  two attempts or a fault that ends a lease under its holder, produce every
  relation of old and new lease. A replay adds a third fence.
* Three refinements imply an invariant that no run lists on its own, because each
  run's refinement fails whenever it does: `AtMostOnce` (of `ImplementsDelivery` in
  `effects`), `SubmittedOnce` (in `batch`) and `NothingLostOrDoubled` (of
  `ImplementsLifecycle` in `queue`). `ImplementsDelivery` of the reminders holds in
  the instance of `reminder`; that was checked once, and it is proved.
* Rows of the inbox are independent except for the sweep and the id order of the
  claim. At-most-once is a statement about one action of one event; two actions
  are needed for the joined error and the shared replay, two commands for a stale
  one and for one per action. In `effects` the second and third execution come
  from replays; automatic retries are in `inbox`, and in `effects_overtaken`
  together with a second event.
* The four campaigns of `effects` are the one configured; the same with another
  reminder text and the push switched off; one that has ended, with a larger task
  and its employee gone; and the deleted one. They differ in every decision an
  execution takes, and a moved campaign can move back: a payload differs from the
  stored hash, one message or both are not due, the count is not the total, the
  event is ignored, or the campaign is not found.
* Two items of one key show an old and a new claim, two losses a crash of the
  worker and one of the recovery. With plain items instead of tickets
  (`Ticketed = FALSE`) the same instance satisfies `ImplementsLifecycle` and
  `ItemsSettle`; that was checked once.
* Two requests and two jobs give a note of the older job after the newer one
  ended; two versions a rotation between reading a credential and saving what was
  fetched with it.
* The five backlogs of the cutover have duplicates, an unreadable event, dead
  letters and a half processed list; conflicting payloads come from new traffic;
  two instances let a start name the wrong one.
* Two recipients let a batch end partly failed, and let the list name one and
  leave out the other, who was reached or not. Two faults are one that makes a
  chunk uncertain (a crash, a lost answer, an overrun lease) and one that befalls
  whoever takes it over; with three the same instance holds too (1.4 million
  states, checked once). Chunks touch each other only through the parent row and
  the list of due dispatches, so one chunk is enough for what is said of a chunk.
* Pages of two messages let one message of a page fail; pages of one make a run
  stop at its page limit and another go on. Four messages in pages of two are two
  passes of the cron that overtake each other.
* Two chunks have a checkpoint between them, and three faults a takeover of a
  takeover.
* Bounds that only cap counters are guards of the actions they cap.

Where `SYMMETRY` is used (`effects`, `sync`, `archive_workers`, `archive_cron`),
workers, requests or processes are interchangeable: no definition names one. The
runs with liveness use none, nor does the order of rows depend on it.

Deadlock checking is off in `cutover`, `batch`, `reminder` and `media`: starts of
a command, a batch, requests and one download come to their end, and the model
then stops. The loops of the others poll for ever.

### Fairness

* `InboxFairSpec`: weak fairness of `Tick`, because clocks advance, and of the
  disjunction of all worker steps, because `Run` loops until shutdown, polls
  without needing a wake-up, and `Process` is cut off by its context. Nothing is
  assumed of one particular worker, of deliveries or of operators, and crashes are
  always possible. `AcceptedIsResolved` holds although every claim may end in a
  crash: each claim consumes an attempt, and the sweep buries what is left.
* `QueueFairSpec`: weak fairness of `Tick` and of each worker's loop; producers
  and losses owe nothing.
* `LegacyCutover`: weak fairness of each started command. Its context has a
  timeout, so it ends one way or another; that it is started again is not assumed.
* `BatchDispatch`: weak fairness of each process' runner, which is bounded by its
  contexts, and of the lease's end, the next poll time, and WeCom's ending the task
  and then listing a first recipient; and
  strong fairness of picking a given dispatch by some process. Each pass lists all
  due dispatches up to a page limit larger than any instance here and works
  through the list, so a dispatch that is due again and again is picked; a due
  dispatch may also stop being due meanwhile, which is why weak fairness would not
  express it.
* `ArchiveSync`: weak fairness of each worker and scheduler, which are timers of
  the server, of a lease's end, and of a participant getting known.
* `ArchiveMedia`: weak fairness of each worker, the lease's end and the cleaner.

### What the violated property shows

`effects_overtaken`. A first attempt completes the task and leaves its message
`unknown`; another friend joins, so the counter is past the total; the replay
compares it with the total for equality, finds no message due, never looks at the
ledger, and the event is completed. From then on reconciliation refuses the row.
The same happens when the campaign ends or is deleted, its employee leaves, or the
message is switched off between the attempts, and it stays so when the campaign is
extended or the message switched on again afterwards. The readiness report says
that every error of the durable path prevents completion. That holds of the errors
of one execution only, and so `CompletedSentWhatWasDue` is about executions: the
one that completes an event is that of its last claim, and WeCom accepted every
message it found due. Of messages an earlier execution found due it says nothing;
for those, `AtMostOnce` and `LedgerIsTruthful` hold, and nothing else.

### Other differences from the documents

The models reach further behaviours that a document, a comment or a name lets one
expect otherwise. No run asserts them; the properties above are worded so that
they hold with them.

* A task can be notified twice (`internal/store/mysql.go:17563`): event 1 counts
  one of two invitations and fails; event 2 counts the second and sends; the
  replay of event 1 finds the total reached and sends again under its own ledger
  rows.
* With the new-friend rule (`newOnly`, in no campaign of `effects`), an
  invitation can stay uncounted (`mysql.go:17560`): the contact commits, the next
  step fails, and the replay no longer regards the friend as new.
* The transaction that counts the friend and inserts the intents is not fenced by
  the inbox (`internal/store/mysql.go:17563`). A worker that lost its claim can
  run it after the new owner completed the event, and leave `pending` intents that
  nobody begins. `CompletedSentWhatWasDue` allows them: that execution completes
  nothing.
* A credential rotation leaves dispatches that were not yet submitted without an
  end (`internal/store/wecom_capability_ledger.go:602`); `DispatchSettles` speaks
  of dispatches whose generation is current.
* A batch that ends with failed recipients keeps no result per recipient
  (`internal/wecomcapability/dispatch_runner.go:463`).
* A chunk is a success as soon as its task ended, the result list names somebody
  and nobody on it failed (`internal/dashboard/contact_batch_dispatch_runner.go:112`,
  `dispatchStatusFromContactResults`). The list is compared neither with the chunk's
  recipients nor with the `fail_list` of the submission, which the sender does not
  look at; a recipient who is listed later, or never, makes no difference, reached
  or not. `ReportedSuccessIsTrue` says what is left: a success claims nothing beyond
  the list, and nothing the list said is lost or invented between poll, takeover and
  repeated poll. Only the evidence shown for a capability asks for more, that the
  successes be as many as the targets (`internal/wecomcapability/capability.go:236`).
* An archive run whose last reply was lost can leave a cursor that the next run
  starts below (`internal/modules/providers/archive/sync.go:200`): messages are
  fetched again, none is skipped.
* The list of busy scopes is read before the probe
  (`internal/modules/providers/archive/durable_bridge.go:149`), so a run that
  somebody requests in between does not keep the scheduler from stacking a second
  window behind it, as the comment at `internal/store/archive_sync.go:252` has it.
  Both runs store the same messages; none is skipped.

## Proofs

Every safety invariant, action property and refinement the passing runs check is a
theorem: they hold for all values of the constants the
modules' assumptions allow, not only for the instances of the runs. The
assumptions are the named ASSUMEs of the modules: that the sets are disjoint from
the values that stand for "nobody" or "nothing", that limits are numbers, and the
two that say something of the environment, `SideEffectConstants` (the quarantine
outlasts processing and a request's life, see *Environment assumptions*) and
`SyncConstants` (this queue has tickets, and nothing undecodable is pushed into
it). `ChildrenCountOnce` has a hypothesis of its own, and so have two of the type
theorems (`QueueTypeCorrect`, `SyncTypeCorrect`).

The refinements form chains. An abstract specification stands at the top, and what
is proved of it holds below:

| Abstract | Implemented by | Theorem |
|---|---|---|
| `EventLifecycle`, dead events reopen | `CallbackInbox` | `InboxImplementsLifecycle` |
| | `CallbackSideEffects`, through the inbox | `EffectsImplementInbox`, `EffectsImplementLifecycle` |
| `EventLifecycle`, verdicts are final | `ReliableQueue` | `QueueImplementsLifecycle` |
| | `EmployeeSync`, through the queue | `QueueImplemented`, `JobsImplementLifecycle` |
| `OneDelivery` | `CallbackSideEffects` | `LedgerImplementsDelivery` |
| | `BatchDispatch` | `BatchImplementsDelivery` |
| | `BatchReminder` | `RemindersImplementDelivery` |

Each is safety only: the abstract specifications have no fairness, and the
progress the code owes is a liveness property of the runs.

Time enters only the ledger's proof, and a lease's end that of `CorruptIsExplained`,
which is about blame. Elsewhere safety rests on fences, tokens and values, and
expiry only decides when something may be claimed again.

### Callback inbox (`CallbackProofs`, first part)

* `InboxTypeCorrect`: `InboxSpec => []InboxTypeOK`;
* `InboxHasOneOwner`, `InboxCompletionIsOwned`, `InboxKeepsRetryBudget`,
  `InboxAcksWhatItStores`: the four safety invariants of the run `inbox`;
* `InboxImplementsLifecycle`: the refinement.

The inductive invariant is `InboxInv`. None of the properties is inductive alone.
`OneLiveOwner` follows from `FencesDiffer` (no two workers hold the same fence of
an event), which a claim preserves only because of `ClaimsAreOld` (no worker's
fence is ahead of the row's, so the next fence is new). `CompletedByLastOwner`
needs `SuccessIsKept` and `SuccessesAreOld`: the success a worker carries is
remembered and no success lies ahead of the row, so when the fenced UPDATE hits,
the remembered fence is exactly the row's. `RetryBudget` needs `AttemptsAgree`,
because `FailWeWorkCallback` decides about the dead letter from the claim's copy
of the attempt number. Most actions are covered by one frame lemma (`FrameStep`):
the fence does not fall, nothing enters processing, the payload stays
(`RowMove`), and workers keep their claim or drop it (`WorkerMove`). Only the
successful claim (`LeaseStep`) and the return of `Process` (`ReturnStep`) need
their own argument.

The refinement maps `pending` and `processing` to `open` and everything else to
itself; each inbox step is a stutter or one lifecycle step, the sweep being `Bury`
of all exhausted events at once.

### Side effects (`CallbackProofs`, second part)

| Theorem | Property |
|---|---|
| `EffectsTypeCorrect` | `EffectTypeOK` |
| `EffectsImplementInbox` | `ImplementsInbox`: every step is an inbox step or leaves the inbox alone |
| `EffectsImplementLifecycle` | the inbox's `ImplementsLifecycle`, by the refinement |
| `SentAtMostOnce`, `LedgerTellsTheTruth` | `AtMostOnce`, `LedgerIsTruthful` |
| `LedgerImplementsDelivery` | `ImplementsDelivery`: each message is accepted once, then perhaps called sent, for good |
| `CompletionSendsWhatWasDue` | `CompletedSentWhatWasDue` |
| `ReplaysWait` | `ReplayWaitsForEveryAction` |
| `ChildrenCountOnce` | `InvitationsCountOnce`, for campaigns without the new-friend rule |

By the refinement everything proved about the inbox holds here too
(`InboxStillSafe`), and the ledger's proof uses it: two executions of one event
hold different fences.

`LedgerInv` is the argument for at-most-once, one ledger row at a time.
`EntryAgrees` relates the row to WeCom: nothing was accepted while it is absent or
pending, exactly one message once it is sent. `OneRequest` says that at most one
request can still be accepted, and only while the row is unknown and in
quarantine: the worker that is sending has `ctx + RequestLife <= quar`, a request
without an answer has `flight <= quar`. So when the quarantine has run out, WeCom's
answer is final. `EvidenceHolds` carries that over to the operator: as long as a
command's version is the row's, what it saw is still true. The three are inductive
only together: a reset to pending is harmless because of the evidence, the
evidence because of the quarantine, and the quarantine because a send starts only
from pending.

`LedgerImplementsDelivery` needs no other invariant. Its mapping reads `handed` off
WeCom and takes an intent for concluded when it says sent. WeCom's count moves
only for an unknown intent it has not accepted (`ProviderMoves`): the sender is
inside its quarantine, or a request is still in flight, and `OneRequest` makes
either the only one. An intent moves to sent only on true evidence and never away
from it (`VerdictMoves`), so everything the operator, replays and late answers do
in one step is a `Conclude` of the intents that became sent.

`CompletionInv` is the argument about the joined error. An execution that remembers
no error has sent, of the messages it found due, all those behind it
(`ExecutionOK`): a due message is left behind without an error only by its own
seal, or because its intent said sent already. So an execution that succeeds has
sent them all, and since an intent never leaves sent, what `okDue` remembers stays
sent (`RememberedIsSent`). The inbox adds that the completing execution is the last
claim's (`CompletedByLastOwner`), and the ledger that sent means accepted. No edit
of the campaign disturbs this: what is due is decided once per execution, in the
transaction that counts.

`ChildrenCountOnce` assumes that no campaign has the new-friend rule: then the count
is the number of children. With the rule, an invitation can stay uncounted (*Other
differences*).

### Queues and employee synchronisation (`EmployeeSyncProofs`)

| Theorem | Property |
|---|---|
| `QueueImplementsLifecycle` | `ImplementsLifecycle` of `QueueSpec` |
| `JobsImplementLifecycle` | the same of `SyncSpec`, by `QueueImplemented` |
| `QueueTypeCorrect`, `SyncTypeCorrect` | `QueueTypeOK`, `SyncTypeOK`, while snapshots are lists |
| `NothingIsLost`, `OneHolderOfItem`, `ClaimsAreLive` | `NothingLostOrDoubled`, `OneHolder`, `ClaimIsLive` of `QueueSpec` |
| `ClaimsFreedByOwner` | `ClaimFreedByOwner` of `QueueSpec` |
| `QueueImplemented` | `SyncSpec => QueueSpec`: the employee queue is one of the queues |
| `FailedJobIsOver`, `CompletedDescribes` | `FailedIsOver`, `CompletedDescribesData` |
| `NewerWins`, `LateNoteKeeps` | `NewerJobWins`, `LateNoteKeepsCompletion` |

Items are removed by value, so the proofs count copies: `Copies(n, list)` is the
number of items with number `n`, and the lemmas `RemoveFirstIs`, `RemoveAtCopies`,
`AppendIs`, `TailIs` and `LremIs` say how LREM and the pushes change it. `QueueInv`
says that each issued item is in exactly one place (`ListInv`, with the claims:
who holds a key's claim is an item of that key that is still live), and then why a
worker that comes back late cannot remove another's item: a live item is never
behind the copy a busy worker holds, in attempts or mark (`HoldersBehind`), and
everything the recovery or a retry pushes is ahead of it; hence no two busy workers
hold equal copies (`HoldersDiffer`), and the string of a stale one is not in
any list. What a recovery saw in its snapshot needs no invariant, because its
scripts ask again whether the item is there.

`QueueImplementsLifecycle` maps an item to where its copies are: waiting or in
processing is open, a dead letter is dead, acknowledged is completed, and anything
else - nowhere, or in two places - is no stage at all, so that a lost or doubled
item would be a step the lifecycle does not have. The counts of `QueueInv` leave
one stage per item (`Staging`); a step then issues one item, acknowledges one that
is open, or only adds dead letters, which stay (`DeadStays`).

`SyncInv` adds that a run works under the ticket of the item its worker holds
(`RunHolds`), that a verdict of failure still to be written is about a dead letter
(`VerdictsTrue`), and that the stored employees are never of a newer job than the
marker (`StoredNotNewer`). A dead letter stays one (`DeadStays`), so `FailedIsOver`
holds however late the verdict is written.

### Cutover (`LegacyCutoverProofs`)

`CutoverTypeCorrect`, `OneStartImports` (`OneImporter`), `NothingIsLostOnTheWay`
(`RemovedIsStored`) and `CompletionMeansDrained` (`CompletedIsDrained`), for any
backlogs. `CutoverInv` joins the two properties about the data with `RunnersSound`:
the start that imports owns the marker, which makes it the only one; what it holds
is in the inbox, with the same payload, before it is acknowledged in Redis; and it
comes to its end with its source empty.

### Batches and reminders (`BatchDispatchProofs`, `BatchReminderProofs`)

`BatchTypeCorrect`, `ChunksGoOutOnce` (`SubmittedOnce`), `CancellationHolds`
(`CancelledWasNotSent`), `SuccessIsReal` (`ReportedSuccessIsTrue`). `DispatchInv`
says that a row which is absent, queued, claimed or cancelled was never sent and
that no row ends with a retryable error (`RowsSound`), so nothing leads from a sent
chunk back to the sender; that a worker about to send has marked the row first and
nothing was sent (`WorkersSound`), and is the only one of its row (`SenderIsAlone`);
and that a batch not made, or cancelled, has no chunk in another state
(`ChunksFollow`). Cancellation is safe because the same transaction that marks the
batch checks and changes all its rows.

`SuccessIsReal` takes the list as it comes. What has a result row was on the list
and was reached, because only an answer without a failure is recorded, and results
are only added (`RowsSound`, and `WorkersSound` for what is still to be recorded).
That nothing is forgotten needs `HoldersCount`: the holder of the lease has what it
was last told of in its hands or in the table, and only the holder finishes the row,
with empty hands. A worker that lost its lease may hold an older, shorter answer;
it records nothing.

`BatchImplementsDelivery` (`ImplementsDelivery`) maps a dispatch row to its verdict:
succeeded is sent, cancelled is cancelled, failed is failed, and the rest is open.
Beyond `DispatchInv` it needs `Answered`, that WeCom works only on what it was
given. It is what decides how much each verdict means. A cancelled row promises
that nothing was and will be sent, and a succeeded one that it was. A failed row
promises neither: a worker whose lease ended may still be about to send when the
processes that took the chunk over have marked it for polling, found no message id
to poll, and failed it; so `OneDelivery` lets a failed message be handed over, once.

`ReminderTypeCorrect` and `RemindersGoOutOnce` (`RemindedOnce`). In `ReminderInv`, an
attempt is open exactly while it has a token (`TokenWhileOpen`), nothing was sent
under a key without a row (`NothingBeforeAttempt`), and the request that sends owns
the token, has sent nothing to those left and, without a failure, has reached the
others (`SenderOwns`). An open attempt is never given to another request, also
when its lease has run out, which is why no message is sent twice.
`RemindersImplementDelivery` (`ImplementsDelivery` of `BatchReminder`) follows from
the same invariant: a message is a key and an employee, an open attempt is open for
all employees, and `RecordContactBatchDurableReminder` concludes them all at once.
A partial failure is recorded of the attempt and says of no employee whether the
reminder arrived; it is mapped to failed for all.

### Archive (`ArchiveSyncProofs`, `ArchiveMediaProofs`, `ArchiveCronProofs`)

`ArchiveTypeCorrect`, `CursorsAreBacked` (`NothingBelowCursorMissing`),
`SuccessIsComplete` (`SucceededIsComplete`), `SuccessIsFinal` (`SucceededIsFinal`).
`ArchiveInv` follows a cursor wherever it is copied: all messages below it are
stored, in the rows (`LedgerBacked`), in the workers, which may have lost their
lease (`ItemsBacked`), and in those who read it to write it into a new row
(`AskersBacked`). For completeness, a page taken for the last one reaches what the
row owes: what was there when the run was enqueued had arrived before the page was
fetched.

`MediaTypeCorrect`, `ReadyWhole` (`ReadyIsWhole`), `CheckpointsBacked`
(`CheckpointIsBacked`), `CorruptExplained` (`CorruptIsExplained`). In `MediaInv` every
file holds chunks in order; the bytes a row claims are in the file of its
checkpoint or published (`CheckpointHeld`); no two workers have the same attempt, so
nobody else writes a worker's file (`OneWorkerPerAttempt`); and `JobsSound` says at
each position what a worker knows of its file and of the row, separately for a
worker that lost its lease and for the owner (`OwnerOK`). `CleanerOK` is the
argument that a removal decided on an old copy of the row spares the checkpoint
and the owner's file: attempts only grow, and the checkpoint moves only to newer
files than those the cleaner saw.

`CronTypeCorrect` and `CronSkipsNothing` (`NoMessageSkipped`). `CronInv` says
of every cursor row (`RowsBacked`), and of what each pass has read and is going to
write (`PassesBacked`), that all messages up to it are stored. So a pass that was
overtaken may write an older cursor over a newer one, or insert it beside it, and
still nothing is skipped.

### Only model-checked

* Liveness: `AcceptedIsResolved`, `ItemsSettle`, `RunningEnds`, `DispatchSettles`,
  `EveryMessageArchived`, `MediaSettles`. They rest on fairness, hence on ENABLED,
  which the prover does not handle.
* That a recovery's snapshot is a list of items: the hypothesis
  `SnapshotsAreLists` of `QueueTypeCorrect` and `SyncTypeCorrect`. The snapshot is
  the library's SelectSeq, which the prover does not expand and which is defined
  by recursion over the list. `QueueTypeOK` and `SyncTypeOK` hold whole in the
  instances of `queue` and `sync`; that was checked once. No other theorem uses
  the hypothesis.
* That the doc's claim fails (`effects_overtaken`): a counterexample is an instance.

No module declares a RECURSIVE operator, so theorems can be stated about each of
them.

## Plan

1. (done) Inbox, its lifecycle, its theorems; ledger, operator, fission counter.
2. (done) Redis queues, and the employee synchronisation composed with them.
3. (done) Legacy cutover.
4. (done) Capability dispatch with the batch sender and poller; reminders.
5. (done) Archive: durable runs, media, the older cron.
6. (done) Theorems: every safety invariant, action property and refinement of the
   passing runs; the two abstract specifications, implemented by six modules.
7. Candidates for further modules: SaaS approvals (two people, one execution),
   payments and refunds, the export worker, the task runner, and the welcome and
   tag steps of a callback composed with the queues.

## Not modelled, and why

* Other callback event types: each is a synchronisation that re-reads WeCom and
  overwrites rows; the inbox sees only whether it succeeded.
* Levels and prizes of a campaign, loss and return of a contact, several parents.
* Media whose bytes do not have the MD5 or size their message announced, or differ
  from the claim: these are corrupt by their data. `ArchiveMedia` follows a sound
  download, and `CorruptIsExplained` is about the interleaving only.
* What the other nine queues' workers do with an item: the queue gives them
  at-least-once execution, and each has its own handler.
* The claim, transition and result calls of the capability ledger that work on an
  operation instead of a dispatch: no worker of the server uses them.
* Validation of batch requests, and the read pages.
* Cryptography, signature checks, XML and JSON: the endpoint is modelled from the
  decrypted event on.
* The Redis wake-up: it only shortens the poll interval.
* SaaS approvals, payments, refunds, settlements, backup recovery, audit
  anchoring, exports, the task runner: transactions over one database with status
  columns; worth modelling, after what is above.
* Migrations: run by hand under a lock; DDL.
* HTTP handlers, authentication, configuration, front end, deployment: sequential
  translation between requests and the store. They are most of the 280,000 lines
  of the implementation, and a state machine of them would restate them.
