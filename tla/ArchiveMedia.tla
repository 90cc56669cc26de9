---------------------------- MODULE ArchiveMedia ----------------------------
(***************************************************************************)
(* The download of one media object of an archived message.  Its row in    *)
(* mochat_go_archive_media_objects is claimed for five minutes under a new *)
(* attempt number; the bytes go chunk by chunk into a file of that attempt *)
(* (<id>.attempt-<n>.part); a checkpoint in the row names the attempt      *)
(* whose file holds the bytes so far, so that a later attempt copies them  *)
(* and goes on.  The finished file is linked to its final name before the  *)
(* row becomes `ready`.  Database and file system change in separate       *)
(* steps, a lease may end at any of them, and a worker may die at any.     *)
(*                                                                         *)
(* Every claim takes the next attempt number, so the lease token says no   *)
(* more than the attempt.  A file is the sequence of chunks in it, and     *)
(* stands for its digest.                                                  *)
(***************************************************************************)
EXTENDS Integers, Sequences

CONSTANTS
    Workers,     \* processes that call RunOne
    Chunks,      \* number of chunks of the media
    Absent,      \* no such file
    MaxFaults    \* bound: crashes, failed calls, lost replies, slow workers

ASSUME MediaAssumption ==
    /\ Chunks \in Nat \ {0} /\ MaxFaults \in Nat
    /\ \A n \in 0 .. Chunks : Absent # [i \in 1 .. n |-> i]

VARIABLES
    row,       \* the row
    part,      \* the file of each attempt
    final,     \* the file under the final name
    job,       \* what each worker is doing, with its copy of the row
    gc,        \* the cleaner's copy of the row, and whether it is at work
    blamed,    \* something besides the protocol explains a corrupt row
    faults

vars == <<row, part, final, job, gc, blamed, faults>>

\* A second claim follows a fault of the first.
Attempts == 1 .. MaxFaults + 1
Whole == [i \in 1 .. Chunks |-> i]
Closed == {"ready", "missing", "corrupt"}
Publishing == {"link", "unlink"}

NewRow == [status |-> "pending", attempt |-> 0, live |-> FALSE,
           checkpoint |-> 0, bytes |-> 0, finished |-> FALSE, sha |-> Absent]
NoJob == [pc |-> "idle", attempt |-> 0, checkpoint |-> 0, bytes |-> 0, finished |-> FALSE]
NotCleaning == [pc |-> "idle", status |-> "none", attempt |-> 0, checkpoint |-> 0]

Init ==
    /\ row = NewRow
    /\ part = [a \in Attempts |-> Absent]
    /\ final = Absent
    /\ job = [w \in Workers |-> NoJob]
    /\ gc = NotCleaning
    /\ blamed = FALSE
    /\ faults = 0

Fault == faults < MaxFaults /\ faults' = faults + 1

To(w, pc) == job' = [job EXCEPT ![w].pc = pc]
Leave(w) == job' = [job EXCEPT ![w] = NoJob]

\* archiveMediaLeaseMutation: the row is this worker's still.
Fenced(w) == row.status = "fetching" /\ row.attempt = job[w].attempt

-----------------------------------------------------------------------------
\* Faulty variant (Claimable): an abandoned download is not taken up.
ClaimableIfIdle == row.status \in {"pending", "failed"}

\* The rows ClaimArchiveMedia selects.
Claimable == row.status \in {"pending", "failed"} \/ (row.status = "fetching" /\ ~row.live)

ClaimArchiveMedia(w) ==
    /\ job[w].pc = "idle"
    /\ Claimable
    /\ row.attempt + 1 \in Attempts
    /\ row' = [row EXCEPT !.status = "fetching", !.attempt = @ + 1, !.live = TRUE]
    /\ \/ /\ job' = [job EXCEPT ![w] = [pc |-> "stat", attempt |-> row.attempt + 1, checkpoint |-> row.checkpoint,
                                        bytes |-> row.bytes, finished |-> row.finished]]
          /\ UNCHANGED faults
       \/ Fault /\ UNCHANGED job
    /\ UNCHANGED <<part, final, gc, blamed>>

\* RunOne looks for the final file first: an earlier attempt may have
\* published it and died before it said so.
StatFinal(w) ==
    /\ job[w].pc = "stat"
    /\ \/ final = Absent /\ To(w, "prepare") /\ UNCHANGED faults
       \/ /\ final # Absent
          /\ To(w, IF job[w].finished /\ final = row.sha THEN "complete" ELSE "corrupt")
          /\ UNCHANGED faults
       \/ Fault /\ To(w, "failed")
    /\ UNCHANGED <<row, part, final, gc, blamed>>

Backed(a, n) == a \in Attempts /\ part[a] # Absent /\ Len(part[a]) >= n

\* Faulty variant (Resumed): the whole file of the earlier attempt is copied.
ResumedWhole(w) == IF job[w].bytes = 0 THEN << >> ELSE part[job[w].checkpoint]

\* prepareMediaAttemptPart copies the checkpoint's bytes and no more.
Resumed(w) == IF job[w].bytes = 0 THEN << >> ELSE SubSeq(part[job[w].checkpoint], 1, job[w].bytes)

\* An error of any kind here, of the file system too, is taken for a damaged
\* checkpoint.
Prepare(w) ==
    LET j == job[w]
    IN  /\ j.pc = "prepare"
        /\ \/ /\ j.bytes = 0 \/ Backed(j.checkpoint, j.bytes)
              /\ part' = [part EXCEPT ![j.attempt] = Resumed(w)]
              /\ To(w, IF j.finished THEN "commit" ELSE "renew")
              /\ UNCHANGED <<blamed, faults>>
           \/ /\ j.bytes > 0 /\ ~Backed(j.checkpoint, j.bytes)
              /\ part' = [part EXCEPT ![j.attempt] = << >>]
              /\ To(w, "corrupt")
              /\ UNCHANGED <<blamed, faults>>
           \/ Fault /\ To(w, "corrupt") /\ blamed' = TRUE /\ UNCHANGED part
        /\ UNCHANGED <<row, final, gc>>

\* RenewArchiveMedia before a fetch, after it, and before the final file is
\* published.  A refusal or an error ends the attempt; the row is left alone.
AfterRenew(pc) == CASE pc = "renew" -> "fetch" [] pc = "renewed" -> "write" [] pc = "commit" -> "link"

RenewArchiveMedia(w) ==
    /\ job[w].pc \in {"renew", "renewed"} \/ (job[w].pc = "commit" /\ part[job[w].attempt] = row.sha)
    /\ \/ Fenced(w) /\ row' = [row EXCEPT !.live = TRUE] /\ To(w, AfterRenew(job[w].pc)) /\ UNCHANGED faults
       \/ Fault /\ Leave(w) /\ UNCHANGED row
       \/ ~Fenced(w) /\ Leave(w) /\ UNCHANGED <<row, faults>>
    /\ UNCHANGED <<part, final, gc, blamed>>

\* commitFinishedPart when the file cannot be read, or is not what the
\* checkpoint says.
CommitRefused(w) ==
    /\ job[w].pc = "commit"
    /\ \/ /\ part[job[w].attempt] # row.sha
          /\ To(w, IF part[job[w].attempt] = Absent THEN "failed" ELSE "corrupt")
          /\ UNCHANGED faults
       \/ Fault /\ To(w, "failed")
    /\ UNCHANGED <<row, part, final, gc, blamed>>

\* FetchMedia: an answer, an error, or the news that WeCom has it no more or
\* has it damaged.
FetchMedia(w) ==
    /\ job[w].pc = "fetch"
    /\ \/ To(w, "renewed") /\ UNCHANGED <<blamed, faults>>
       \/ Fault /\ (To(w, "failed") \/ To(w, "missing")) /\ UNCHANGED blamed
       \/ Fault /\ To(w, "corrupt") /\ blamed' = TRUE
    /\ UNCHANGED <<row, part, final, gc>>

\* The chunk is written to the attempt's own file and synced; a file that was
\* unlinked in the meantime is written to in vain.  An error may leave the
\* chunk behind the checkpoint.
Write(w) ==
    LET j == job[w]
        append == part' = [part EXCEPT ![j.attempt] = IF @ = Absent THEN Absent ELSE Append(@, j.bytes + 1)]
    IN  /\ j.pc = "write"
        /\ \/ append /\ job' = [job EXCEPT ![w].pc = "checkpoint", ![w].bytes = @ + 1] /\ UNCHANGED faults
           \/ Fault /\ To(w, "failed") /\ (append \/ UNCHANGED part)
        /\ UNCHANGED <<row, final, gc, blamed>>

\* CheckpointArchiveMedia; with the last chunk it carries the file's digest.
\* When it fails, or its reply is lost, the worker leaves.
CheckpointArchiveMedia(w) ==
    LET j == job[w]
        done == j.bytes = Chunks
        save == row' = [row EXCEPT !.checkpoint = j.attempt, !.bytes = j.bytes, !.finished = done,
                                   !.sha = IF done THEN part[j.attempt] ELSE Absent, !.live = TRUE]
    IN  /\ j.pc = "checkpoint"
        /\ ~(done /\ part[j.attempt] = Absent)
        /\ \/ Fenced(w) /\ row.bytes <= j.bytes /\ save /\ To(w, "dropOld") /\ UNCHANGED faults
           \/ Fault /\ ((Fenced(w) /\ row.bytes <= j.bytes /\ save) \/ UNCHANGED row) /\ Leave(w)
           \/ ~Fenced(w) /\ Leave(w) /\ UNCHANGED <<row, faults>>
        /\ UNCHANGED <<part, final, gc, blamed>>

\* The finished file cannot be synced, closed or read for its digest.
DigestFails(w) ==
    /\ job[w].pc = "checkpoint" /\ job[w].bytes = Chunks
    /\ (part[job[w].attempt] = Absent /\ UNCHANGED faults) \/ Fault
    /\ To(w, "failed")
    /\ UNCHANGED <<row, part, final, gc, blamed>>

\* The file of the previous checkpoint is removed once the row names this one.
DropOld(w) ==
    LET j == job[w]
    IN  /\ j.pc = "dropOld"
        /\ part' = [a \in Attempts |-> IF a = j.checkpoint /\ a # j.attempt THEN Absent ELSE part[a]]
        /\ job' = [job EXCEPT ![w].checkpoint = j.attempt, ![w].finished = (j.bytes = Chunks),
                              ![w].pc = IF j.bytes = Chunks THEN "commit" ELSE "renew"]
        /\ UNCHANGED <<row, final, gc, blamed, faults>>

\* publishArchiveMedia: os.Link fails when the final name is taken, and that
\* is fine when it holds the same bytes.
Link(w) ==
    LET mine == part[job[w].attempt]
    IN  /\ job[w].pc = "link"
        /\ \/ mine # Absent /\ final = Absent /\ final' = mine /\ To(w, "unlink") /\ UNCHANGED faults
           \/ /\ mine # Absent /\ final # Absent
              /\ To(w, IF final = mine THEN "unlink" ELSE "failed")
              /\ UNCHANGED <<final, faults>>
           \/ mine = Absent /\ To(w, "failed") /\ UNCHANGED <<final, faults>>
           \/ Fault /\ To(w, "failed") /\ UNCHANGED final
        /\ UNCHANGED <<row, part, gc, blamed>>

Unlink(w) ==
    LET a == job[w].attempt
    IN  /\ job[w].pc = "unlink"
        /\ \/ /\ part' = [part EXCEPT ![a] = Absent]
              /\ To(w, IF part[a] = Absent THEN "failed" ELSE "complete")
              /\ UNCHANGED faults
           \/ Fault /\ To(w, "failed") /\ UNCHANGED part
        /\ UNCHANGED <<row, final, gc, blamed>>

\* CompleteArchiveMedia; the attempts' files go afterwards.
CompleteArchiveMedia(w) ==
    LET complete == row' = [row EXCEPT !.status = "ready", !.live = FALSE]
    IN  /\ job[w].pc = "complete"
        /\ \/ Fenced(w) /\ row.finished /\ complete /\ To(w, "clean") /\ UNCHANGED faults
           \/ Fault /\ ((Fenced(w) /\ row.finished /\ complete) \/ UNCHANGED row) /\ Leave(w)
           \/ ~(Fenced(w) /\ row.finished) /\ Leave(w) /\ UNCHANGED <<row, faults>>
        /\ UNCHANGED <<part, final, gc, blamed>>

\* finishArchiveMedia by recordFailed, recordCorrupt and classifyFetchFailure.
finishArchiveMedia(w) ==
    LET finish == row' = [row EXCEPT !.status = job[w].pc, !.live = FALSE]
    IN  /\ job[w].pc \in {"failed", "missing", "corrupt"}
        /\ \/ Fenced(w) /\ finish /\ To(w, IF job[w].pc = "failed" THEN "cleanKeep" ELSE "clean") /\ UNCHANGED faults
           \/ Fault /\ ((Fenced(w) /\ finish) \/ UNCHANGED row) /\ Leave(w)
           \/ ~Fenced(w) /\ Leave(w) /\ UNCHANGED <<row, faults>>
        /\ UNCHANGED <<part, final, gc, blamed>>

\* Faulty variant (Kept): a failed attempt's clean-up spares nothing.
KeptNothing(j) == {}

\* What cleanupUUIDAttemptsBestEffort spares: the checkpoint, after a failure.
Kept(j) == IF j.pc = "cleanKeep" THEN {j.checkpoint} ELSE {}

CleanupAttempts(w) ==
    /\ job[w].pc \in {"clean", "cleanKeep"}
    /\ part' = [a \in Attempts |-> IF a <= job[w].attempt /\ a \notin Kept(job[w]) THEN Absent ELSE part[a]]
    /\ Leave(w)
    /\ UNCHANGED <<row, final, gc, blamed, faults>>

Crash(w) ==
    /\ job[w].pc # "idle"
    /\ Fault
    /\ Leave(w)
    /\ UNCHANGED <<row, part, final, gc, blamed>>

\* The lease of a worker that left ends; that of one still at work, by a fault.
LeaseRunsOut ==
    LET owners == {w \in Workers : job[w].pc # "idle" /\ job[w].attempt = row.attempt}
    IN  /\ row.status = "fetching" /\ row.live
        /\ row' = [row EXCEPT !.live = FALSE]
        /\ \/ owners = {} /\ UNCHANGED <<faults, blamed>>
           \/ owners # {} /\ Fault /\ blamed' = (blamed \/ \E w \in owners : job[w].pc \in Publishing)
        /\ UNCHANGED <<part, final, job, gc>>

-----------------------------------------------------------------------------
(* CleanupStaleAttempts: a snapshot of the row, then the files one by one.  *)

GcSnapshot ==
    /\ gc.pc = "idle"
    /\ row.attempt > 0
    /\ \E a \in Attempts : part[a] # Absent
    /\ gc' = [pc |-> "remove", status |-> row.status, attempt |-> row.attempt, checkpoint |-> row.checkpoint]
    /\ UNCHANGED <<row, part, final, job, blamed, faults>>

\* Faulty variant (Referenced): only the active attempt is spared.
ReferencedIfActive(a) == gc.status = "fetching" /\ a = gc.attempt

\* archiveMediaAttemptReferenced.
Referenced(a) ==
    \/ gc.status = "fetching" /\ a \in {gc.attempt, gc.checkpoint}
    \/ gc.status \in {"pending", "failed"} /\ a = gc.checkpoint

Stale(a) == a <= gc.attempt /\ ~Referenced(a) /\ part[a] # Absent

GcRemove ==
    /\ gc.pc = "remove"
    /\ \/ \E a \in Attempts : Stale(a) /\ part' = [part EXCEPT ![a] = Absent] /\ UNCHANGED gc
       \/ (\A a \in Attempts : ~Stale(a)) /\ gc' = NotCleaning /\ UNCHANGED part
    /\ UNCHANGED <<row, final, job, blamed, faults>>

WorkerStep(w) ==
    \/ ClaimArchiveMedia(w) \/ StatFinal(w) \/ Prepare(w) \/ RenewArchiveMedia(w) \/ CommitRefused(w)
    \/ FetchMedia(w) \/ Write(w) \/ CheckpointArchiveMedia(w) \/ DigestFails(w) \/ DropOld(w)
    \/ Link(w) \/ Unlink(w) \/ CompleteArchiveMedia(w) \/ finishArchiveMedia(w) \/ CleanupAttempts(w)

Next ==
    \/ \E w \in Workers : WorkerStep(w) \/ Crash(w)
    \/ LeaseRunsOut
    \/ GcSnapshot \/ GcRemove

Spec == Init /\ [][Next]_vars

\* The periodic media worker goes on and cleans up before each batch.
FairSpec ==
    /\ Spec
    /\ \A w \in Workers : WF_vars(WorkerStep(w))
    /\ WF_vars(LeaseRunsOut)
    /\ WF_vars(GcSnapshot \/ GcRemove)

-----------------------------------------------------------------------------
Files == {Absent} \cup UNION {[1 .. n -> 1 .. Chunks] : n \in 0 .. Chunks}

\* The state has its types; files hold at most the media's chunks and no worker
\* or checkpoint is ahead of the row's attempt.
MediaTypeOK ==
    /\ row.status \in {"pending", "fetching", "failed"} \cup Closed
    /\ row.attempt \in 0 .. MaxFaults + 1 /\ row.checkpoint \in 0 .. row.attempt
    /\ row.bytes \in 0 .. Chunks /\ row.finished \in BOOLEAN /\ row.sha \in Files
    /\ part \in [Attempts -> Files] /\ final \in Files
    /\ \A w \in Workers : job[w].attempt \in 0 .. row.attempt /\ job[w].bytes \in 0 .. Chunks
    /\ faults \in 0 .. MaxFaults

\* A media object shown as ready is there, whole and in order, whichever
\* attempts contributed to it.
ReadyIsWhole == row.status = "ready" => final = Whole

\* The bytes a resumable row claims to have are on disk: in the file of the
\* checkpoint's attempt, or published already.
CheckpointIsBacked ==
    row.status \notin Closed /\ row.bytes > 0 =>
        \/ final = Whole
        \/ Backed(row.checkpoint, row.bytes) /\ \A i \in 1 .. row.bytes : part[row.checkpoint][i] = i

\* A download is given up as corrupt only when the bridge says so, when a local
\* file error stops the preparation of an attempt, or when a worker published
\* after its lease had ended: no crash, lost reply, take-over or clean-up
\* makes a sound download corrupt.
CorruptIsExplained == row.status = "corrupt" => blamed

\* Every media object ends as ready, missing or corrupt.
MediaSettles == <>(row.status \in Closed)

=============================================================================
