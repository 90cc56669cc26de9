--------------------------- MODULE ArchiveMediaProofs -------------------------
(***************************************************************************)
(* Proofs about the download of archived media, for any number of workers, *)
(* chunks and faults.                                                      *)
(***************************************************************************)
EXTENDS ArchiveMedia, SequenceTheorems, TLAPS

\* A file with the first n chunks.
Prefix(n) == [i \in 1 .. n |-> i]

PCs == {"idle", "stat", "prepare", "renew", "fetch", "renewed", "write", "checkpoint", "dropOld",
        "commit", "link", "unlink", "complete", "failed", "missing", "corrupt", "clean", "cleanKeep"}

Statuses == {"pending", "fetching", "failed"} \cup Closed

Row == [status : Statuses, attempt : 0 .. MaxFaults + 1, live : BOOLEAN,
        checkpoint : 0 .. MaxFaults + 1, bytes : 0 .. Chunks, finished : BOOLEAN,
        sha : {Absent, Whole}]

Job == [pc : PCs, attempt : 0 .. MaxFaults + 1, checkpoint : 0 .. MaxFaults + 1,
        bytes : 0 .. Chunks, finished : BOOLEAN]

Cleaner == [pc : {"idle", "remove"}, status : Statuses \cup {"none"}, attempt : 0 .. MaxFaults + 1,
            checkpoint : 0 .. MaxFaults + 1]

\* Every file holds chunks in order, and the final one all of them.
File == {Absent} \cup {Prefix(n) : n \in 0 .. Chunks}

TypeInv ==
    /\ row \in Row
    /\ part \in [Attempts -> File]
    /\ final \in {Absent, Whole}
    /\ job \in [Workers -> Job]
    /\ gc \in Cleaner
    /\ blamed \in BOOLEAN
    /\ faults \in 0 .. MaxFaults

Holds(f, n) == \E m \in n .. Chunks : f = Prefix(m)

\* The row, with the final file and the blame: a digest comes with the last
\* chunk, and only then is anything published.
RowOK(r, fin, b) ==
    /\ r.checkpoint <= r.attempt
    /\ r.finished <=> r.bytes = Chunks
    /\ r.sha = IF r.finished THEN Whole ELSE Absent
    /\ r.bytes > 0 => r.checkpoint > 0
    /\ fin = Whole => r.finished
    /\ r.status = "ready" => fin = Whole
    /\ r.status = "corrupt" => b

\* The bytes a row claims are in the file of its checkpoint, or published.
CheckpointHeld(r, p, fin) ==
    r.status \notin Closed /\ r.bytes > 0 => fin = Whole \/ Holds(p[r.checkpoint], r.bytes)

FencedBy(j, r) == r.status = "fetching" /\ r.attempt = j.attempt

Filling == {"renew", "fetch", "renewed", "write", "checkpoint"}

\* A worker that is not idle, with the row, its own file, the final one, and the
\* blame, whether the row is the worker's still or not.
JobOK(j, r, f, fin, b) ==
    /\ 0 < j.attempt /\ j.attempt <= r.attempt /\ j.checkpoint <= j.attempt
    /\ j.pc \in {"stat", "prepare"} =>
         j.checkpoint < j.attempt /\ (j.finished <=> j.bytes = Chunks) /\ (j.bytes > 0 => j.checkpoint > 0)
    /\ IF j.pc = "dropOld" THEN r.checkpoint >= j.attempt
       ELSE r.checkpoint = j.checkpoint \/ r.checkpoint > j.attempt
    /\ j.pc \in Filling \cup {"dropOld"} => f \in {Absent, Prefix(j.bytes)}
    /\ j.pc \in Filling \ {"checkpoint"} => j.bytes < Chunks
    /\ j.pc \in {"link"} => r.finished /\ f \in {Absent, Whole}
    /\ j.pc \in {"unlink", "complete"} => fin = Whole
    /\ j.pc \in Publishing => b \/ (FencedBy(j, r) /\ r.live)
    /\ j.pc = "clean" => r.status \in Closed

\* What a worker may rely on while the row is its own.
OwnerOK(j, r, f, fin, b) ==
    /\ j.pc \in {"stat", "prepare"} => j.bytes = r.bytes /\ (j.finished <=> r.finished)
    /\ j.pc = "prepare" => fin = Absent \/ b
    /\ j.pc \in Filling \cup {"dropOld"} => f = Prefix(j.bytes)
    /\ j.pc \in Filling => ~r.finished
    /\ j.pc = "dropOld" => (r.finished <=> j.bytes = Chunks)
    /\ j.pc = "commit" => r.finished /\ f = Whole
    /\ j.pc = "corrupt" => b

\* The cleaner, with the row: what it does not spare is not the checkpoint, nor
\* the file of a worker that owns the row.
CleanerOK(g, r) ==
    /\ g.attempt <= r.attempt
    /\ g.status \in Closed => r.status \in Closed
    /\ g.status \in {"pending", "failed"} =>
         /\ r.checkpoint = g.checkpoint \/ r.checkpoint > g.attempt
         /\ r.attempt = g.attempt => r.status # "fetching"
    /\ g.status = "fetching" => r.checkpoint \in {g.checkpoint, g.attempt} \/ r.checkpoint > g.attempt

JobsSound ==
    \A w \in Workers : job[w].pc # "idle" =>
        /\ JobOK(job[w], row, part[job[w].attempt], final, blamed)
        /\ FencedBy(job[w], row) => OwnerOK(job[w], row, part[job[w].attempt], final, blamed)

OneWorkerPerAttempt ==
    \A v, w \in Workers :
        job[v].pc # "idle" /\ job[w].pc # "idle" /\ job[v].attempt = job[w].attempt => v = w

MediaInv ==
    /\ TypeInv
    /\ RowOK(row, final, blamed)
    /\ CheckpointHeld(row, part, final)
    /\ JobsSound
    /\ OneWorkerPerAttempt
    /\ gc.pc = "remove" => gc.status # "none" /\ CleanerOK(gc, row)
--------------------------------------------------------------------------------
(* Files.                                                                  *)

LEMMA PrefixIs ==
  ASSUME NEW n \in Nat
  PROVE  /\ Prefix(n) \in Seq(Nat) /\ Len(Prefix(n)) = n
         /\ \A i \in 1 .. n : Prefix(n)[i] = i
<1>1. Prefix(n) \in [1 .. n -> Nat]
  BY DEF Prefix
<1>2. Prefix(n) \in Seq(Nat)
  BY <1>1
<1>3. Len(Prefix(n)) = n
  BY <1>1, <1>2
<1> QED
  BY <1>2, <1>3 DEF Prefix

LEMMA WholeIs ==
  /\ Chunks \in Nat \ {0} /\ MaxFaults \in Nat
  /\ Whole = Prefix(Chunks) /\ Whole # Absent
  /\ \A n \in 0 .. Chunks : Prefix(n) # Absent
  /\ << >> = Prefix(0)
<1>1. Chunks \in Nat \ {0} /\ MaxFaults \in Nat
  BY MediaAssumption
<1>2. Whole = Prefix(Chunks)
  BY DEF Whole, Prefix
<1>3. \A n \in 0 .. Chunks : Prefix(n) # Absent
  BY MediaAssumption DEF Prefix
<1>4. << >> = Prefix(0)
  <2>1. Prefix(0) \in Seq(Nat) /\ Len(Prefix(0)) = 0
    BY PrefixIs
  <2> QED
    BY <2>1
<1> QED
  BY <1>1, <1>2, <1>3, <1>4

LEMMA PrefixOfPrefix ==
  ASSUME NEW m \in Nat, NEW n \in 0 .. m
  PROVE  SubSeq(Prefix(m), 1, n) = Prefix(n)
<1>1. Prefix(m) \in Seq(Nat) /\ Len(Prefix(m)) = m
  BY PrefixIs
<1>2. SubSeq(Prefix(m), 1, n) = [i \in 1 .. n |-> Prefix(m)[i]]
  BY <1>1
<1> QED
  BY <1>2, PrefixIs DEF Prefix

LEMMA PrefixAppend ==
  ASSUME NEW n \in Nat
  PROVE  Append(Prefix(n), n + 1) = Prefix(n + 1)
<1>1. Prefix(n) \in Seq(Nat) /\ Len(Prefix(n)) = n
  BY PrefixIs
<1>2. Append(Prefix(n), n + 1) = [i \in 1 .. n + 1 |-> IF i = n + 1 THEN n + 1 ELSE Prefix(n)[i]]
  BY <1>1
<1> QED
  BY <1>2, PrefixIs DEF Prefix

LEMMA PrefixInjective ==
  ASSUME NEW m \in Nat, NEW n \in Nat, Prefix(m) = Prefix(n)
  PROVE  m = n
<1>1. Len(Prefix(m)) = m /\ Len(Prefix(n)) = n
  BY PrefixIs
<1> QED
  BY <1>1

\* What `Backed' asks of a file that holds chunks in order.
LEMMA BackedIsHeld ==
  ASSUME part \in [Attempts -> File], NEW a \in Attempts, NEW n \in 0 .. Chunks
  PROVE  Backed(a, n) <=> Holds(part[a], n)
<1>1. CASE part[a] = Absent
  <2>1. ~Backed(a, n)
    BY <1>1 DEF Backed
  <2>2. ~Holds(part[a], n)
    BY <1>1, WholeIs DEF Holds
  <2> QED
    BY <2>1, <2>2
<1>2. CASE part[a] # Absent
  <2>1. PICK m \in 0 .. Chunks : part[a] = Prefix(m)
    BY <1>2 DEF File
  <2>2. Len(part[a]) = m /\ m \in Nat /\ Chunks \in Nat
    BY <2>1, PrefixIs, WholeIs
  <2>3. Backed(a, n) <=> m >= n
    BY <1>2, <2>2 DEF Backed
  <2>4. ASSUME Holds(part[a], n) PROVE m >= n
    <3>1. PICK k \in n .. Chunks : part[a] = Prefix(k)
      BY <2>4 DEF Holds
    <3>2. k \in Nat /\ Prefix(k) = Prefix(m)
      BY <2>1, <2>2, <3>1
    <3>3. k = m
      BY <2>2, <3>2, PrefixInjective
    <3> QED
      BY <2>2, <3>1, <3>3
  <2>5. m >= n => Holds(part[a], n)
    BY <2>1, <2>2 DEF Holds
  <2> QED
    BY <2>3, <2>4, <2>5
<1> QED
  BY <1>1, <1>2
--------------------------------------------------------------------------------

LEMMA Typed ==
  ASSUME MediaInv
  PROVE  /\ row \in Row
         /\ part \in [Attempts -> File]
         /\ final \in {Absent, Whole}
         /\ job \in [Workers -> Job]
         /\ gc \in Cleaner
         /\ blamed \in BOOLEAN
         /\ faults \in 0 .. MaxFaults
  BY DEF MediaInv, TypeInv

LEMMA FaultTyped ==
  ASSUME MediaInv
  PROVE  /\ UNCHANGED faults => faults' \in 0 .. MaxFaults
         /\ Fault => faults' \in 0 .. MaxFaults
  BY Typed, WholeIs DEF Fault

LEMMA NoJobIs == NoJob \in Job /\ NoJob.pc = "idle"
  BY WholeIs DEF NoJob, Job, PCs

LEMMA MediaInit == Init => MediaInv
<1> SUFFICES ASSUME Init PROVE MediaInv
  OBVIOUS
<1>1. /\ NewRow \in Row /\ NewRow.status = "pending" /\ NewRow.attempt = 0 /\ NewRow.checkpoint = 0
      /\ NewRow.bytes = 0 /\ NewRow.finished = FALSE /\ NewRow.sha = Absent
  BY WholeIs DEF NewRow, Row, Statuses, Closed
<1>2. NotCleaning \in Cleaner /\ NotCleaning.pc = "idle"
  BY WholeIs DEF NotCleaning, Cleaner
<1>3. TypeInv
  <2>1. part \in [Attempts -> File] /\ final \in {Absent, Whole}
    BY DEF Init, File
  <2>2. row \in Row /\ gc \in Cleaner /\ job \in [Workers -> Job]
    BY <1>1, <1>2, NoJobIs DEF Init
  <2>3. blamed \in BOOLEAN
    BY Zenon DEF Init
  <2>4. faults \in 0 .. MaxFaults
    BY WholeIs DEF Init
  <2> QED
    BY <2>1, <2>2, <2>3, <2>4 DEF TypeInv
<1>4. RowOK(row, final, blamed)
  BY <1>1, WholeIs DEF Init, RowOK
<1>5. CheckpointHeld(row, part, final)
  BY <1>1, WholeIs DEF Init, CheckpointHeld
<1>6. JobsSound /\ OneWorkerPerAttempt
  BY NoJobIs DEF Init, JobsSound, OneWorkerPerAttempt
<1> QED
  BY <1>2, <1>3, <1>4, <1>5, <1>6 DEF Init, MediaInv

\* The job at hand, with its file.
LEMMA OfWorker ==
  ASSUME MediaInv, NEW w \in Workers, job[w].pc # "idle"
  PROVE  /\ job[w] \in Job
         /\ job[w].attempt \in Attempts
         /\ part[job[w].attempt] \in File
         /\ JobOK(job[w], row, part[job[w].attempt], final, blamed)
         /\ FencedBy(job[w], row) => OwnerOK(job[w], row, part[job[w].attempt], final, blamed)
<1>1. job[w] \in Job /\ row \in Row
  BY Typed
<1>2. /\ JobOK(job[w], row, part[job[w].attempt], final, blamed)
      /\ FencedBy(job[w], row) => OwnerOK(job[w], row, part[job[w].attempt], final, blamed)
  BY DEF MediaInv, JobsSound
<1>3. 0 < job[w].attempt
  BY <1>2 DEF JobOK
<1>4. job[w].attempt \in Attempts
  BY <1>1, <1>3, WholeIs DEF Job, Attempts
<1> QED
  BY <1>1, <1>2, <1>4, Typed

\* How the surroundings of a worker may change without its doing: the row moves
\* on, its file may go, the final one may come, and none of that happens while
\* the row is its own.
Around(j, r, s, f, g, fin, gin, b, c) ==
    /\ r.attempt <= s.attempt
    /\ s.checkpoint = r.checkpoint \/ s.checkpoint > j.attempt
    /\ r.finished => s.finished
    /\ r.status \in Closed => s.status \in Closed
    /\ g \in {f, Absent}
    /\ gin \in {fin, Whole}
    /\ b => c
    /\ FencedBy(j, s) =>
         /\ FencedBy(j, r) /\ g = f /\ (gin = fin \/ c)
         /\ s.bytes = r.bytes /\ (s.finished <=> r.finished)
    /\ j.pc \in Publishing => c \/ (FencedBy(j, s) /\ s.live)

LEMMA JobStays ==
  ASSUME NEW j \in Job, NEW r \in Row, NEW s \in Row, NEW f, NEW g, NEW fin, NEW gin,
         NEW b \in BOOLEAN, NEW c \in BOOLEAN,
         Around(j, r, s, f, g, fin, gin, b, c), JobOK(j, r, f, fin, b),
         FencedBy(j, r) => OwnerOK(j, r, f, fin, b)
  PROVE  /\ JobOK(j, s, g, gin, c)
         /\ FencedBy(j, s) => OwnerOK(j, s, g, gin, c)
<1>1. JobOK(j, s, g, gin, c)
  <2>1. 0 < j.attempt /\ j.attempt <= s.attempt /\ j.checkpoint <= j.attempt
    BY DEF JobOK, Around, Row, Job
  <2>2. j.pc \in {"stat", "prepare"} =>
          j.checkpoint < j.attempt /\ (j.finished <=> j.bytes = Chunks) /\ (j.bytes > 0 => j.checkpoint > 0)
    BY DEF JobOK
  <2>3. IF j.pc = "dropOld" THEN s.checkpoint >= j.attempt
        ELSE s.checkpoint = j.checkpoint \/ s.checkpoint > j.attempt
    BY DEF JobOK, Around, Row, Job
  <2>4. /\ j.pc \in Filling \cup {"dropOld"} => g \in {Absent, Prefix(j.bytes)}
        /\ j.pc \in Filling \ {"checkpoint"} => j.bytes < Chunks
        /\ j.pc \in {"link"} => s.finished /\ g \in {Absent, Whole}
        /\ j.pc \in {"unlink", "complete"} => gin = Whole
        /\ j.pc = "clean" => s.status \in Closed
    BY DEF JobOK, Around
  <2>5. j.pc \in Publishing => c \/ (FencedBy(j, s) /\ s.live)
    BY DEF Around
  <2> QED
    BY <2>1, <2>2, <2>3, <2>4, <2>5 DEF JobOK
<1>2. ASSUME FencedBy(j, s) PROVE OwnerOK(j, s, g, gin, c)
  <2>1. /\ OwnerOK(j, r, f, fin, b) /\ g = f /\ (gin = fin \/ c)
        /\ s.bytes = r.bytes /\ (s.finished <=> r.finished) /\ (b => c)
    BY <1>2 DEF Around
  <2> QED
    BY <2>1 DEF OwnerOK
<1> QED
  BY <1>1, <1>2

\* A worker that lost the row, when the row moves on.
LEMMA StaleAround ==
  ASSUME NEW j \in Job, NEW r \in Row, NEW s \in Row, NEW f, NEW g, NEW fin, NEW gin, NEW b, NEW c,
         ~FencedBy(j, s), r.attempt <= s.attempt,
         s.checkpoint = r.checkpoint \/ s.checkpoint > j.attempt,
         r.finished => s.finished, r.status \in Closed => s.status \in Closed,
         g \in {f, Absent}, gin \in {fin, Whole}, b => c, j.pc \in Publishing => c
  PROVE  Around(j, r, s, f, g, fin, gin, b, c)
  BY DEF Around
\* Two workers have different attempts, and one that owns the row has the latest.
LEMMA OthersDiffer ==
  ASSUME MediaInv, NEW v \in Workers, NEW w \in Workers, v # w,
         job[v].pc # "idle", job[w].pc # "idle"
  PROVE  /\ job[v].attempt # job[w].attempt
         /\ FencedBy(job[w], row) => job[v].attempt < row.attempt /\ ~FencedBy(job[v], row)
<1>1. job[v].attempt # job[w].attempt
  BY DEF MediaInv, OneWorkerPerAttempt
<1>2. job[v].attempt <= row.attempt /\ job[v] \in Job /\ row \in Row
  BY OfWorker, Typed DEF JobOK
<1> QED
  BY <1>1, <1>2 DEF FencedBy, Job, Row

\* A step of worker w, which leaves it with q.
LEMMA WorkKeeps ==
  ASSUME MediaInv, NEW w \in Workers, NEW q \in Job, job' = [job EXCEPT ![w] = q],
         TypeInv', RowOK(row', final', blamed'), CheckpointHeld(row', part', final'),
         q.pc # "idle" =>
            /\ JobOK(q, row', part'[q.attempt], final', blamed')
            /\ FencedBy(q, row') => OwnerOK(q, row', part'[q.attempt], final', blamed')
            /\ \/ job[w].pc # "idle" /\ q.attempt = job[w].attempt
               \/ q.attempt > row.attempt,
         \A v \in Workers : v # w /\ job[v].pc # "idle" =>
            Around(job[v], row, row', part[job[v].attempt], part'[job[v].attempt],
                   final, final', blamed, blamed'),
         UNCHANGED gc, gc.pc = "remove" => CleanerOK(gc, row')
  PROVE  MediaInv'
<1>1. \A v \in Workers : job'[v] = IF v = w THEN q ELSE job[v]
  BY Typed
<1>2. PICK s \in Row : s = row'
  BY DEF TypeInv
<1>3. PICK b \in BOOLEAN : b = blamed
  BY Zenon, Typed
<1>4. PICK c \in BOOLEAN : c = blamed'
  BY Zenon DEF TypeInv
<1>5. ASSUME NEW v \in Workers, v # w, job[v].pc # "idle"
      PROVE  /\ JobOK(job[v], row', part'[job[v].attempt], final', blamed')
             /\ FencedBy(job[v], row') =>
                  OwnerOK(job[v], row', part'[job[v].attempt], final', blamed')
  <2>1. PICK j \in Job : j = job[v]
    BY <1>5, OfWorker
  <2>2. PICK r \in Row : r = row
    BY Typed
  <2>3. PICK f, g : f = part[j.attempt] /\ g = part'[j.attempt]
    OBVIOUS
  <2>4. Around(j, r, s, f, g, final, final', b, c)
    BY <1>2, <1>3, <1>4, <1>5, <2>1, <2>2, <2>3
  <2>5. JobOK(j, r, f, final, b) /\ (FencedBy(j, r) => OwnerOK(j, r, f, final, b))
    BY <1>3, <1>5, <2>1, <2>2, <2>3, OfWorker
  <2>6. JobOK(j, s, g, final', c) /\ (FencedBy(j, s) => OwnerOK(j, s, g, final', c))
    BY <2>4, <2>5, JobStays
  <2> QED
    BY <1>2, <1>4, <2>1, <2>3, <2>6
<1>6. JobsSound'
  <2>1. ASSUME NEW v \in Workers, job'[v].pc # "idle"
        PROVE  /\ JobOK(job'[v], row', part'[job'[v].attempt], final', blamed')
               /\ FencedBy(job'[v], row') =>
                    OwnerOK(job'[v], row', part'[job'[v].attempt], final', blamed')
    <3>1. CASE v = w
      BY <1>1, <2>1, <3>1
    <3>2. CASE v # w
      BY <1>1, <1>5, <2>1, <3>2
    <3> QED
      BY <3>1, <3>2
  <2> QED
    BY <2>1 DEF JobsSound
<1>7. OneWorkerPerAttempt'
  <2>1. ASSUME NEW v \in Workers, v # w, job[v].pc # "idle", q.pc # "idle"
        PROVE  job[v].attempt # q.attempt
    <3>1. job[v].attempt <= row.attempt /\ job[v] \in Job /\ row \in Row
      BY <2>1, OfWorker, Typed DEF JobOK
    <3>2. CASE job[w].pc # "idle" /\ q.attempt = job[w].attempt
      BY <2>1, <3>2, OthersDiffer
    <3>3. CASE q.attempt > row.attempt
      BY <3>1, <3>3 DEF Job, Row
    <3> QED
      BY <2>1, <3>2, <3>3
  <2>2. ASSUME NEW v \in Workers, NEW u \in Workers, job'[v].pc # "idle", job'[u].pc # "idle",
               job'[v].attempt = job'[u].attempt
        PROVE  v = u
    <3>1. CASE v # w /\ u # w
      BY <1>1, <2>2, <3>1 DEF MediaInv, OneWorkerPerAttempt
    <3>2. CASE v = w \/ u = w
      BY <1>1, <2>1, <2>2, <3>2
    <3> QED
      BY <3>1, <3>2
  <2> QED
    BY <2>2 DEF OneWorkerPerAttempt
<1>8. gc'.pc = "remove" => gc'.status # "none" /\ CleanerOK(gc', row')
  BY DEF MediaInv
<1> QED
  BY <1>6, <1>7, <1>8 DEF MediaInv

\* The cleaner's copy while the row does not change.
LEMMA CleanerStays ==
  ASSUME MediaInv, UNCHANGED <<row, gc>>
  PROVE  gc.pc = "remove" => CleanerOK(gc, row')
  BY DEF MediaInv

\* A step that touches the worker, its own file and the blame, but not the row.
LEMMA LocalKeeps ==
  ASSUME MediaInv, NEW w \in Workers, job[w].pc # "idle",
         NEW q \in Job, job' = [job EXCEPT ![w] = q], q.attempt = job[w].attempt,
         UNCHANGED <<row, final, gc>>, faults' \in 0 .. MaxFaults,
         blamed' \in BOOLEAN, blamed => blamed',
         NEW f \in File, part' = [part EXCEPT ![q.attempt] = f],
         CheckpointHeld(row, part', final),
         q.pc # "idle" => /\ JobOK(q, row, f, final, blamed')
                          /\ FencedBy(q, row) => OwnerOK(q, row, f, final, blamed')
  PROVE  MediaInv'
<1>1. q.attempt \in Attempts /\ part \in [Attempts -> File]
  BY OfWorker, Typed
<1>2. TypeInv'
  BY <1>1, Typed DEF TypeInv
<1>3. RowOK(row', final', blamed')
  BY DEF MediaInv, RowOK
<1>4. CheckpointHeld(row', part', final')
  OBVIOUS
<1>5. part'[q.attempt] = f
  BY <1>1
<1>6. ASSUME NEW v \in Workers, v # w, job[v].pc # "idle"
      PROVE  Around(job[v], row, row', part[job[v].attempt], part'[job[v].attempt],
                    final, final', blamed, blamed')
  <2>1. job[v].attempt # q.attempt /\ job[v].attempt \in Attempts /\ row \in Row
    BY <1>6, OthersDiffer, OfWorker, Typed
  <2>2. part'[job[v].attempt] = part[job[v].attempt]
    BY <1>1, <2>1
  <2>3. job[v].pc \in Publishing => blamed \/ (FencedBy(job[v], row) /\ row.live)
    BY <1>6, OfWorker DEF JobOK
  <2>4. row.attempt <= row.attempt
    BY <2>1 DEF Row
  <2> QED
    BY <2>2, <2>3, <2>4 DEF Around
<1> QED
  BY <1>2, <1>3, <1>4, <1>5, <1>6, CleanerStays, WorkKeeps
\* The owner writes the row.
LEMMA OwnerKeeps ==
  ASSUME MediaInv, NEW w \in Workers, job[w].pc # "idle", FencedBy(job[w], row),
         NEW s \in Row, row' = s, s.attempt = row.attempt,
         s.checkpoint \in {row.checkpoint, row.attempt}, row.finished => s.finished,
         UNCHANGED <<part, final, blamed, gc>>, faults' \in 0 .. MaxFaults,
         RowOK(s, final, blamed), CheckpointHeld(s, part, final),
         NEW q \in Job, job' = [job EXCEPT ![w] = q],
         q.pc # "idle" => /\ q.attempt = job[w].attempt
                          /\ JobOK(q, s, part[q.attempt], final, blamed)
                          /\ FencedBy(q, s) => OwnerOK(q, s, part[q.attempt], final, blamed)
  PROVE  MediaInv'
<1>1. TypeInv'
  BY Typed DEF TypeInv
<1>2. RowOK(row', final', blamed') /\ CheckpointHeld(row', part', final')
  OBVIOUS
<1>3. row \in Row /\ row.status = "fetching" /\ row.status \notin Closed
  BY Typed DEF FencedBy, Closed
<1>4. ASSUME NEW v \in Workers, v # w, job[v].pc # "idle"
      PROVE  Around(job[v], row, row', part[job[v].attempt], part'[job[v].attempt],
                    final, final', blamed, blamed')
  <2>1. job[v] \in Job /\ job[v].attempt < row.attempt /\ ~FencedBy(job[v], row)
    BY <1>4, OthersDiffer, OfWorker
  <2>2. job[v].pc \in Publishing => blamed
    BY <1>4, <2>1, OfWorker DEF JobOK
  <2>3. ~FencedBy(job[v], s)
    BY <1>3, <2>1 DEF FencedBy, Job, Row
  <2>4. s.checkpoint = row.checkpoint \/ s.checkpoint > job[v].attempt
    BY <1>3, <2>1
  <2>5. row.attempt <= s.attempt
    BY <1>3 DEF Row
  <2>6. Around(job[v], row, s, part[job[v].attempt], part[job[v].attempt], final, final, blamed, blamed)
    BY <1>3, <2>1, <2>2, <2>3, <2>4, <2>5 DEF Around
  <2> QED
    BY <2>6
<1>5. gc.pc = "remove" => CleanerOK(gc, row')
  <2>1. SUFFICES ASSUME gc.pc = "remove" PROVE CleanerOK(gc, s)
    OBVIOUS
  <2>2. CleanerOK(gc, row) /\ gc \in Cleaner
    BY <2>1, Typed DEF MediaInv
  <2>3. gc.attempt <= row.attempt /\ gc.attempt \in Nat /\ row.attempt \in Nat
    BY <1>3, <2>2 DEF CleanerOK, Cleaner, Row
  <2>4. gc.status \in {"pending", "failed"} => row.attempt > gc.attempt
    BY <1>3, <2>2, <2>3 DEF CleanerOK
  <2>5. gc.status \notin Closed
    BY <1>3, <2>2 DEF CleanerOK
  <2>6. gc.status \in {"pending", "failed"} => s.checkpoint = gc.checkpoint \/ s.checkpoint > gc.attempt
    BY <2>2, <2>3, <2>4 DEF CleanerOK
  <2>7. gc.status = "fetching" => s.checkpoint \in {gc.checkpoint, gc.attempt} \/ s.checkpoint > gc.attempt
    BY <2>2, <2>3 DEF CleanerOK
  <2> QED
    BY <2>3, <2>4, <2>5, <2>6, <2>7 DEF CleanerOK
<1>6. q.pc # "idle" =>
        /\ JobOK(q, row', part'[q.attempt], final', blamed')
        /\ FencedBy(q, row') => OwnerOK(q, row', part'[q.attempt], final', blamed')
        /\ job[w].pc # "idle" /\ q.attempt = job[w].attempt
  OBVIOUS
<1>7. UNCHANGED gc
  OBVIOUS
<1> QED
  BY <1>1, <1>2, <1>4, <1>5, <1>6, <1>7, WorkKeeps

Moved(q, w, pc) ==
    /\ q.pc = pc
    /\ q.attempt = job[w].attempt /\ q.checkpoint = job[w].checkpoint
    /\ q.bytes = job[w].bytes /\ q.finished = job[w].finished

LEMMA ToIs ==
  ASSUME MediaInv, NEW w \in Workers, NEW pc \in PCs, To(w, pc)
  PROVE  \E q \in Job : job' = [job EXCEPT ![w] = q] /\ Moved(q, w, pc)
<1>1. job[w] \in Job
  BY Typed
<1>2. PICK q \in Job : q = [job[w] EXCEPT !.pc = pc]
  BY <1>1 DEF Job
<1>3. Moved(q, w, pc)
  BY <1>1, <1>2 DEF Moved, Job
<1>4. job' = [job EXCEPT ![w] = q]
  BY <1>2, Typed DEF To
<1> QED
  BY <1>3, <1>4

LEMMA SameFile ==
  ASSUME MediaInv, NEW w \in Workers, job[w].pc # "idle", UNCHANGED part
  PROVE  \E f \in File : /\ f = part[job[w].attempt]
                         /\ part' = [part EXCEPT ![job[w].attempt] = f]
  BY OfWorker, Typed

\* A worker leaves, or dies.
LEMMA LeaveKeeps ==
  ASSUME MediaInv, NEW w \in Workers, job[w].pc # "idle", Leave(w),
         UNCHANGED <<row, part, final, gc, blamed>>, faults' \in 0 .. MaxFaults
  PROVE  MediaInv'
<1>1. TypeInv'
  BY Typed, NoJobIs DEF TypeInv, Leave
<1>2. RowOK(row', final', blamed') /\ CheckpointHeld(row', part', final')
  BY DEF MediaInv
<1>3. ASSUME NEW v \in Workers, v # w, job[v].pc # "idle"
      PROVE  Around(job[v], row, row', part[job[v].attempt], part'[job[v].attempt],
                    final, final', blamed, blamed')
  <2>1. job[v].pc \in Publishing => blamed \/ (FencedBy(job[v], row) /\ row.live)
    BY <1>3, OfWorker DEF JobOK
  <2>2. row.attempt <= row.attempt
    BY Typed DEF Row
  <2> QED
    BY <2>1, <2>2 DEF Around
<1> QED
  BY <1>1, <1>2, <1>3, NoJobIs, CleanerStays, WorkKeeps DEF Leave

\* A worker comes to a verdict about its attempt.
LEMMA VerdictKeeps ==
  ASSUME MediaInv, NEW w \in Workers, job[w].pc \notin {"idle", "dropOld"},
         NEW pc \in {"failed", "missing", "corrupt"}, To(w, pc),
         UNCHANGED <<row, final, gc>>, faults' \in 0 .. MaxFaults,
         blamed' \in BOOLEAN, blamed => blamed',
         NEW f \in File, part' = [part EXCEPT ![job[w].attempt] = f],
         CheckpointHeld(row, part', final),
         pc = "corrupt" /\ FencedBy(job[w], row) => blamed'
  PROVE  MediaInv'
<1>1. pc \in PCs
  BY DEF PCs
<1>2. PICK q \in Job : job' = [job EXCEPT ![w] = q] /\ Moved(q, w, pc)
  BY <1>1, ToIs
<1>3. JobOK(job[w], row, part[job[w].attempt], final, blamed)
  BY OfWorker
<1>4. JobOK(q, row, f, final, blamed')
  BY <1>2, <1>3 DEF JobOK, Moved, Filling, Publishing
<1>5. FencedBy(q, row) => OwnerOK(q, row, f, final, blamed')
  BY <1>2 DEF OwnerOK, Moved, FencedBy, Filling
<1>6. q.attempt = job[w].attempt /\ job[w].pc # "idle"
  BY <1>2 DEF Moved
<1>7. part' = [part EXCEPT ![q.attempt] = f]
  BY <1>6
<1> QED
  BY <1>2, <1>4, <1>5, <1>6, <1>7, LocalKeeps

\* The same without a change of files.
LEMMA PlainVerdictKeeps ==
  ASSUME MediaInv, NEW w \in Workers, job[w].pc \notin {"idle", "dropOld"},
         NEW pc \in {"failed", "missing", "corrupt"}, To(w, pc),
         UNCHANGED <<row, part, final, gc>>, faults' \in 0 .. MaxFaults,
         blamed' \in BOOLEAN, blamed => blamed',
         pc = "corrupt" /\ FencedBy(job[w], row) => blamed'
  PROVE  MediaInv'
<1>1. PICK f \in File : part' = [part EXCEPT ![job[w].attempt] = f]
  BY SameFile
<1>2. CheckpointHeld(row, part', final)
  BY DEF MediaInv
<1> QED
  BY <1>1, <1>2, VerdictKeeps
\* A step that only moves the worker on.
LEMMA StepKeeps ==
  ASSUME MediaInv, NEW w \in Workers, job[w].pc # "idle", NEW pc \in PCs, To(w, pc),
         UNCHANGED <<row, part, final, gc, blamed>>, faults' \in 0 .. MaxFaults,
         \A q \in Job : Moved(q, w, pc) =>
            /\ JobOK(q, row, part[job[w].attempt], final, blamed)
            /\ FencedBy(q, row) => OwnerOK(q, row, part[job[w].attempt], final, blamed)
  PROVE  MediaInv'
<1>1. PICK q \in Job : job' = [job EXCEPT ![w] = q] /\ Moved(q, w, pc)
  BY ToIs
<1>2. PICK f \in File : /\ f = part[job[w].attempt]
                        /\ part' = [part EXCEPT ![job[w].attempt] = f]
  BY SameFile
<1>3. q.attempt = job[w].attempt
  BY <1>1 DEF Moved
<1>4. part' = [part EXCEPT ![q.attempt] = f]
  BY <1>2, <1>3
<1>5. CheckpointHeld(row, part', final)
  BY DEF MediaInv
<1>6. blamed' \in BOOLEAN /\ (blamed => blamed')
  BY Zenon, Typed
<1>7. JobOK(q, row, f, final, blamed') /\ (FencedBy(q, row) => OwnerOK(q, row, f, final, blamed'))
  BY <1>1, <1>2
<1> QED
  BY <1>1, <1>3, <1>4, <1>5, <1>6, <1>7, LocalKeeps

\* The blame does not change.
LEMMA SameBlame ==
  ASSUME MediaInv, UNCHANGED blamed
  PROVE  blamed' \in BOOLEAN /\ (blamed => blamed')
  BY Zenon, Typed
--------------------------------------------------------------------------------
(* One lemma for each action.                                              *)

LEMMA ClaimKeeps ==
  ASSUME MediaInv, NEW w \in Workers, ClaimArchiveMedia(w)
  PROVE  MediaInv'
<1>1. /\ job[w].pc = "idle" /\ Claimable /\ row.attempt + 1 \in Attempts
      /\ row' = [row EXCEPT !.status = "fetching", !.attempt = @ + 1, !.live = TRUE]
      /\ UNCHANGED <<part, final, gc, blamed>>
  BY DEF ClaimArchiveMedia
<1>2. \/ /\ job' = [job EXCEPT ![w] = [pc |-> "stat", attempt |-> row.attempt + 1, checkpoint |-> row.checkpoint,
                                       bytes |-> row.bytes, finished |-> row.finished]]
         /\ UNCHANGED faults
      \/ Fault /\ UNCHANGED job
  BY DEF ClaimArchiveMedia
<1>3. row \in Row /\ RowOK(row, final, blamed) /\ CheckpointHeld(row, part, final)
  BY Typed DEF MediaInv
<1>4. row.attempt + 1 \in 0 .. MaxFaults + 1
  BY <1>1, WholeIs DEF Attempts
<1>5. "fetching" \in Statuses
  BY DEF Statuses
<1>6. PICK s \in Row : s = [row EXCEPT !.status = "fetching", !.attempt = @ + 1, !.live = TRUE]
  BY <1>3, <1>4, <1>5 DEF Row
<1>7. /\ s.status = "fetching" /\ s.attempt = row.attempt + 1 /\ s.live
      /\ s.checkpoint = row.checkpoint /\ s.bytes = row.bytes /\ s.finished = row.finished
      /\ s.sha = row.sha
  BY <1>3, <1>6 DEF Row
<1>8. row.status \notin Closed /\ (row.status = "fetching" => ~row.live)
  BY <1>1 DEF Claimable, Closed
<1>9. RowOK(s, final, blamed) /\ CheckpointHeld(s, part, final)
  <2>1. CheckpointHeld(s, part, final)
    BY <1>3, <1>7, <1>8 DEF CheckpointHeld
  <2>2. s.checkpoint <= s.attempt
    BY <1>3, <1>7 DEF RowOK, Row
  <2> QED
    BY <1>3, <1>7, <2>1, <2>2 DEF RowOK
<1>10. TypeInv'
  <2>1. job' \in [Workers -> Job]
    <3>1. "stat" \in PCs /\ job \in [Workers -> Job]
      BY Typed DEF PCs
    <3>2. [pc |-> "stat", attempt |-> row.attempt + 1, checkpoint |-> row.checkpoint,
           bytes |-> row.bytes, finished |-> row.finished] \in Job
      BY <1>3, <1>4, <3>1 DEF Row, Job
    <3> QED
      BY <1>2, <3>1, <3>2
  <2>2. faults' \in 0 .. MaxFaults
    BY <1>2, FaultTyped
  <2> QED
    BY <1>1, <1>6, <2>1, <2>2, Typed DEF TypeInv
<1>11. ASSUME NEW v \in Workers, v # w, job[v].pc # "idle"
       PROVE  Around(job[v], row, row', part[job[v].attempt], part'[job[v].attempt],
                     final, final', blamed, blamed')
  <2>1. job[v] \in Job /\ job[v].attempt <= row.attempt
    BY <1>11, OfWorker DEF JobOK
  <2>2. ~FencedBy(job[v], s)
    BY <1>3, <1>7, <2>1 DEF FencedBy, Job, Row
  <2>3. job[v].pc \in Publishing => blamed
    BY <1>8, <1>11, OfWorker DEF JobOK, FencedBy
  <2>4. row.attempt <= s.attempt
    BY <1>3, <1>7 DEF Row
  <2>5. PICK j, f : j = job[v] /\ f = part[job[v].attempt]
    OBVIOUS
  <2>6. Around(j, row, s, f, f, final, final, blamed, blamed)
    BY <1>7, <1>8, <2>2, <2>3, <2>4, <2>5 DEF Around
  <2> QED
    BY <1>1, <1>6, <2>5, <2>6
<1>12. gc.pc = "remove" => CleanerOK(gc, row')
  <2>1. SUFFICES ASSUME gc.pc = "remove" PROVE CleanerOK(gc, s)
    BY <1>1, <1>6
  <2>2. CleanerOK(gc, row) /\ gc \in Cleaner
    BY <2>1, Typed DEF MediaInv
  <2>3. gc.attempt < s.attempt
    BY <1>3, <1>7, <2>2 DEF CleanerOK, Cleaner, Row
  <2>4. gc.attempt <= s.attempt /\ s.attempt # gc.attempt
    BY <2>2, <2>3, WholeIs DEF Cleaner, Row
  <2> QED
    BY <1>7, <1>8, <2>2, <2>4 DEF CleanerOK
<1>13. CASE Fault /\ UNCHANGED job
  <2>1. job[w] \in Job /\ job' = [job EXCEPT ![w] = job[w]]
    BY <1>13, Typed
  <2> QED
    BY <1>1, <1>6, <1>9, <1>10, <1>11, <1>12, <2>1, WorkKeeps
<1>14. CASE job' = [job EXCEPT ![w] = [pc |-> "stat", attempt |-> row.attempt + 1, checkpoint |-> row.checkpoint,
                                       bytes |-> row.bytes, finished |-> row.finished]]
  <2>1. "stat" \in PCs
    BY DEF PCs
  <2>2. PICK q \in Job : q = [pc |-> "stat", attempt |-> row.attempt + 1, checkpoint |-> row.checkpoint,
                              bytes |-> row.bytes, finished |-> row.finished]
    BY <1>3, <1>4, <2>1 DEF Row, Job
  <2>3. /\ q.pc = "stat" /\ q.attempt = row.attempt + 1 /\ q.checkpoint = row.checkpoint
        /\ q.bytes = row.bytes /\ q.finished = row.finished
    BY <2>2
  <2>4. job' = [job EXCEPT ![w] = q]
    BY <1>14, <2>2
  <2>5. q.attempt > row.attempt /\ 0 < q.attempt /\ q.attempt <= s.attempt /\ q.checkpoint < q.attempt
        /\ q.checkpoint <= q.attempt
    BY <1>3, <1>7, <2>3 DEF RowOK, Row
  <2>6. JobOK(q, s, part[q.attempt], final, blamed)
    BY <1>3, <1>7, <2>3, <2>5 DEF JobOK, RowOK, Filling, Publishing
  <2>7. OwnerOK(q, s, part[q.attempt], final, blamed)
    BY <1>7, <2>3 DEF OwnerOK, Filling
  <2> QED
    BY <1>1, <1>6, <1>9, <1>10, <1>11, <1>12, <2>4, <2>5, <2>6, <2>7, WorkKeeps
<1> QED
  BY <1>2, <1>13, <1>14

LEMMA StatKeeps ==
  ASSUME MediaInv, NEW w \in Workers, StatFinal(w)
  PROVE  MediaInv'
<1>1. job[w].pc = "stat" /\ UNCHANGED <<row, part, final, gc, blamed>>
  BY DEF StatFinal
<1>2. \/ final = Absent /\ To(w, "prepare") /\ UNCHANGED faults
      \/ /\ final # Absent
         /\ To(w, IF job[w].finished /\ final = row.sha THEN "complete" ELSE "corrupt")
         /\ UNCHANGED faults
      \/ Fault /\ To(w, "failed")
  BY DEF StatFinal
<1>3. faults' \in 0 .. MaxFaults
  BY <1>2, FaultTyped
<1>4. blamed' \in BOOLEAN /\ (blamed => blamed')
  BY <1>1, SameBlame
<1>5. JobOK(job[w], row, part[job[w].attempt], final, blamed)
      /\ (FencedBy(job[w], row) => OwnerOK(job[w], row, part[job[w].attempt], final, blamed))
  BY <1>1, OfWorker
<1>6. CASE final = Absent /\ To(w, "prepare")
  <2>1. PICK pc \in PCs : pc = "prepare"
    BY DEF PCs
  <2>2. ASSUME NEW q \in Job, Moved(q, w, pc)
        PROVE  /\ JobOK(q, row, part[job[w].attempt], final, blamed)
               /\ FencedBy(q, row) => OwnerOK(q, row, part[job[w].attempt], final, blamed)
    <3>1. JobOK(q, row, part[job[w].attempt], final, blamed)
      BY <1>1, <1>5, <2>1, <2>2 DEF JobOK, Moved, Filling, Publishing
    <3>2. FencedBy(q, row) => OwnerOK(q, row, part[job[w].attempt], final, blamed)
      BY <1>1, <1>5, <1>6, <2>1, <2>2 DEF OwnerOK, Moved, Filling, FencedBy
    <3> QED
      BY <3>1, <3>2
  <2>3. To(w, pc)
    BY <1>6, <2>1
  <2> QED
    BY <1>1, <1>3, <2>2, <2>3, StepKeeps
<1>7. CASE final # Absent /\ To(w, IF job[w].finished /\ final = row.sha THEN "complete" ELSE "corrupt")
  <2>1. final = Whole
    BY <1>7, Typed
  <2>2. CASE job[w].finished /\ final = row.sha
    <3>1. PICK pc \in PCs : pc = "complete"
      BY DEF PCs
    <3>2. ASSUME NEW q \in Job, Moved(q, w, pc)
          PROVE  /\ JobOK(q, row, part[job[w].attempt], final, blamed)
                 /\ FencedBy(q, row) => OwnerOK(q, row, part[job[w].attempt], final, blamed)
      <4>1. JobOK(q, row, part[job[w].attempt], final, blamed)
        BY <1>1, <1>5, <2>1, <3>1, <3>2 DEF JobOK, Moved, Filling, Publishing
      <4>2. OwnerOK(q, row, part[job[w].attempt], final, blamed)
        BY <3>1, <3>2 DEF OwnerOK, Moved, Filling
      <4> QED
        BY <4>1, <4>2
    <3>3. To(w, pc)
      BY <1>7, <2>2, <3>1
    <3> QED
      BY <1>1, <1>3, <3>2, <3>3, StepKeeps
  <2>3. CASE ~(job[w].finished /\ final = row.sha)
    <3>1. To(w, "corrupt")
      BY <1>7, <2>3
    <3>2. ~FencedBy(job[w], row)
      <4>1. row.finished /\ row.sha = Whole
        BY <2>1 DEF MediaInv, RowOK
      <4> QED
        BY <1>1, <1>5, <2>1, <2>3, <4>1 DEF OwnerOK
    <3>3. PICK pc \in {"failed", "missing", "corrupt"} : pc = "corrupt"
      OBVIOUS
    <3> QED
      BY <1>1, <1>3, <1>4, <3>1, <3>2, <3>3, PlainVerdictKeeps
  <2> QED
    BY <2>2, <2>3
<1>8. CASE Fault /\ To(w, "failed")
  BY <1>1, <1>3, <1>4, <1>8, PlainVerdictKeeps
<1> QED
  BY <1>2, <1>6, <1>7, <1>8

\* Preparing writes the worker's own file, which no checkpoint names yet.
LEMMA PrepareOwnFile ==
  ASSUME MediaInv, NEW w \in Workers, job[w].pc = "prepare", NEW f \in File,
         part' = [part EXCEPT ![job[w].attempt] = f]
  PROVE  CheckpointHeld(row, part', final)
<1>1. JobOK(job[w], row, part[job[w].attempt], final, blamed) /\ job[w] \in Job
  BY OfWorker
<1>2. row.checkpoint # job[w].attempt
  BY <1>1, Typed DEF JobOK, Job, Row
<1>3. part'[row.checkpoint] = part[row.checkpoint] \/ row.checkpoint \notin Attempts
  BY <1>2, Typed
<1>4. row.bytes > 0 => row.checkpoint \in Attempts
  BY Typed, WholeIs DEF MediaInv, RowOK, Row, Attempts
<1>5. CheckpointHeld(row, part, final)
  BY DEF MediaInv
<1> QED
  BY <1>3, <1>4, <1>5 DEF CheckpointHeld

\* What the new attempt starts with.
LEMMA ResumedIs ==
  ASSUME MediaInv, NEW w \in Workers, job[w].pc = "prepare",
         job[w].bytes = 0 \/ Backed(job[w].checkpoint, job[w].bytes)
  PROVE  Resumed(w) = Prefix(job[w].bytes)
<1>1. job[w] \in Job /\ job[w].bytes \in 0 .. Chunks
  BY OfWorker DEF Job
<1>2. CASE job[w].bytes = 0
  BY <1>2, WholeIs DEF Resumed
<1>3. CASE job[w].bytes # 0
  <2>1. job[w].checkpoint \in Attempts
    BY <1>3 DEF Backed
  <2>2. Holds(part[job[w].checkpoint], job[w].bytes)
    BY <1>1, <1>3, <2>1, BackedIsHeld, Typed
  <2>3. PICK m \in job[w].bytes .. Chunks : part[job[w].checkpoint] = Prefix(m)
    BY <2>2 DEF Holds
  <2>4. m \in Nat /\ job[w].bytes \in 0 .. m
    BY <1>1, <2>3, WholeIs
  <2>5. SubSeq(part[job[w].checkpoint], 1, job[w].bytes) = Prefix(job[w].bytes)
    BY <2>3, <2>4, PrefixOfPrefix
  <2> QED
    BY <1>3, <2>5 DEF Resumed
<1> QED
  BY <1>2, <1>3

LEMMA PrepareKeeps ==
  ASSUME MediaInv, NEW w \in Workers, Prepare(w)
  PROVE  MediaInv'
<1>1. job[w].pc = "prepare" /\ UNCHANGED <<row, final, gc>>
  BY DEF Prepare
<1>2. \/ /\ job[w].bytes = 0 \/ Backed(job[w].checkpoint, job[w].bytes)
         /\ part' = [part EXCEPT ![job[w].attempt] = Resumed(w)]
         /\ To(w, IF job[w].finished THEN "commit" ELSE "renew")
         /\ UNCHANGED <<blamed, faults>>
      \/ /\ job[w].bytes > 0 /\ ~Backed(job[w].checkpoint, job[w].bytes)
         /\ part' = [part EXCEPT ![job[w].attempt] = << >>]
         /\ To(w, "corrupt")
         /\ UNCHANGED <<blamed, faults>>
      \/ Fault /\ To(w, "corrupt") /\ blamed' = TRUE /\ UNCHANGED part
  BY DEF Prepare
<1>3. faults' \in 0 .. MaxFaults
  BY <1>2, FaultTyped
<1>4. /\ JobOK(job[w], row, part[job[w].attempt], final, blamed)
      /\ FencedBy(job[w], row) => OwnerOK(job[w], row, part[job[w].attempt], final, blamed)
      /\ job[w] \in Job /\ job[w].attempt \in Attempts
  BY <1>1, OfWorker
<1>5. row \in Row /\ RowOK(row, final, blamed) /\ CheckpointHeld(row, part, final)
  BY Typed DEF MediaInv
<1>6. CASE /\ job[w].bytes = 0 \/ Backed(job[w].checkpoint, job[w].bytes)
           /\ part' = [part EXCEPT ![job[w].attempt] = Resumed(w)]
           /\ To(w, IF job[w].finished THEN "commit" ELSE "renew")
           /\ UNCHANGED <<blamed, faults>>
  <2>1. Resumed(w) = Prefix(job[w].bytes)
    BY <1>1, <1>6, ResumedIs
  <2>2. PICK f \in File : f = Prefix(job[w].bytes)
    BY <1>4 DEF File, Job
  <2>3. part' = [part EXCEPT ![job[w].attempt] = f]
    BY <1>6, <2>1, <2>2
  <2>4. PICK pc \in PCs : pc = IF job[w].finished THEN "commit" ELSE "renew"
    BY DEF PCs
  <2>5. PICK q \in Job : job' = [job EXCEPT ![w] = q] /\ Moved(q, w, pc)
    BY <1>6, <2>4, ToIs
  <2>6. JobOK(q, row, f, final, blamed)
    <3>1. q.pc \in Filling \ {"checkpoint"} => q.bytes < Chunks
      <4>1. ~job[w].finished => job[w].bytes # Chunks
        BY <1>1, <1>4 DEF JobOK
      <4> QED
        BY <1>4, <2>4, <2>5, <4>1, WholeIs DEF Filling, Moved, Job
    <3> QED
      BY <1>1, <1>4, <2>2, <2>4, <2>5, <3>1 DEF JobOK, Moved, Filling, Publishing
  <2>7. ASSUME FencedBy(q, row) PROVE OwnerOK(q, row, f, final, blamed)
    <3>1. OwnerOK(job[w], row, part[job[w].attempt], final, blamed)
      BY <1>4, <2>5, <2>7 DEF FencedBy, Moved
    <3>2. job[w].finished <=> row.finished
      BY <1>1, <3>1 DEF OwnerOK
    <3>3. job[w].finished => job[w].bytes = Chunks
      BY <1>1, <1>4 DEF JobOK
    <3>4. job[w].finished => f = Whole
      BY <2>2, <3>3, WholeIs
    <3> QED
      BY <2>2, <2>4, <2>5, <3>2, <3>4 DEF OwnerOK, Filling, Moved
  <2>8. CheckpointHeld(row, part', final)
    BY <1>1, <2>3, PrepareOwnFile
  <2>9. blamed' = blamed /\ blamed' \in BOOLEAN /\ (blamed => blamed')
    BY <1>6, SameBlame
  <2>10. q.attempt = job[w].attempt
    BY <2>5 DEF Moved
  <2>11. part' = [part EXCEPT ![q.attempt] = f]
    BY <2>3, <2>10
  <2>12. JobOK(q, row, f, final, blamed') /\ (FencedBy(q, row) => OwnerOK(q, row, f, final, blamed'))
    BY <2>6, <2>7, <2>9
  <2> QED
    BY <1>1, <1>3, <2>5, <2>8, <2>9, <2>10, <2>11, <2>12, LocalKeeps
<1>7. CASE /\ job[w].bytes > 0 /\ ~Backed(job[w].checkpoint, job[w].bytes)
           /\ part' = [part EXCEPT ![job[w].attempt] = << >>]
           /\ To(w, "corrupt")
           /\ UNCHANGED <<blamed, faults>>
  <2>1. PICK f \in File : f = << >>
    BY WholeIs DEF File
  <2>2. part' = [part EXCEPT ![job[w].attempt] = f]
    BY <1>7, <2>1
  <2>3. CheckpointHeld(row, part', final)
    BY <1>1, <2>2, PrepareOwnFile
  <2>4. blamed' = blamed /\ blamed' \in BOOLEAN /\ (blamed => blamed')
    BY <1>7, SameBlame
  <2>5. ASSUME FencedBy(job[w], row) PROVE blamed'
    <3>1. /\ OwnerOK(job[w], row, part[job[w].attempt], final, blamed)
          /\ row.status = "fetching" /\ row.attempt = job[w].attempt
      BY <1>4, <2>5 DEF FencedBy
    <3>2. row.checkpoint = job[w].checkpoint /\ row.bytes = job[w].bytes
      BY <1>1, <1>4, <1>5, <3>1 DEF JobOK, OwnerOK, RowOK, Row, Job
    <3>3. final = Whole \/ Holds(part[job[w].checkpoint], job[w].bytes)
      BY <1>5, <1>7, <3>1, <3>2 DEF CheckpointHeld, Closed
    <3>4. job[w].bytes \in 0 .. Chunks /\ job[w].checkpoint \in Attempts
      BY <1>1, <1>4, <1>7, WholeIs DEF JobOK, Job, Attempts
    <3>5. ~Holds(part[job[w].checkpoint], job[w].bytes)
      BY <1>7, <3>4, BackedIsHeld, Typed
    <3>6. final # Absent
      BY <3>3, <3>5, WholeIs
    <3>7. blamed
      BY <1>1, <3>1, <3>6 DEF OwnerOK
    <3> QED
      BY <2>4, <3>7
  <2>6. PICK pc \in {"failed", "missing", "corrupt"} : pc = "corrupt"
    OBVIOUS
  <2>7. To(w, pc) /\ job[w].pc \notin {"idle", "dropOld"}
    BY <1>1, <1>7, <2>6
  <2> QED
    BY <1>1, <1>3, <2>2, <2>3, <2>4, <2>5, <2>7, VerdictKeeps
<1>8. CASE Fault /\ To(w, "corrupt") /\ blamed' = TRUE /\ UNCHANGED part
  <2>1. PICK pc \in {"failed", "missing", "corrupt"} : pc = "corrupt"
    OBVIOUS
  <2>2. To(w, pc) /\ job[w].pc \notin {"idle", "dropOld"}
    BY <1>1, <1>8, <2>1
  <2> QED
    BY <1>1, <1>3, <1>8, <2>2, PlainVerdictKeeps
<1> QED
  BY <1>2, <1>6, <1>7, <1>8

\* The row with its lease renewed.
LEMMA RenewedRow ==
  ASSUME MediaInv
  PROVE  \E s \in Row :
            /\ s = [row EXCEPT !.live = TRUE] /\ s.live
            /\ s.status = row.status /\ s.attempt = row.attempt /\ s.checkpoint = row.checkpoint
            /\ s.bytes = row.bytes /\ s.finished = row.finished /\ s.sha = row.sha
            /\ RowOK(s, final, blamed) /\ CheckpointHeld(s, part, final)
<1>1. row \in Row /\ RowOK(row, final, blamed) /\ CheckpointHeld(row, part, final)
  BY Typed DEF MediaInv
<1>2. PICK s \in Row : s = [row EXCEPT !.live = TRUE]
  BY <1>1 DEF Row
<1>3. /\ s.status = row.status /\ s.attempt = row.attempt /\ s.checkpoint = row.checkpoint
      /\ s.bytes = row.bytes /\ s.finished = row.finished /\ s.sha = row.sha /\ s.live
  BY <1>1, <1>2 DEF Row
<1>4. RowOK(s, final, blamed)
  BY <1>1, <1>3 DEF RowOK
<1>5. CheckpointHeld(s, part, final)
  BY <1>1, <1>3 DEF CheckpointHeld
<1> QED
  BY <1>2, <1>3, <1>4, <1>5

LEMMA RenewKeeps ==
  ASSUME MediaInv, NEW w \in Workers, RenewArchiveMedia(w)
  PROVE  MediaInv'
<1>1. /\ job[w].pc \in {"renew", "renewed", "commit"}
      /\ UNCHANGED <<part, final, gc, blamed>>
  BY DEF RenewArchiveMedia
<1>2. \/ Fenced(w) /\ row' = [row EXCEPT !.live = TRUE] /\ To(w, AfterRenew(job[w].pc)) /\ UNCHANGED faults
      \/ Fault /\ Leave(w) /\ UNCHANGED row
      \/ ~Fenced(w) /\ Leave(w) /\ UNCHANGED <<row, faults>>
  BY DEF RenewArchiveMedia
<1>3. faults' \in 0 .. MaxFaults
  BY <1>2, FaultTyped
<1>4. CASE Leave(w) /\ UNCHANGED row
  BY <1>1, <1>3, <1>4, LeaveKeeps
<1>5. CASE Fenced(w) /\ row' = [row EXCEPT !.live = TRUE] /\ To(w, AfterRenew(job[w].pc))
  <2>1. FencedBy(job[w], row)
    BY <1>5 DEF Fenced, FencedBy
  <2>2. /\ JobOK(job[w], row, part[job[w].attempt], final, blamed)
        /\ OwnerOK(job[w], row, part[job[w].attempt], final, blamed)
    BY <1>1, <2>1, OfWorker
  <2>3. PICK s \in Row :
            /\ s = [row EXCEPT !.live = TRUE] /\ s.live
            /\ s.status = row.status /\ s.attempt = row.attempt /\ s.checkpoint = row.checkpoint
            /\ s.bytes = row.bytes /\ s.finished = row.finished /\ s.sha = row.sha
            /\ RowOK(s, final, blamed) /\ CheckpointHeld(s, part, final)
    BY RenewedRow
  <2>4. PICK pc \in PCs : /\ pc = AfterRenew(job[w].pc)
                          /\ \/ job[w].pc = "renew" /\ pc = "fetch"
                             \/ job[w].pc = "renewed" /\ pc = "write"
                             \/ job[w].pc = "commit" /\ pc = "link"
    BY <1>1 DEF AfterRenew, PCs
  <2>5. PICK q \in Job : job' = [job EXCEPT ![w] = q] /\ Moved(q, w, pc)
    BY <1>5, <2>4, ToIs
  <2>6. FencedBy(q, s)
    BY <2>1, <2>3, <2>5 DEF FencedBy, Moved
  <2>7. q.attempt = job[w].attempt
    BY <2>5 DEF Moved
  <2>8. JobOK(q, s, part[q.attempt], final, blamed)
    BY <2>2, <2>3, <2>4, <2>5, <2>6, <2>7 DEF JobOK, OwnerOK, Moved, Filling, Publishing
  <2>9. OwnerOK(q, s, part[q.attempt], final, blamed)
    BY <2>2, <2>3, <2>4, <2>5, <2>7 DEF OwnerOK, Moved, Filling
  <2> QED
    BY <1>1, <1>3, <1>5, <2>1, <2>3, <2>5, <2>7, <2>8, <2>9, OwnerKeeps
<1> QED
  BY <1>2, <1>4, <1>5

LEMMA CommitRefusedKeeps ==
  ASSUME MediaInv, NEW w \in Workers, CommitRefused(w)
  PROVE  MediaInv'
<1>1. job[w].pc = "commit" /\ UNCHANGED <<row, part, final, gc, blamed>>
  BY DEF CommitRefused
<1>2. \/ /\ part[job[w].attempt] # row.sha
         /\ To(w, IF part[job[w].attempt] = Absent THEN "failed" ELSE "corrupt")
         /\ UNCHANGED faults
      \/ Fault /\ To(w, "failed")
  BY DEF CommitRefused
<1>3. faults' \in 0 .. MaxFaults
  BY <1>2, FaultTyped
<1>4. blamed' \in BOOLEAN /\ (blamed => blamed')
  BY <1>1, SameBlame
<1>5. FencedBy(job[w], row) => part[job[w].attempt] = row.sha
  <2>1. FencedBy(job[w], row) => row.finished /\ part[job[w].attempt] = Whole
    BY <1>1, OfWorker DEF OwnerOK
  <2> QED
    BY <2>1 DEF MediaInv, RowOK
<1>6. PICK pc \in {"failed", "missing", "corrupt"} :
         To(w, pc) /\ (pc = "corrupt" => part[job[w].attempt] # row.sha)
  BY <1>2
<1> QED
  BY <1>1, <1>3, <1>4, <1>5, <1>6, PlainVerdictKeeps

LEMMA FetchKeeps ==
  ASSUME MediaInv, NEW w \in Workers, FetchMedia(w)
  PROVE  MediaInv'
<1>1. job[w].pc = "fetch" /\ UNCHANGED <<row, part, final, gc>>
  BY DEF FetchMedia
<1>2. \/ To(w, "renewed") /\ UNCHANGED <<blamed, faults>>
      \/ Fault /\ (To(w, "failed") \/ To(w, "missing")) /\ UNCHANGED blamed
      \/ Fault /\ To(w, "corrupt") /\ blamed' = TRUE
  BY DEF FetchMedia
<1>3. faults' \in 0 .. MaxFaults
  BY <1>2, FaultTyped
<1>4. CASE To(w, "renewed") /\ UNCHANGED <<blamed, faults>>
  <2>1. PICK pc \in PCs : pc = "renewed"
    BY DEF PCs
  <2>2. /\ JobOK(job[w], row, part[job[w].attempt], final, blamed)
        /\ FencedBy(job[w], row) => OwnerOK(job[w], row, part[job[w].attempt], final, blamed)
    BY <1>1, OfWorker
  <2>3. ASSUME NEW q \in Job, Moved(q, w, pc)
        PROVE  /\ JobOK(q, row, part[job[w].attempt], final, blamed)
               /\ FencedBy(q, row) => OwnerOK(q, row, part[job[w].attempt], final, blamed)
    <3>1. JobOK(q, row, part[job[w].attempt], final, blamed)
      BY <1>1, <2>1, <2>2, <2>3 DEF JobOK, Moved, Filling, Publishing
    <3>2. FencedBy(q, row) => OwnerOK(q, row, part[job[w].attempt], final, blamed)
      BY <1>1, <2>1, <2>2, <2>3 DEF OwnerOK, Moved, Filling, FencedBy
    <3> QED
      BY <3>1, <3>2
  <2>4. To(w, pc)
    BY <1>4, <2>1
  <2> QED
    BY <1>1, <1>3, <1>4, <2>3, <2>4, StepKeeps
<1>5. CASE (To(w, "failed") \/ To(w, "missing")) /\ UNCHANGED blamed
  <2>1. blamed' \in BOOLEAN /\ (blamed => blamed')
    BY <1>5, SameBlame
  <2>2. PICK pc \in {"failed", "missing", "corrupt"} : To(w, pc) /\ pc # "corrupt"
    BY <1>5
  <2> QED
    BY <1>1, <1>3, <2>1, <2>2, PlainVerdictKeeps
<1>6. CASE To(w, "corrupt") /\ blamed' = TRUE
  <2>1. PICK pc \in {"failed", "missing", "corrupt"} : To(w, pc)
    BY <1>6
  <2> QED
    BY <1>1, <1>3, <1>6, <2>1, PlainVerdictKeeps
<1> QED
  BY <1>2, <1>4, <1>5, <1>6

\* A file after its next chunk, and what a checkpoint on it may still count on.
LEMMA Appended ==
  ASSUME MediaInv, NEW w \in Workers, job[w].pc = "write"
  PROVE  \E f \in File :
            /\ f = (IF part[job[w].attempt] = Absent THEN Absent
                    ELSE Append(part[job[w].attempt], job[w].bytes + 1))
            /\ f \in {Absent, Prefix(job[w].bytes + 1)}
            /\ part[job[w].attempt] = Prefix(job[w].bytes) => f = Prefix(job[w].bytes + 1)
            /\ job[w].bytes + 1 \in 0 .. Chunks
            /\ CheckpointHeld(row, [part EXCEPT ![job[w].attempt] = f], final)
<1>1. /\ JobOK(job[w], row, part[job[w].attempt], final, blamed)
      /\ job[w] \in Job /\ job[w].attempt \in Attempts
  BY OfWorker
<1>2. job[w].bytes \in Nat /\ job[w].bytes + 1 \in 0 .. Chunks
  BY <1>1, WholeIs DEF JobOK, Filling, Job
<1>3. part[job[w].attempt] \in {Absent, Prefix(job[w].bytes)}
  BY <1>1 DEF JobOK, Filling
<1>4. Append(Prefix(job[w].bytes), job[w].bytes + 1) = Prefix(job[w].bytes + 1)
  BY <1>2, PrefixAppend
<1>5. PICK f \in File : f = IF part[job[w].attempt] = Absent THEN Absent
                            ELSE Append(part[job[w].attempt], job[w].bytes + 1)
  BY <1>2, <1>3, <1>4 DEF File
<1>6. Prefix(job[w].bytes) # Absent
  BY <1>1, WholeIs DEF Job
<1>7. /\ f \in {Absent, Prefix(job[w].bytes + 1)}
      /\ part[job[w].attempt] = Prefix(job[w].bytes) => f = Prefix(job[w].bytes + 1)
  BY <1>3, <1>4, <1>5, <1>6
<1>8. CheckpointHeld(row, [part EXCEPT ![job[w].attempt] = f], final)
  <2>1. CheckpointHeld(row, part, final) /\ row \in Row /\ part \in [Attempts -> File]
    BY Typed DEF MediaInv
  <2>2. CASE row.checkpoint # job[w].attempt
    <3>1. row.bytes > 0 => row.checkpoint \in Attempts
      BY Typed, WholeIs DEF MediaInv, RowOK, Row, Attempts
    <3> QED
      BY <2>1, <2>2, <3>1 DEF CheckpointHeld
  <2>3. CASE row.checkpoint = job[w].attempt
    <3>1. [part EXCEPT ![job[w].attempt] = f][row.checkpoint] = f
      BY <1>1, <2>1, <2>3
    <3>2. ASSUME Holds(part[row.checkpoint], row.bytes)
          PROVE  Holds(f, row.bytes)
      <4>1. PICK m \in row.bytes .. Chunks : part[job[w].attempt] = Prefix(m)
        BY <2>3, <3>2 DEF Holds
      <4>2. m \in 0 .. Chunks /\ m \in Nat /\ row.bytes \in Nat
        BY <2>1, <4>1, WholeIs DEF Row
      <4>3. Prefix(m) # Absent
        BY <4>2, WholeIs
      <4>4. Prefix(m) = Prefix(job[w].bytes)
        BY <1>3, <4>1, <4>3
      <4>5. m = job[w].bytes
        BY <1>2, <4>2, <4>4, PrefixInjective
      <4>6. f = Prefix(job[w].bytes + 1)
        BY <1>7, <4>1, <4>4
      <4>7. job[w].bytes + 1 \in row.bytes .. Chunks
        BY <1>2, <4>1, <4>2, <4>5, WholeIs
      <4> QED
        BY <4>6, <4>7 DEF Holds
    <3> QED
      BY <2>1, <3>1, <3>2 DEF CheckpointHeld
  <2> QED
    BY <2>2, <2>3
<1> QED
  BY <1>2, <1>5, <1>7, <1>8, Zenon

LEMMA WriteKeeps ==
  ASSUME MediaInv, NEW w \in Workers, Write(w)
  PROVE  MediaInv'
<1> DEFINE append == part' = [part EXCEPT ![job[w].attempt] =
                                IF @ = Absent THEN Absent ELSE Append(@, job[w].bytes + 1)]
<1>1. job[w].pc = "write" /\ UNCHANGED <<row, final, gc, blamed>>
  BY DEF Write
<1>2. \/ append /\ job' = [job EXCEPT ![w].pc = "checkpoint", ![w].bytes = @ + 1] /\ UNCHANGED faults
      \/ Fault /\ To(w, "failed") /\ (append \/ UNCHANGED part)
  BY DEF Write
<1>3. faults' \in 0 .. MaxFaults
  BY <1>2, FaultTyped
<1>4. blamed' = blamed /\ blamed' \in BOOLEAN /\ (blamed => blamed')
  BY <1>1, SameBlame
<1>5. PICK f \in File :
            /\ f = (IF part[job[w].attempt] = Absent THEN Absent
                    ELSE Append(part[job[w].attempt], job[w].bytes + 1))
            /\ f \in {Absent, Prefix(job[w].bytes + 1)}
            /\ part[job[w].attempt] = Prefix(job[w].bytes) => f = Prefix(job[w].bytes + 1)
            /\ job[w].bytes + 1 \in 0 .. Chunks
            /\ CheckpointHeld(row, [part EXCEPT ![job[w].attempt] = f], final)
  BY <1>1, Appended
<1>6. append => part' = [part EXCEPT ![job[w].attempt] = f] /\ CheckpointHeld(row, part', final)
  BY <1>5, Zenon
<1>7. PICK pc \in {"failed", "missing", "corrupt"} : pc = "failed"
  OBVIOUS
<1>8. CASE To(w, "failed") /\ append
  BY <1>1, <1>3, <1>4, <1>6, <1>7, <1>8, VerdictKeeps
<1>9. CASE To(w, "failed") /\ UNCHANGED part
  BY <1>1, <1>3, <1>4, <1>7, <1>9, PlainVerdictKeeps
<1>10. CASE append /\ job' = [job EXCEPT ![w].pc = "checkpoint", ![w].bytes = @ + 1]
  <2>1. /\ JobOK(job[w], row, part[job[w].attempt], final, blamed)
        /\ FencedBy(job[w], row) => OwnerOK(job[w], row, part[job[w].attempt], final, blamed)
        /\ job[w] \in Job
    BY <1>1, OfWorker
  <2>2. PICK c \in PCs : c = "checkpoint"
    BY DEF PCs
  <2>3. PICK q \in Job : q = [job[w] EXCEPT !.pc = c, !.bytes = @ + 1]
    <3>1. PICK n \in 0 .. Chunks : n = job[w].bytes + 1
      BY <1>5
    <3>2. [job[w] EXCEPT !.pc = c, !.bytes = n] \in Job
      BY <2>1 DEF Job
    <3> QED
      BY <3>1, <3>2
  <2>4. /\ q.pc = "checkpoint" /\ q.attempt = job[w].attempt /\ q.checkpoint = job[w].checkpoint
        /\ q.bytes = job[w].bytes + 1
    BY <2>1, <2>2, <2>3 DEF Job
  <2>5. job' = [job EXCEPT ![w] = q]
    BY <1>10, <2>2, <2>3, Typed
  <2>6. JobOK(q, row, f, final, blamed')
    BY <1>1, <1>4, <1>5, <2>1, <2>4, Zenon DEF JobOK, Filling, Publishing
  <2>7. ASSUME FencedBy(q, row) PROVE OwnerOK(q, row, f, final, blamed')
    <3>1. OwnerOK(job[w], row, part[job[w].attempt], final, blamed)
      BY <2>1, <2>4, <2>7 DEF FencedBy
    <3>2. part[job[w].attempt] = Prefix(job[w].bytes) /\ ~row.finished
      BY <1>1, <3>1 DEF OwnerOK, Filling
    <3>3. f = Prefix(q.bytes)
      BY <1>5, <2>4, <3>2
    <3> QED
      BY <2>4, <3>2, <3>3 DEF OwnerOK, Filling
  <2>8. part' = [part EXCEPT ![q.attempt] = f] /\ CheckpointHeld(row, part', final)
    BY <1>6, <1>10, <2>4
  <2>9. q.attempt = job[w].attempt /\ job[w].pc # "idle"
    BY <1>1, <2>4
  <2>10. /\ UNCHANGED <<row, final, gc>>
         /\ q.pc # "idle" => /\ JobOK(q, row, f, final, blamed')
                             /\ FencedBy(q, row) => OwnerOK(q, row, f, final, blamed')
    BY <1>1, <2>6, <2>7
  <2> QED
    BY <1>3, <1>4, <2>5, <2>8, <2>9, <2>10, LocalKeeps, Zenon
<1> QED
  BY <1>2, <1>8, <1>9, <1>10

\* The row after a checkpoint.
LEMMA SavedRow ==
  ASSUME MediaInv, NEW w \in Workers, job[w].pc = "checkpoint", FencedBy(job[w], row)
  PROVE  \E s \in Row :
            /\ s = [row EXCEPT !.checkpoint = job[w].attempt, !.bytes = job[w].bytes,
                               !.finished = (job[w].bytes = Chunks),
                               !.sha = IF job[w].bytes = Chunks THEN part[job[w].attempt] ELSE Absent,
                               !.live = TRUE]
            /\ s.status = row.status /\ s.attempt = row.attempt /\ s.checkpoint = row.attempt
            /\ s.finished <=> job[w].bytes = Chunks
            /\ ~row.finished
            /\ RowOK(s, final, blamed) /\ CheckpointHeld(s, part, final)
            /\ part[job[w].attempt] = Prefix(job[w].bytes)
<1>1. /\ JobOK(job[w], row, part[job[w].attempt], final, blamed)
      /\ OwnerOK(job[w], row, part[job[w].attempt], final, blamed)
      /\ job[w] \in Job /\ job[w].attempt \in Attempts
  BY OfWorker
<1>2. row \in Row /\ RowOK(row, final, blamed) /\ row.attempt = job[w].attempt /\ row.status = "fetching"
  BY Typed DEF MediaInv, FencedBy
<1>3. part[job[w].attempt] = Prefix(job[w].bytes) /\ ~row.finished
  BY <1>1 DEF OwnerOK, Filling
<1>4. PICK sha \in {Absent, Whole} :
         sha = IF job[w].bytes = Chunks THEN part[job[w].attempt] ELSE Absent
  BY <1>3, WholeIs
<1>5. PICK done \in BOOLEAN : done = (job[w].bytes = Chunks)
  OBVIOUS
<1>6. PICK s \in Row : s = [row EXCEPT !.checkpoint = job[w].attempt, !.bytes = job[w].bytes,
                                       !.finished = done, !.sha = sha, !.live = TRUE]
  BY <1>1, <1>2 DEF Row, Job
<1>7. /\ s.status = row.status /\ s.attempt = row.attempt /\ s.checkpoint = job[w].attempt
      /\ s.bytes = job[w].bytes /\ s.finished = done /\ s.sha = sha
  BY <1>2, <1>6 DEF Row
<1>8. s = [row EXCEPT !.checkpoint = job[w].attempt, !.bytes = job[w].bytes,
                      !.finished = (job[w].bytes = Chunks),
                      !.sha = IF job[w].bytes = Chunks THEN part[job[w].attempt] ELSE Absent,
                      !.live = TRUE]
  BY <1>4, <1>5, <1>6
<1>9. RowOK(s, final, blamed)
  <2>1. final # Whole
    BY <1>2, <1>3 DEF RowOK
  <2>2. s.sha = IF s.finished THEN Whole ELSE Absent
    BY <1>3, <1>4, <1>5, <1>7, WholeIs
  <2>3. s.checkpoint <= s.attempt /\ s.checkpoint > 0
    BY <1>2, <1>7, <1>1 DEF Row, JobOK
  <2> QED
    BY <1>2, <1>5, <1>7, <2>1, <2>2, <2>3 DEF RowOK
<1>10. CheckpointHeld(s, part, final)
  <2>1. job[w].bytes \in job[w].bytes .. Chunks
    BY <1>1, WholeIs DEF Job
  <2>2. Holds(part[s.checkpoint], s.bytes)
    BY <1>3, <1>7, <2>1 DEF Holds
  <2> QED
    BY <2>2 DEF CheckpointHeld
<1> QED
  BY <1>2, <1>3, <1>5, <1>7, <1>8, <1>9, <1>10

LEMMA CheckpointKeeps ==
  ASSUME MediaInv, NEW w \in Workers, CheckpointArchiveMedia(w)
  PROVE  MediaInv'
<1> DEFINE save == row' = [row EXCEPT !.checkpoint = job[w].attempt, !.bytes = job[w].bytes,
                                      !.finished = (job[w].bytes = Chunks),
                                      !.sha = IF job[w].bytes = Chunks THEN part[job[w].attempt] ELSE Absent,
                                      !.live = TRUE]
<1>1. job[w].pc = "checkpoint" /\ UNCHANGED <<part, final, gc, blamed>>
  BY DEF CheckpointArchiveMedia
<1>2. \/ Fenced(w) /\ save /\ To(w, "dropOld") /\ UNCHANGED faults
      \/ Fault /\ ((Fenced(w) /\ save) \/ UNCHANGED row) /\ Leave(w)
      \/ Leave(w) /\ UNCHANGED <<row, faults>>
  BY DEF CheckpointArchiveMedia
<1>3. faults' \in 0 .. MaxFaults
  BY <1>2, FaultTyped
<1>4. CASE Leave(w) /\ UNCHANGED row
  BY <1>1, <1>3, <1>4, LeaveKeeps
<1>5. CASE Fenced(w) /\ save
  <2>1. FencedBy(job[w], row)
    BY <1>5 DEF Fenced, FencedBy
  <2>2. PICK s \in Row :
            /\ s = [row EXCEPT !.checkpoint = job[w].attempt, !.bytes = job[w].bytes,
                               !.finished = (job[w].bytes = Chunks),
                               !.sha = IF job[w].bytes = Chunks THEN part[job[w].attempt] ELSE Absent,
                               !.live = TRUE]
            /\ s.status = row.status /\ s.attempt = row.attempt /\ s.checkpoint = row.attempt
            /\ s.finished <=> job[w].bytes = Chunks
            /\ ~row.finished
            /\ RowOK(s, final, blamed) /\ CheckpointHeld(s, part, final)
            /\ part[job[w].attempt] = Prefix(job[w].bytes)
    BY Zenon, <1>1, <2>1, SavedRow
  <2>3. row' = s
    BY <1>5, <2>2
  <2>4. ASSUME NEW q \in Job, job' = [job EXCEPT ![w] = q],
               q.pc # "idle" => /\ q.attempt = job[w].attempt
                                /\ JobOK(q, s, part[q.attempt], final, blamed)
                                /\ FencedBy(q, s) => OwnerOK(q, s, part[q.attempt], final, blamed)
        PROVE  MediaInv'
    BY <1>1, <1>3, <2>1, <2>2, <2>3, <2>4, OwnerKeeps
  <2>5. CASE Leave(w)
    BY <2>4, <2>5, NoJobIs DEF Leave
  <2>6. CASE To(w, "dropOld")
    <3>1. PICK pc \in PCs : pc = "dropOld"
      BY DEF PCs
    <3>2. PICK q \in Job : job' = [job EXCEPT ![w] = q] /\ Moved(q, w, pc)
      BY <2>6, <3>1, ToIs
    <3>3. q.attempt = job[w].attempt /\ q.pc = "dropOld" /\ q.bytes = job[w].bytes
      BY <3>1, <3>2 DEF Moved
    <3>4. JobOK(job[w], row, part[job[w].attempt], final, blamed) /\ row \in Row
      BY <1>1, OfWorker, Typed
    <3>5. s.checkpoint >= q.attempt
      BY <2>1, <2>2, <3>3, <3>4 DEF FencedBy, Row
    <3>6. JobOK(q, s, part[q.attempt], final, blamed)
      BY <2>2, <3>2, <3>3, <3>4, <3>5 DEF JobOK, Moved, Filling, Publishing
    <3>7. OwnerOK(q, s, part[q.attempt], final, blamed)
      BY <2>2, <3>3 DEF OwnerOK, Filling
    <3> QED
      BY <2>4, <3>2, <3>3, <3>6, <3>7
  <2> QED
    BY <1>2, <2>5, <2>6
<1> QED
  BY <1>2, <1>4, <1>5

LEMMA DigestKeeps ==
  ASSUME MediaInv, NEW w \in Workers, DigestFails(w)
  PROVE  MediaInv'
<1>1. /\ job[w].pc = "checkpoint" /\ To(w, "failed") /\ UNCHANGED <<row, part, final, gc, blamed>>
      /\ UNCHANGED faults \/ Fault
  BY DEF DigestFails
<1>2. faults' \in 0 .. MaxFaults
  BY <1>1, FaultTyped
<1>3. blamed' \in BOOLEAN /\ (blamed => blamed')
  BY <1>1, SameBlame
<1> QED
  BY <1>1, <1>2, <1>3, PlainVerdictKeeps

\* The file of the previous checkpoint is nobody's any more.
LEMMA DropKeeps ==
  ASSUME MediaInv, NEW w \in Workers, DropOld(w)
  PROVE  MediaInv'
<1>1. /\ job[w].pc = "dropOld" /\ UNCHANGED <<row, final, gc, blamed, faults>>
      /\ part' = [a \in Attempts |-> IF a = job[w].checkpoint /\ a # job[w].attempt THEN Absent ELSE part[a]]
      /\ job' = [job EXCEPT ![w].checkpoint = job[w].attempt, ![w].finished = (job[w].bytes = Chunks),
                            ![w].pc = IF job[w].bytes = Chunks THEN "commit" ELSE "renew"]
  BY DEF DropOld
<1>2. /\ JobOK(job[w], row, part[job[w].attempt], final, blamed)
      /\ FencedBy(job[w], row) => OwnerOK(job[w], row, part[job[w].attempt], final, blamed)
      /\ job[w] \in Job /\ job[w].attempt \in Attempts
  BY <1>1, OfWorker
<1>3. /\ row \in Row /\ RowOK(row, final, blamed) /\ CheckpointHeld(row, part, final)
      /\ part \in [Attempts -> File] /\ job \in [Workers -> Job]
  BY Typed DEF MediaInv
<1>4. /\ row.checkpoint >= job[w].attempt /\ row.checkpoint <= row.attempt
      /\ job[w].checkpoint <= job[w].attempt
  BY <1>1, <1>2, <1>3 DEF JobOK, RowOK
<1>5. ASSUME NEW a \in Attempts, a >= job[w].attempt PROVE part'[a] = part[a]
  BY <1>1, <1>2, <1>4, <1>5 DEF Attempts, Job
<1>6. PICK pc \in PCs : pc = IF job[w].bytes = Chunks THEN "commit" ELSE "renew"
  BY DEF PCs
<1>7. PICK done \in BOOLEAN : done = (job[w].bytes = Chunks)
  OBVIOUS
<1>8. PICK q \in Job : q = [job[w] EXCEPT !.checkpoint = job[w].attempt, !.finished = done, !.pc = pc]
  BY <1>2 DEF Job
<1>9. /\ q.pc = pc /\ q.attempt = job[w].attempt /\ q.checkpoint = job[w].attempt
      /\ q.bytes = job[w].bytes /\ q.finished = done
  BY <1>2, <1>8 DEF Job
<1>10. job' = [job EXCEPT ![w] = q]
  BY <1>1, <1>3, <1>6, <1>7, <1>8
<1>11. TypeInv'
  <2>1. part' \in [Attempts -> File]
    BY <1>1, <1>3 DEF File
  <2> QED
    <3>1. job' \in [Workers -> Job]
      BY <1>3, <1>10
    <3>2. blamed' \in BOOLEAN
      BY <1>1, SameBlame
    <3> QED
      BY <1>1, <2>1, <3>1, <3>2, Typed DEF TypeInv
<1>12. CheckpointHeld(row, part', final)
  <2>1. row.bytes > 0 => row.checkpoint \in Attempts
    BY <1>3, WholeIs DEF RowOK, Row, Attempts
  <2>2. row.bytes > 0 => part'[row.checkpoint] = part[row.checkpoint]
    BY <1>4, <1>5, <2>1
  <2> QED
    BY <1>3, <2>2 DEF CheckpointHeld
<1>13. part'[q.attempt] = part[job[w].attempt]
  BY <1>2, <1>5, <1>9 DEF Job
<1>14. JobOK(q, row, part'[q.attempt], final, blamed)
  <2>1. q.pc = "renew" => q.bytes < Chunks
    BY <1>2, <1>6, <1>9, WholeIs DEF Job
  <2>2. row.checkpoint = q.checkpoint \/ row.checkpoint > q.attempt
    BY <1>2, <1>3, <1>4, <1>9 DEF Job, Row
  <2>3. q.checkpoint <= q.attempt
    BY <1>2, <1>9 DEF Job
  <2> QED
    BY <1>1, <1>2, <1>6, <1>9, <1>13, <2>1, <2>2, <2>3 DEF JobOK, Filling, Publishing
<1>15. ASSUME FencedBy(q, row) PROVE OwnerOK(q, row, part'[q.attempt], final, blamed)
  <2>1. OwnerOK(job[w], row, part[job[w].attempt], final, blamed)
    BY <1>2, <1>9, <1>15 DEF FencedBy
  <2>2. part'[q.attempt] = Prefix(q.bytes) /\ (row.finished <=> q.bytes = Chunks)
    BY <1>1, <1>9, <1>13, <2>1 DEF OwnerOK, Filling
  <2> QED
    BY <1>6, <1>9, <2>2, WholeIs DEF OwnerOK, Filling
<1>16. ASSUME NEW v \in Workers, v # w, job[v].pc # "idle"
       PROVE  Around(job[v], row, row', part[job[v].attempt], part'[job[v].attempt],
                     final, final', blamed, blamed')
  <2>1. /\ job[v].attempt \in Attempts
        /\ job[v].pc \in Publishing => blamed \/ (FencedBy(job[v], row) /\ row.live)
    BY <1>16, OfWorker DEF JobOK
  <2>2. part'[job[v].attempt] \in {part[job[v].attempt], Absent}
    BY <1>1, <2>1
  <2>3. FencedBy(job[v], row) => part'[job[v].attempt] = part[job[v].attempt]
    BY <1>2, <1>3, <1>4, <1>5, <2>1 DEF FencedBy, Job, Row
  <2>4. row.attempt <= row.attempt
    BY <1>3 DEF Row
  <2> QED
    BY <1>1, <2>1, <2>2, <2>3, <2>4 DEF Around
<1>17. q.pc # "idle" =>
         /\ JobOK(q, row', part'[q.attempt], final', blamed')
         /\ FencedBy(q, row') => OwnerOK(q, row', part'[q.attempt], final', blamed')
         /\ job[w].pc # "idle" /\ q.attempt = job[w].attempt
  BY <1>1, <1>9, <1>14, <1>15
<1>18. RowOK(row', final', blamed') /\ CheckpointHeld(row', part', final')
  BY <1>1, <1>3, <1>12
<1>19. UNCHANGED gc /\ (gc.pc = "remove" => CleanerOK(gc, row'))
  BY <1>1, CleanerStays
<1> QED
  BY <1>10, <1>11, <1>16, <1>17, <1>18, <1>19, WorkKeeps

\* The final name is taken once, with the whole media; an owner that has not
\* looked for it yet can only be overtaken by a worker out of its lease.
LEMMA FirstLinkKeeps ==
  ASSUME MediaInv, NEW w \in Workers, job[w].pc = "link", To(w, "unlink"),
         part[job[w].attempt] # Absent, final = Absent, final' = part[job[w].attempt],
         UNCHANGED <<row, part, gc, blamed, faults>>
  PROVE  MediaInv'
<1>1. /\ JobOK(job[w], row, part[job[w].attempt], final, blamed)
      /\ row \in Row /\ RowOK(row, final, blamed)
  BY OfWorker, Typed DEF MediaInv
<1>2. final' = Whole /\ row.finished
  BY <1>1 DEF JobOK
<1>3. PICK pc \in PCs : pc = "unlink"
  BY DEF PCs
<1>4. PICK q \in Job : job' = [job EXCEPT ![w] = q] /\ Moved(q, w, pc)
  BY <1>3, ToIs
<1>5. q.pc = "unlink" /\ q.attempt = job[w].attempt
  BY <1>3, <1>4 DEF Moved
<1>6. TypeInv'
  <2>1. job' \in [Workers -> Job]
    BY <1>4, Typed
  <2>2. blamed' \in BOOLEAN
    BY SameBlame
  <2> QED
    BY <1>2, <2>1, <2>2, Typed DEF TypeInv
<1>7. RowOK(row', final', blamed') /\ CheckpointHeld(row', part', final')
  BY <1>1, <1>2 DEF RowOK, CheckpointHeld
<1>8. job[w].pc \in Publishing /\ (blamed \/ (FencedBy(job[w], row) /\ row.live))
  BY <1>1 DEF JobOK, Publishing
<1>9. JobOK(q, row, part[q.attempt], Whole, blamed)
  BY <1>1, <1>3, <1>4, <1>8 DEF JobOK, Moved, Filling, Publishing, FencedBy
<1>10. OwnerOK(q, row, part[q.attempt], Whole, blamed)
  BY <1>5 DEF OwnerOK, Filling
<1>11. q.pc # "idle" =>
         /\ JobOK(q, row', part'[q.attempt], final', blamed')
         /\ FencedBy(q, row') => OwnerOK(q, row', part'[q.attempt], final', blamed')
         /\ job[w].pc # "idle" /\ q.attempt = job[w].attempt
  BY <1>2, <1>5, <1>9, <1>10
<1>12. ASSUME NEW v \in Workers, v # w, job[v].pc # "idle"
       PROVE  Around(job[v], row, row', part[job[v].attempt], part'[job[v].attempt],
                     final, final', blamed, blamed')
  <2>1. job[v].pc \in Publishing => blamed \/ (FencedBy(job[v], row) /\ row.live)
    BY <1>12, OfWorker DEF JobOK
  <2>2. FencedBy(job[v], row) => blamed
    BY <1>8, <1>12, OthersDiffer
  <2>3. row.attempt <= row.attempt
    BY <1>1 DEF Row
  <2> QED
    BY <1>2, <2>1, <2>2, <2>3 DEF Around
<1>13. UNCHANGED gc /\ (gc.pc = "remove" => CleanerOK(gc, row'))
  BY CleanerStays
<1> QED
  BY <1>4, <1>6, <1>7, <1>11, <1>12, <1>13, WorkKeeps

LEMMA LinkKeeps ==
  ASSUME MediaInv, NEW w \in Workers, Link(w)
  PROVE  MediaInv'
<1>1. job[w].pc = "link" /\ UNCHANGED <<row, part, gc, blamed>>
  BY DEF Link
<1>2. \/ /\ part[job[w].attempt] # Absent /\ final = Absent /\ final' = part[job[w].attempt]
         /\ To(w, "unlink") /\ UNCHANGED faults
      \/ /\ part[job[w].attempt] # Absent /\ final # Absent
         /\ To(w, IF final = part[job[w].attempt] THEN "unlink" ELSE "failed")
         /\ UNCHANGED <<final, faults>>
      \/ To(w, "failed") /\ UNCHANGED <<final, faults>>
      \/ Fault /\ To(w, "failed") /\ UNCHANGED final
  BY DEF Link
<1>3. faults' \in 0 .. MaxFaults
  BY <1>2, FaultTyped
<1>4. blamed' \in BOOLEAN /\ (blamed => blamed')
  BY <1>1, SameBlame
<1>5. CASE /\ part[job[w].attempt] # Absent /\ final = Absent /\ final' = part[job[w].attempt]
           /\ To(w, "unlink") /\ UNCHANGED faults
  BY <1>1, <1>5, FirstLinkKeeps
<1>6. CASE final # Absent /\ To(w, "unlink") /\ UNCHANGED final
  <2>1. PICK pc \in PCs : pc = "unlink"
    BY DEF PCs
  <2>2. final = Whole
    BY <1>6, Typed
  <2>3. JobOK(job[w], row, part[job[w].attempt], final, blamed)
    BY <1>1, OfWorker
  <2>4. ASSUME NEW q \in Job, Moved(q, w, pc)
        PROVE  /\ JobOK(q, row, part[job[w].attempt], final, blamed)
               /\ FencedBy(q, row) => OwnerOK(q, row, part[job[w].attempt], final, blamed)
    <3>1. JobOK(q, row, part[job[w].attempt], final, blamed)
      BY <1>1, <2>1, <2>2, <2>3, <2>4 DEF JobOK, Moved, Filling, Publishing, FencedBy
    <3>2. OwnerOK(q, row, part[job[w].attempt], final, blamed)
      BY <2>1, <2>4 DEF OwnerOK, Moved, Filling
    <3> QED
      BY <3>1, <3>2
  <2>5. To(w, pc)
    BY <1>6, <2>1
  <2> QED
    BY <1>1, <1>3, <1>6, <2>4, <2>5, StepKeeps
<1>7. CASE To(w, "failed") /\ UNCHANGED final
  <2>1. PICK pc \in {"failed", "missing", "corrupt"} : pc = "failed"
    OBVIOUS
  <2> QED
    BY <1>1, <1>3, <1>4, <1>7, <2>1, PlainVerdictKeeps
<1> QED
  BY <1>2, <1>5, <1>6, <1>7

LEMMA UnlinkKeeps ==
  ASSUME MediaInv, NEW w \in Workers, Unlink(w)
  PROVE  MediaInv'
<1>1. job[w].pc = "unlink" /\ UNCHANGED <<row, final, gc, blamed>>
  BY DEF Unlink
<1>2. \/ /\ part' = [part EXCEPT ![job[w].attempt] = Absent]
         /\ To(w, IF part[job[w].attempt] = Absent THEN "failed" ELSE "complete")
         /\ UNCHANGED faults
      \/ Fault /\ To(w, "failed") /\ UNCHANGED part
  BY DEF Unlink
<1>3. faults' \in 0 .. MaxFaults
  BY <1>2, FaultTyped
<1>4. blamed' = blamed /\ blamed' \in BOOLEAN /\ (blamed => blamed')
  BY <1>1, SameBlame
<1>5. JobOK(job[w], row, part[job[w].attempt], final, blamed)
  BY <1>1, OfWorker
<1>6. final = Whole
  BY <1>1, <1>5 DEF JobOK
<1>7. CheckpointHeld(row, part', final)
  BY <1>6 DEF CheckpointHeld
<1>8. PICK pc \in {"failed", "missing", "corrupt"} : pc = "failed"
  OBVIOUS
<1>9. Absent \in File
  BY DEF File
<1>10. CASE part' = [part EXCEPT ![job[w].attempt] = Absent] /\ To(w, "failed")
  BY <1>1, <1>3, <1>4, <1>7, <1>8, <1>9, <1>10, VerdictKeeps
<1>11. CASE part' = [part EXCEPT ![job[w].attempt] = Absent] /\ To(w, "complete")
  <2>1. PICK c \in PCs : c = "complete"
    BY DEF PCs
  <2>2. PICK q \in Job : job' = [job EXCEPT ![w] = q] /\ Moved(q, w, c)
    BY <1>11, <2>1, ToIs
  <2>3. q.attempt = job[w].attempt /\ q.pc = "complete"
    BY <2>1, <2>2 DEF Moved
  <2>4. JobOK(q, row, Absent, final, blamed')
    BY <1>1, <1>5, <1>6, <2>1, <2>2 DEF JobOK, Moved, Filling, Publishing
  <2>5. OwnerOK(q, row, Absent, final, blamed')
    BY <2>3 DEF OwnerOK, Filling
  <2>6. part' = [part EXCEPT ![q.attempt] = Absent]
    BY <1>11, <2>3
  <2> QED
    BY <1>1, <1>3, <1>4, <1>7, <1>9, <2>2, <2>3, <2>4, <2>5, <2>6, LocalKeeps
<1>12. CASE Fault /\ To(w, "failed") /\ UNCHANGED part
  BY <1>1, <1>3, <1>4, <1>8, <1>12, PlainVerdictKeeps
<1> QED
  BY <1>2, <1>10, <1>11, <1>12

\* The owner closes the row, or gives it up.
LEMMA ClosedRow ==
  ASSUME MediaInv, NEW w \in Workers, job[w].pc # "idle", FencedBy(job[w], row),
         NEW status \in {"ready", "failed", "missing", "corrupt"},
         status = "ready" => final = Whole, status = "corrupt" => blamed
  PROVE  \E s \in Row :
            /\ s = [row EXCEPT !.status = status, !.live = FALSE] /\ s.status = status
            /\ s.attempt = row.attempt /\ s.checkpoint = row.checkpoint /\ s.finished = row.finished
            /\ RowOK(s, final, blamed) /\ CheckpointHeld(s, part, final)
<1>1. row \in Row /\ RowOK(row, final, blamed) /\ CheckpointHeld(row, part, final)
  BY Typed DEF MediaInv
<1>2. status \in Statuses
  BY DEF Statuses, Closed
<1>3. PICK s \in Row : s = [row EXCEPT !.status = status, !.live = FALSE]
  BY <1>1, <1>2 DEF Row
<1>4. /\ s.status = status /\ s.attempt = row.attempt /\ s.checkpoint = row.checkpoint
      /\ s.bytes = row.bytes /\ s.finished = row.finished /\ s.sha = row.sha
  BY <1>1, <1>3 DEF Row
<1>5. RowOK(s, final, blamed)
  BY <1>1, <1>4 DEF RowOK
<1>6. CheckpointHeld(s, part, final)
  BY <1>1, <1>4 DEF CheckpointHeld, FencedBy, Closed
<1> QED
  BY <1>3, <1>4, <1>5, <1>6

LEMMA CloseKeeps ==
  ASSUME MediaInv, NEW w \in Workers, job[w].pc # "idle", FencedBy(job[w], row),
         job[w].pc # "dropOld",
         NEW status \in {"ready", "failed", "missing", "corrupt"},
         status = "ready" => final = Whole, status = "corrupt" => blamed,
         row' = [row EXCEPT !.status = status, !.live = FALSE],
         UNCHANGED <<part, final, gc, blamed>>, faults' \in 0 .. MaxFaults,
         NEW pc \in {"clean", "cleanKeep"}, pc = "clean" => status # "failed",
         Leave(w) \/ To(w, pc)
  PROVE  MediaInv'
<1>1. PICK s \in Row :
            /\ s = [row EXCEPT !.status = status, !.live = FALSE] /\ s.status = status
            /\ s.attempt = row.attempt /\ s.checkpoint = row.checkpoint /\ s.finished = row.finished
            /\ RowOK(s, final, blamed) /\ CheckpointHeld(s, part, final)
  BY ClosedRow
<1>2. row' = s
  BY <1>1
<1>3. ASSUME NEW q \in Job, job' = [job EXCEPT ![w] = q],
             q.pc # "idle" => /\ q.attempt = job[w].attempt
                              /\ JobOK(q, s, part[q.attempt], final, blamed)
                              /\ FencedBy(q, s) => OwnerOK(q, s, part[q.attempt], final, blamed)
      PROVE  MediaInv'
  BY <1>1, <1>2, <1>3, OwnerKeeps
<1>4. CASE Leave(w)
  BY <1>3, <1>4, NoJobIs DEF Leave
<1>5. CASE To(w, pc)
  <2>1. pc \in PCs
    BY DEF PCs
  <2>2. PICK q \in Job : job' = [job EXCEPT ![w] = q] /\ Moved(q, w, pc)
    BY <1>5, <2>1, ToIs
  <2>3. q.attempt = job[w].attempt /\ q.pc = pc
    BY <2>2 DEF Moved
  <2>4. JobOK(job[w], row, part[job[w].attempt], final, blamed)
    BY OfWorker
  <2>5. pc = "clean" => s.status \in Closed
    BY <1>1 DEF Closed
  <2>6. JobOK(q, s, part[q.attempt], final, blamed)
    BY <1>1, <2>2, <2>3, <2>4, <2>5 DEF JobOK, Moved, Filling, Publishing
  <2>7. ~FencedBy(q, s)
    BY <1>1 DEF FencedBy
  <2> QED
    BY <1>3, <2>2, <2>3, <2>6, <2>7
<1> QED
  BY <1>4, <1>5

LEMMA CompleteKeeps ==
  ASSUME MediaInv, NEW w \in Workers, CompleteArchiveMedia(w)
  PROVE  MediaInv'
<1> DEFINE complete == row' = [row EXCEPT !.status = "ready", !.live = FALSE]
<1>1. job[w].pc = "complete" /\ UNCHANGED <<part, final, gc, blamed>>
  BY DEF CompleteArchiveMedia
<1>2. \/ Fenced(w) /\ complete /\ To(w, "clean") /\ UNCHANGED faults
      \/ Fault /\ ((Fenced(w) /\ complete) \/ UNCHANGED row) /\ Leave(w)
      \/ Leave(w) /\ UNCHANGED <<row, faults>>
  BY DEF CompleteArchiveMedia
<1>3. faults' \in 0 .. MaxFaults
  BY <1>2, FaultTyped
<1>4. CASE Leave(w) /\ UNCHANGED row
  BY <1>1, <1>3, <1>4, LeaveKeeps
<1>5. CASE Fenced(w) /\ complete
  <2>1. FencedBy(job[w], row)
    BY <1>5 DEF Fenced, FencedBy
  <2>2. final = Whole
    BY <1>1, OfWorker DEF JobOK
  <2>3. PICK status \in {"ready", "failed", "missing", "corrupt"} : status = "ready"
    OBVIOUS
  <2>4. PICK pc \in {"clean", "cleanKeep"} : pc = "clean"
    OBVIOUS
  <2>5. Leave(w) \/ To(w, pc)
    BY <1>2, <2>4
  <2>6. row' = [row EXCEPT !.status = status, !.live = FALSE]
    BY <1>5, <2>3
  <2> QED
    BY <1>1, <1>3, <2>1, <2>2, <2>3, <2>4, <2>5, <2>6, CloseKeeps
<1> QED
  BY <1>2, <1>4, <1>5

LEMMA FinishKeeps ==
  ASSUME MediaInv, NEW w \in Workers, finishArchiveMedia(w)
  PROVE  MediaInv'
<1> DEFINE finish == row' = [row EXCEPT !.status = job[w].pc, !.live = FALSE]
<1>1. /\ job[w].pc \in {"failed", "missing", "corrupt"}
      /\ UNCHANGED <<part, final, gc, blamed>>
  BY DEF finishArchiveMedia
<1>2. \/ Fenced(w) /\ finish /\ To(w, IF job[w].pc = "failed" THEN "cleanKeep" ELSE "clean") /\ UNCHANGED faults
      \/ Fault /\ ((Fenced(w) /\ finish) \/ UNCHANGED row) /\ Leave(w)
      \/ Leave(w) /\ UNCHANGED <<row, faults>>
  BY DEF finishArchiveMedia
<1>3. faults' \in 0 .. MaxFaults
  BY <1>2, FaultTyped
<1>4. CASE Leave(w) /\ UNCHANGED row
  BY <1>1, <1>3, <1>4, LeaveKeeps
<1>5. CASE Fenced(w) /\ finish
  <2>1. FencedBy(job[w], row)
    BY <1>5 DEF Fenced, FencedBy
  <2>2. job[w].pc = "corrupt" => blamed
    BY <1>1, <2>1, OfWorker DEF OwnerOK
  <2>3. PICK status \in {"ready", "failed", "missing", "corrupt"} : status = job[w].pc /\ status # "ready"
    BY <1>1
  <2>4. PICK pc \in {"clean", "cleanKeep"} : pc = IF job[w].pc = "failed" THEN "cleanKeep" ELSE "clean"
    OBVIOUS
  <2>5. (Leave(w) \/ To(w, pc)) /\ (pc = "clean" => status # "failed")
    BY <1>2, <2>3, <2>4
  <2>6. row' = [row EXCEPT !.status = status, !.live = FALSE]
    BY <1>5, <2>3
  <2> QED
    BY <1>1, <1>3, <2>1, <2>2, <2>3, <2>5, <2>6, CloseKeeps
<1> QED
  BY <1>2, <1>4, <1>5

LEMMA CleanupKeeps ==
  ASSUME MediaInv, NEW w \in Workers, CleanupAttempts(w)
  PROVE  MediaInv'
<1>1. /\ job[w].pc \in {"clean", "cleanKeep"} /\ Leave(w) /\ UNCHANGED <<row, final, gc, blamed, faults>>
      /\ part' = [a \in Attempts |-> IF a <= job[w].attempt /\ a \notin Kept(job[w]) THEN Absent ELSE part[a]]
  BY DEF CleanupAttempts
<1>2. /\ JobOK(job[w], row, part[job[w].attempt], final, blamed)
      /\ job[w] \in Job /\ job[w].attempt \in Attempts
  BY <1>1, OfWorker
<1>3. /\ row \in Row /\ RowOK(row, final, blamed) /\ CheckpointHeld(row, part, final)
      /\ part \in [Attempts -> File]
  BY Typed DEF MediaInv
<1>4. TypeInv'
  <2>1. part' \in [Attempts -> File]
    BY <1>1, <1>3 DEF File
  <2>2. job' \in [Workers -> Job] /\ blamed' \in BOOLEAN
    BY <1>1, Typed, NoJobIs, SameBlame DEF Leave
  <2> QED
    BY <1>1, <1>3, <2>1, <2>2, Typed DEF TypeInv
<1>5. CheckpointHeld(row, part', final)
  <2>1. CASE job[w].pc = "clean"
    BY <1>2, <2>1 DEF JobOK, CheckpointHeld
  <2>2. CASE job[w].pc = "cleanKeep"
    <3>1. row.checkpoint = job[w].checkpoint \/ row.checkpoint > job[w].attempt
      BY <1>2, <2>2 DEF JobOK
    <3>2. row.bytes > 0 => row.checkpoint \in Attempts
      BY <1>3, WholeIs DEF RowOK, Row, Attempts
    <3>3. row.bytes > 0 => part'[row.checkpoint] = part[row.checkpoint]
      BY <1>1, <1>2, <1>3, <2>2, <3>1, <3>2 DEF Kept, Job, Row
    <3> QED
      BY <1>3, <3>3 DEF CheckpointHeld
  <2> QED
    BY <1>1, <2>1, <2>2
<1>6. ASSUME NEW v \in Workers, v # w, job[v].pc # "idle"
      PROVE  Around(job[v], row, row', part[job[v].attempt], part'[job[v].attempt],
                    final, final', blamed, blamed')
  <2>1. /\ job[v].attempt \in Attempts /\ job[v] \in Job
        /\ job[v].pc \in Publishing => blamed \/ (FencedBy(job[v], row) /\ row.live)
    BY <1>6, OfWorker DEF JobOK
  <2>2. part'[job[v].attempt] \in {part[job[v].attempt], Absent}
    BY <1>1, <2>1
  <2>3. FencedBy(job[v], row) => part'[job[v].attempt] = part[job[v].attempt]
    <3>1. FencedBy(job[v], row) => job[w].attempt < row.attempt /\ row.attempt = job[v].attempt
      BY <1>1, <1>6, OthersDiffer DEF FencedBy
    <3>2. FencedBy(job[v], row) => ~(job[v].attempt <= job[w].attempt)
      BY <1>2, <1>3, <2>1, <3>1 DEF Job, Row
    <3> QED
      BY <1>1, <2>1, <3>2
  <2>4. row.attempt <= row.attempt
    BY <1>3 DEF Row
  <2> QED
    BY <1>1, <2>1, <2>2, <2>3, <2>4 DEF Around
<1>7. RowOK(row', final', blamed') /\ CheckpointHeld(row', part', final')
  BY <1>1, <1>3, <1>5
<1>8. UNCHANGED gc /\ (gc.pc = "remove" => CleanerOK(gc, row'))
  BY <1>1, CleanerStays
<1>9. NoJob \in Job /\ NoJob.pc = "idle" /\ job' = [job EXCEPT ![w] = NoJob]
  BY <1>1, NoJobIs DEF Leave
<1> QED
  BY <1>4, <1>6, <1>7, <1>8, <1>9, WorkKeeps

LEMMA CrashKeeps ==
  ASSUME MediaInv, NEW w \in Workers, Crash(w)
  PROVE  MediaInv'
<1>1. job[w].pc # "idle" /\ Fault /\ Leave(w) /\ UNCHANGED <<row, part, final, gc, blamed>>
  BY DEF Crash
<1>2. faults' \in 0 .. MaxFaults
  BY <1>1, FaultTyped
<1> QED
  BY <1>1, <1>2, LeaveKeeps

\* A step nobody at work takes: the jobs stay what they are.
LEMMA BystandersKeep ==
  ASSUME MediaInv, UNCHANGED job, TypeInv',
         RowOK(row', final', blamed'), CheckpointHeld(row', part', final'),
         \A v \in Workers : job[v].pc # "idle" =>
            Around(job[v], row, row', part[job[v].attempt], part'[job[v].attempt],
                   final, final', blamed, blamed'),
         gc'.pc = "remove" => gc'.status # "none" /\ CleanerOK(gc', row')
  PROVE  MediaInv'
<1>1. PICK s \in Row : s = row'
  BY DEF TypeInv
<1>2. PICK b \in BOOLEAN : b = blamed
  BY Zenon, Typed
<1>3. PICK c \in BOOLEAN : c = blamed'
  BY Zenon DEF TypeInv
<1>4. ASSUME NEW v \in Workers, job[v].pc # "idle"
      PROVE  /\ JobOK(job[v], row', part'[job[v].attempt], final', blamed')
             /\ FencedBy(job[v], row') =>
                  OwnerOK(job[v], row', part'[job[v].attempt], final', blamed')
  <2>1. PICK j \in Job : j = job[v]
    BY <1>4, OfWorker
  <2>2. PICK r \in Row : r = row
    BY Typed
  <2>3. PICK f, g : f = part[j.attempt] /\ g = part'[j.attempt]
    OBVIOUS
  <2>4. Around(j, r, s, f, g, final, final', b, c)
    BY <1>1, <1>2, <1>3, <1>4, <2>1, <2>2, <2>3
  <2>5. JobOK(j, r, f, final, b) /\ (FencedBy(j, r) => OwnerOK(j, r, f, final, b))
    BY <1>2, <1>4, <2>1, <2>2, <2>3, OfWorker
  <2>6. JobOK(j, s, g, final', c) /\ (FencedBy(j, s) => OwnerOK(j, s, g, final', c))
    BY <2>4, <2>5, JobStays
  <2> QED
    BY <1>1, <1>3, <2>1, <2>3, <2>6
<1>5. JobsSound'
  BY <1>4 DEF JobsSound
<1>6. OneWorkerPerAttempt'
  BY DEF MediaInv, OneWorkerPerAttempt
<1> QED
  BY <1>5, <1>6 DEF MediaInv

LEMMA LeaseKeeps ==
  ASSUME MediaInv, LeaseRunsOut
  PROVE  MediaInv'
<1> DEFINE owners == {w \in Workers : job[w].pc # "idle" /\ job[w].attempt = row.attempt}
<1>1. /\ row.status = "fetching" /\ row' = [row EXCEPT !.live = FALSE]
      /\ UNCHANGED <<part, final, job, gc>>
      /\ \/ owners = {} /\ UNCHANGED <<faults, blamed>>
         \/ owners # {} /\ Fault /\ blamed' = (blamed \/ \E w \in owners : job[w].pc \in Publishing)
  BY Zenon DEF LeaseRunsOut
<1>2. row \in Row /\ RowOK(row, final, blamed) /\ CheckpointHeld(row, part, final)
  BY Typed DEF MediaInv
<1>3. PICK s \in Row : s = [row EXCEPT !.live = FALSE]
  BY <1>2 DEF Row
<1>4. /\ s.status = row.status /\ s.attempt = row.attempt /\ s.checkpoint = row.checkpoint
      /\ s.bytes = row.bytes /\ s.finished = row.finished /\ s.sha = row.sha
  BY <1>2, <1>3 DEF Row
<1>5. row' = s
  BY <1>1, <1>3
<1>6. faults' \in 0 .. MaxFaults
  BY <1>1, FaultTyped
<1>7. blamed' \in BOOLEAN /\ (blamed => blamed')
  <2>1. CASE UNCHANGED blamed
    BY <2>1, SameBlame
  <2>2. CASE blamed' = (blamed \/ \E w \in owners : job[w].pc \in Publishing)
    BY <2>2, Zenon
  <2> QED
    BY <1>1, <2>1, <2>2, Zenon
<1>8. ASSUME NEW v \in Workers, job[v].pc # "idle", job[v].pc \in Publishing
      PROVE  blamed'
  <2>1. blamed \/ (FencedBy(job[v], row) /\ row.live)
    BY <1>8, OfWorker DEF JobOK
  <2>2. CASE blamed
    BY <1>7, <2>2
  <2>3. CASE FencedBy(job[v], row)
    <3>1. v \in owners
      BY <1>8, <2>3 DEF FencedBy
    <3> QED
      BY <1>1, <1>8, <3>1, Zenon
  <2> QED
    BY <2>1, <2>2, <2>3
<1>9. TypeInv'
  BY <1>1, <1>5, <1>6, <1>7, Typed DEF TypeInv
<1>10. RowOK(row', final', blamed')
  BY <1>1, <1>2, <1>4, <1>5, <1>7 DEF RowOK
<1>11. CheckpointHeld(row', part', final')
  BY <1>1, <1>2, <1>4, <1>5 DEF CheckpointHeld
<1>12. ASSUME NEW v \in Workers, job[v].pc # "idle"
       PROVE  Around(job[v], row, row', part[job[v].attempt], part'[job[v].attempt],
                     final, final', blamed, blamed')
  <2>1. row.attempt <= s.attempt
    BY <1>2, <1>4 DEF Row
  <2>2. FencedBy(job[v], s) => FencedBy(job[v], row)
    BY <1>4 DEF FencedBy
  <2> QED
    BY <1>1, <1>4, <1>5, <1>7, <1>8, <1>12, <2>1, <2>2 DEF Around
<1>13. gc'.pc = "remove" => gc'.status # "none" /\ CleanerOK(gc', row')
  <2>1. gc.pc = "remove" => gc.status # "none" /\ CleanerOK(gc, row)
    BY DEF MediaInv
  <2>2. CleanerOK(gc, row) => CleanerOK(gc, s)
    BY <1>4 DEF CleanerOK
  <2> QED
    BY <1>1, <1>5, <2>1, <2>2
<1> QED
  BY <1>1, <1>9, <1>10, <1>11, <1>12, <1>13, BystandersKeep

\* Nothing around a worker changes.
LEMMA SameAround ==
  ASSUME MediaInv, NEW v \in Workers, job[v].pc # "idle", NEW g,
         g \in {part[job[v].attempt], Absent},
         FencedBy(job[v], row) => g = part[job[v].attempt]
  PROVE  Around(job[v], row, row, part[job[v].attempt], g, final, final, blamed, blamed)
<1>1. job[v].pc \in Publishing => blamed \/ (FencedBy(job[v], row) /\ row.live)
  BY OfWorker DEF JobOK
<1>2. row.attempt <= row.attempt
  BY Typed DEF Row
<1> QED
  BY <1>1, <1>2 DEF Around

LEMMA SnapshotKeeps ==
  ASSUME MediaInv, GcSnapshot
  PROVE  MediaInv'
<1>1. /\ gc' = [pc |-> "remove", status |-> row.status, attempt |-> row.attempt, checkpoint |-> row.checkpoint]
      /\ UNCHANGED <<row, part, final, job, blamed, faults>>
  BY DEF GcSnapshot
<1>2. row \in Row /\ RowOK(row, final, blamed) /\ CheckpointHeld(row, part, final)
  BY Typed DEF MediaInv
<1>3. gc' \in Cleaner
  BY <1>1, <1>2 DEF Cleaner, Row
<1>4. /\ gc'.status = row.status /\ gc'.attempt = row.attempt /\ gc'.checkpoint = row.checkpoint
  BY <1>1
<1>5. row.status # "none"
  BY <1>2 DEF Row, Statuses, Closed
<1>6. row.attempt <= row.attempt
  BY <1>2 DEF Row
<1>7. gc'.pc = "remove" => gc'.status # "none" /\ CleanerOK(gc', row')
  BY <1>1, <1>4, <1>5, <1>6 DEF CleanerOK
<1>8. TypeInv'
  BY <1>1, <1>3, Typed, SameBlame DEF TypeInv
<1>9. RowOK(row', final', blamed') /\ CheckpointHeld(row', part', final')
  BY <1>1, <1>2
<1>10. ASSUME NEW v \in Workers, job[v].pc # "idle"
       PROVE  Around(job[v], row, row', part[job[v].attempt], part'[job[v].attempt],
                     final, final', blamed, blamed')
  BY <1>1, <1>10, SameAround
<1> QED
  BY <1>1, <1>7, <1>8, <1>9, <1>10, BystandersKeep

\* What the cleaner removes is neither the checkpoint of a row that is still
\* open nor the file of a worker that owns it.
LEMMA StaleIsFree ==
  ASSUME MediaInv, gc.pc = "remove", NEW a \in Attempts, Stale(a)
  PROVE  /\ row.status \notin Closed => a # row.checkpoint
         /\ \A v \in Workers : job[v].pc # "idle" /\ FencedBy(job[v], row) => job[v].attempt # a
<1>1. gc \in Cleaner /\ row \in Row /\ gc.status # "none" /\ CleanerOK(gc, row)
  BY Typed DEF MediaInv
<1>2. a <= gc.attempt /\ ~Referenced(a)
  BY DEF Stale
<1>3. gc.attempt <= row.attempt /\ row.checkpoint \in Nat /\ gc.attempt \in Nat /\ row.attempt \in Nat /\ a \in Nat
  BY <1>1, WholeIs DEF CleanerOK, Cleaner, Row, Attempts
<1>4. gc.status \in {"pending", "failed", "fetching"} \cup Closed
  BY <1>1 DEF Cleaner, Statuses
<1>5. CASE gc.status \in Closed
  <2>1. row.status \in Closed
    BY <1>1, <1>5 DEF CleanerOK
  <2> QED
    BY <2>1 DEF FencedBy, Closed
<1>6. CASE gc.status \in {"pending", "failed"}
  <2>1. a # gc.checkpoint
    BY <1>2, <1>6 DEF Referenced
  <2>2. a # row.checkpoint
    BY <1>1, <1>2, <1>3, <1>6, <2>1 DEF CleanerOK
  <2>3. row.status = "fetching" => a # row.attempt
    BY <1>1, <1>2, <1>3, <1>6 DEF CleanerOK
  <2> QED
    BY <2>2, <2>3 DEF FencedBy
<1>7. CASE gc.status = "fetching"
  <2>1. a # gc.checkpoint /\ a # gc.attempt
    BY <1>2, <1>7 DEF Referenced
  <2>2. a # row.checkpoint
    BY <1>1, <1>2, <1>3, <1>7, <2>1 DEF CleanerOK
  <2>3. a # row.attempt
    BY <1>2, <1>3, <2>1
  <2> QED
    BY <2>2, <2>3 DEF FencedBy
<1> QED
  BY <1>4, <1>5, <1>6, <1>7

LEMMA RemoveKeeps ==
  ASSUME MediaInv, GcRemove
  PROVE  MediaInv'
<1>1. gc.pc = "remove" /\ UNCHANGED <<row, final, job, blamed, faults>>
  BY DEF GcRemove
<1>2. \/ \E a \in Attempts : Stale(a) /\ part' = [part EXCEPT ![a] = Absent] /\ UNCHANGED gc
      \/ gc' = NotCleaning /\ UNCHANGED part
  BY DEF GcRemove
<1>3. row \in Row /\ RowOK(row, final, blamed) /\ CheckpointHeld(row, part, final)
      /\ part \in [Attempts -> File]
  BY Typed DEF MediaInv
<1>4. RowOK(row', final', blamed')
  BY <1>1, <1>3
<1>5. CASE \E a \in Attempts : Stale(a) /\ part' = [part EXCEPT ![a] = Absent] /\ UNCHANGED gc
  <2>1. PICK a \in Attempts : Stale(a) /\ part' = [part EXCEPT ![a] = Absent] /\ UNCHANGED gc
    BY <1>5
  <2>2. /\ row.status \notin Closed => a # row.checkpoint
        /\ \A v \in Workers : job[v].pc # "idle" /\ FencedBy(job[v], row) => job[v].attempt # a
    BY <1>1, <2>1, StaleIsFree
  <2>3. CheckpointHeld(row', part', final')
    <3>1. row.bytes > 0 => row.checkpoint \in Attempts
      BY <1>3, WholeIs DEF RowOK, Row, Attempts
    <3>2. row.status \notin Closed /\ row.bytes > 0 => part'[row.checkpoint] = part[row.checkpoint]
      BY <1>3, <2>1, <2>2, <3>1
    <3>3. CheckpointHeld(row, part', final)
      BY <1>3, <3>2 DEF CheckpointHeld
    <3> QED
      BY <1>1, <3>3
  <2>4. part' \in [Attempts -> File]
    BY <1>3, <2>1 DEF File
  <2>5. TypeInv'
    BY <1>1, <2>1, <2>4, Typed, SameBlame DEF TypeInv
  <2>6. ASSUME NEW v \in Workers, job[v].pc # "idle"
        PROVE  Around(job[v], row, row', part[job[v].attempt], part'[job[v].attempt],
                      final, final', blamed, blamed')
    <3>1. job[v].attempt \in Attempts
      BY <2>6, OfWorker
    <3>2. /\ part'[job[v].attempt] \in {part[job[v].attempt], Absent}
          /\ FencedBy(job[v], row) => part'[job[v].attempt] = part[job[v].attempt]
      BY <1>3, <2>1, <2>2, <2>6, <3>1
    <3> QED
      BY <1>1, <2>6, <3>2, SameAround
  <2>7. gc'.pc = "remove" => gc'.status # "none" /\ CleanerOK(gc', row')
    BY <1>1, <2>1 DEF MediaInv
  <2> QED
    BY <1>1, <1>4, <2>3, <2>5, <2>6, <2>7, BystandersKeep
<1>6. CASE gc' = NotCleaning /\ UNCHANGED part
  <2>1. gc' \in Cleaner /\ gc'.pc = "idle"
    BY <1>6, WholeIs DEF NotCleaning, Cleaner
  <2>2. TypeInv'
    BY <1>1, <1>6, <2>1, Typed, SameBlame DEF TypeInv
  <2>3. CheckpointHeld(row', part', final')
    BY <1>1, <1>3, <1>6
  <2>4. ASSUME NEW v \in Workers, job[v].pc # "idle"
        PROVE  Around(job[v], row, row', part[job[v].attempt], part'[job[v].attempt],
                      final, final', blamed, blamed')
    BY <1>1, <1>6, <2>4, SameAround
  <2> QED
    BY <1>1, <1>4, <2>1, <2>2, <2>3, <2>4, BystandersKeep
<1> QED
  BY <1>2, <1>5, <1>6
--------------------------------------------------------------------------------

LEMMA MediaNext ==
  ASSUME MediaInv, [Next]_vars
  PROVE  MediaInv'
<1>1. ASSUME NEW w \in Workers, WorkerStep(w) PROVE MediaInv'
  BY <1>1, ClaimKeeps, StatKeeps, PrepareKeeps, RenewKeeps, CommitRefusedKeeps, FetchKeeps, WriteKeeps,
     CheckpointKeeps, DigestKeeps, DropKeeps, LinkKeeps, UnlinkKeeps, CompleteKeeps, FinishKeeps,
     CleanupKeeps DEF WorkerStep
<1>2. ASSUME NEW w \in Workers, Crash(w) PROVE MediaInv'
  BY <1>2, CrashKeeps
<1>3. CASE UNCHANGED vars
  <2>1. UNCHANGED <<row, part, final, job, gc, blamed, faults>>
    BY <1>3 DEF vars
  <2>2. TypeInv'
    BY <2>1, Typed, SameBlame DEF TypeInv
  <2>3. RowOK(row', final', blamed') /\ CheckpointHeld(row', part', final')
    BY <2>1 DEF MediaInv
  <2>4. JobsSound' /\ OneWorkerPerAttempt' /\ (gc'.pc = "remove" => gc'.status # "none" /\ CleanerOK(gc', row'))
    BY <2>1 DEF MediaInv, JobsSound, OneWorkerPerAttempt
  <2> QED
    BY <2>2, <2>3, <2>4 DEF MediaInv
<1> QED
  BY <1>1, <1>2, <1>3, LeaseKeeps, SnapshotKeeps, RemoveKeeps DEF Next

\* A worker without a job has forgotten the last one.
IdleIsReset == \A w \in Workers : job[w].pc = "idle" => job[w].attempt = 0

LEMMA IdleStays ==
  ASSUME MediaInv, IdleIsReset, [Next]_vars
  PROVE  IdleIsReset'
<1>1. job \in [Workers -> Job]
  BY Typed
<1>2. ASSUME NEW w \in Workers, NEW q, job' = [job EXCEPT ![w] = q],
             q.pc = "idle" => q.attempt = 0
      PROVE  IdleIsReset'
  BY <1>1, <1>2 DEF IdleIsReset
<1>3. ASSUME NEW w \in Workers, Leave(w) PROVE IdleIsReset'
  <2>1. NoJob.attempt = 0
    BY DEF NoJob
  <2> QED
    BY <1>2, <1>3, <2>1 DEF Leave
<1>4. ASSUME NEW w \in Workers, NEW pc \in PCs, pc # "idle", To(w, pc) PROVE IdleIsReset'
  <2>1. PICK q \in Job : q = [job[w] EXCEPT !.pc = pc]
    BY <1>1 DEF Job
  <2>2. q.pc = pc /\ job' = [job EXCEPT ![w] = q]
    BY <1>1, <1>4, <2>1 DEF To, Job
  <2> QED
    BY <1>2, <1>4, <2>2
<1>5. UNCHANGED job => IdleIsReset'
  BY DEF IdleIsReset
<1>6. ASSUME NEW w \in Workers, WorkerStep(w) PROVE IdleIsReset'
  <2>1. ClaimArchiveMedia(w) => IdleIsReset'
    <3>1. ASSUME NEW q, q = [pc |-> "stat", attempt |-> row.attempt + 1, checkpoint |-> row.checkpoint,
                             bytes |-> row.bytes, finished |-> row.finished]
          PROVE  q.pc # "idle"
      BY <3>1
    <3> QED
      BY <1>2, <1>5, <3>1 DEF ClaimArchiveMedia
  <2>2. StatFinal(w) => \E pc \in PCs : pc # "idle" /\ To(w, pc)
    BY DEF StatFinal, PCs
  <2>3. Prepare(w) => \E pc \in PCs : pc # "idle" /\ To(w, pc)
    BY DEF Prepare, PCs
  <2>4. RenewArchiveMedia(w) => Leave(w) \/ \E pc \in PCs : pc # "idle" /\ To(w, pc)
    BY DEF RenewArchiveMedia, AfterRenew, PCs
  <2>5. CommitRefused(w) \/ FetchMedia(w) \/ DigestFails(w) => \E pc \in PCs : pc # "idle" /\ To(w, pc)
    BY DEF CommitRefused, FetchMedia, DigestFails, PCs
  <2>6. Write(w) => IdleIsReset'
    <3>1. SUFFICES ASSUME Write(w), ~To(w, "failed") PROVE IdleIsReset'
      BY <1>4 DEF PCs
    <3>2. job' = [job EXCEPT ![w].pc = "checkpoint", ![w].bytes = @ + 1]
      BY <3>1 DEF Write
    <3>3. PICK q : q = [job[w] EXCEPT !.pc = "checkpoint", !.bytes = @ + 1]
      OBVIOUS
    <3>4. q.pc # "idle" /\ job' = [job EXCEPT ![w] = q]
      BY <1>1, <3>2, <3>3 DEF Job
    <3> QED
      BY <1>2, <3>4
  <2>7. CheckpointArchiveMedia(w) => Leave(w) \/ \E pc \in PCs : pc # "idle" /\ To(w, pc)
    BY DEF CheckpointArchiveMedia, PCs
  <2>8. DropOld(w) => IdleIsReset'
    <3>1. SUFFICES ASSUME DropOld(w) PROVE IdleIsReset'
      OBVIOUS
    <3>2. PICK pc, done : /\ pc = (IF job[w].bytes = Chunks THEN "commit" ELSE "renew")
                          /\ done = (job[w].bytes = Chunks)
      OBVIOUS
    <3>3. job' = [job EXCEPT ![w].checkpoint = job[w].attempt, ![w].finished = done, ![w].pc = pc]
      BY <3>1, <3>2 DEF DropOld
    <3>4. PICK q : q = [job[w] EXCEPT !.checkpoint = job[w].attempt, !.finished = done, !.pc = pc]
      OBVIOUS
    <3>5. q.pc = pc /\ job' = [job EXCEPT ![w] = q]
      BY <1>1, <3>3, <3>4 DEF Job
    <3> QED
      BY <1>2, <3>2, <3>5
  <2>9. Link(w) \/ Unlink(w) => \E pc \in PCs : pc # "idle" /\ To(w, pc)
    BY DEF Link, Unlink, PCs
  <2>10. CompleteArchiveMedia(w) \/ finishArchiveMedia(w) =>
           Leave(w) \/ \E pc \in PCs : pc # "idle" /\ To(w, pc)
    BY DEF CompleteArchiveMedia, finishArchiveMedia, PCs
  <2>11. CleanupAttempts(w) => Leave(w)
    BY DEF CleanupAttempts
  <2> QED
    BY <1>3, <1>4, <1>6, <2>1, <2>2, <2>3, <2>4, <2>5, <2>6, <2>7, <2>8, <2>9, <2>10, <2>11 DEF WorkerStep
<1>7. ASSUME NEW w \in Workers, Crash(w) PROVE IdleIsReset'
  BY <1>3, <1>7 DEF Crash
<1>8. LeaseRunsOut \/ GcSnapshot \/ GcRemove \/ UNCHANGED vars => UNCHANGED job
  BY DEF LeaseRunsOut, GcSnapshot, GcRemove, vars
<1> QED
  BY <1>5, <1>6, <1>7, <1>8 DEF Next

LEMMA MediaSafe == Spec => [](MediaInv /\ IdleIsReset)
<1>1. Init => IdleIsReset
  BY DEF Init, IdleIsReset, NoJob
<1> QED
  BY <1>1, MediaInit, MediaNext, IdleStays, PTL DEF Spec

\* The type invariant: no file holds more than the media's chunks, and no worker
\* or checkpoint is ahead of the row's attempt.
THEOREM MediaTypeCorrect == Spec => []MediaTypeOK
<1>1. ASSUME MediaInv, IdleIsReset PROVE MediaTypeOK
  <2>1. File \subseteq Files
    <3>1. ASSUME NEW n \in 0 .. Chunks PROVE Prefix(n) \in Files
      <4>1. Prefix(n) \in [1 .. n -> 1 .. Chunks]
        BY <3>1, WholeIs DEF Prefix
      <4> QED
        BY <4>1 DEF Files
    <3>2. Absent \in Files
      BY DEF Files
    <3> QED
      BY <3>1, <3>2 DEF File
  <2>2. Whole \in Files /\ Absent \in Files
    BY <2>1, WholeIs DEF File
  <2>3. /\ row.status \in {"pending", "fetching", "failed"} \cup Closed
        /\ row.attempt \in 0 .. MaxFaults + 1 /\ row.bytes \in 0 .. Chunks
        /\ row.finished \in BOOLEAN /\ row.sha \in Files
    BY <1>1, <2>2, Typed DEF Row, Statuses
  <2>4. row.checkpoint \in 0 .. row.attempt
    BY <1>1, Typed, WholeIs DEF MediaInv, RowOK, Row
  <2>5. part \in [Attempts -> Files] /\ final \in Files /\ faults \in 0 .. MaxFaults
    BY <1>1, <2>1, <2>2, Typed
  <2>6. ASSUME NEW w \in Workers PROVE job[w].attempt \in 0 .. row.attempt /\ job[w].bytes \in 0 .. Chunks
    <3>1. job[w] \in Job /\ row \in Row
      BY <1>1, Typed
    <3>2. CASE job[w].pc # "idle"
      BY <1>1, <3>1, <3>2, OfWorker, WholeIs DEF JobOK, Job, Row
    <3>3. CASE job[w].pc = "idle"
      BY <1>1, <3>1, <3>3 DEF IdleIsReset, Job, Row
    <3> QED
      BY <3>2, <3>3
  <2> QED
    BY <2>3, <2>4, <2>5, <2>6 DEF MediaTypeOK
<1> QED
  BY <1>1, MediaSafe, PTL

\* A media object shown as ready is there whole and in order, whichever attempts,
\* crashes, take-overs and clean-ups contributed to it.
THEOREM ReadyWhole == Spec => []ReadyIsWhole
<1>1. MediaInv => ReadyIsWhole
  BY DEF MediaInv, RowOK, ReadyIsWhole
<1> QED
  BY <1>1, MediaSafe, PTL

\* The bytes a resumable row claims to have are on disk: neither the removal of
\* an older checkpoint nor the cleaner with its old copy of the row takes them.
THEOREM CheckpointsBacked == Spec => []CheckpointIsBacked
<1>1. ASSUME MediaInv PROVE CheckpointIsBacked
  <2>1. SUFFICES ASSUME row.status \notin Closed, row.bytes > 0, final # Whole
                 PROVE  /\ Backed(row.checkpoint, row.bytes)
                        /\ \A i \in 1 .. row.bytes : part[row.checkpoint][i] = i
    BY DEF CheckpointIsBacked
  <2>2. Holds(part[row.checkpoint], row.bytes)
    BY <1>1, <2>1 DEF MediaInv, CheckpointHeld
  <2>3. row.checkpoint \in Attempts /\ row.bytes \in 0 .. Chunks
    BY <1>1, <2>1, Typed, WholeIs DEF MediaInv, RowOK, Row, Attempts
  <2>4. Backed(row.checkpoint, row.bytes)
    BY <1>1, <2>2, <2>3, BackedIsHeld, Typed
  <2>5. PICK m \in row.bytes .. Chunks : part[row.checkpoint] = Prefix(m)
    BY <2>2 DEF Holds
  <2>6. m \in Nat /\ \A i \in 1 .. row.bytes : i \in 1 .. m
    BY <2>3, <2>5, WholeIs
  <2> QED
    BY <2>4, <2>5, <2>6, PrefixIs
<1> QED
  BY <1>1, MediaSafe, PTL

\* A download is given up as corrupt only when the bridge says so, a local error
\* stopped the preparation, or a worker published out of its lease.
THEOREM CorruptExplained == Spec => []CorruptIsExplained
<1>1. MediaInv => CorruptIsExplained
  BY DEF MediaInv, RowOK, CorruptIsExplained
<1> QED
  BY <1>1, MediaSafe, PTL

================================================================================
