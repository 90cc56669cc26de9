-------------------------- MODULE BatchDispatchProofs --------------------------
(***************************************************************************)
(* Proofs about the dispatch of group sends, for any number of batches,    *)
(* chunks, recipients and cron processes, whatever fails.                  *)
(***************************************************************************)
EXTENDS BatchDispatch, TLAPS

Operation == [status : {"absent", "pending", "cancelled"}, gen : 0 .. MaxGeneration]

Row == [status : Statuses, holder : Workers \cup {NoWorker}, lease : {"none", "live", "expired"},
        next : {"null", "due", "later"}, err : Codes, pid : BOOLEAN]

PCs == {"idle", "preclaim", "claim", "authorize", "submit", "payload", "send", "record",
        "reconcile", "fail", "poll", "wait", "retry", "topolling", "results"}

Work == [pc : PCs, d : Dispatches, status : Statuses, err : Codes, pid : BOOLEAN,
         left : SUBSET Targets]

Message == [calls : Nat, open : BOOLEAN, done : BOOLEAN, delivered : SUBSET Targets,
            listed : SUBSET Targets, told : SUBSET Targets]

TypeInv ==
    /\ op \in [Operations -> Operation]
    /\ \A o \in Operations : op[o].status # "absent" => op[o].gen > 0
    /\ row \in [Dispatches -> Row]
    /\ recorded \in [Dispatches -> SUBSET Targets]
    /\ binding \in 1 .. MaxGeneration
    /\ allowed \in BOOLEAN
    /\ work \in [Workers -> Work]
    /\ message \in [Dispatches -> Message]
    /\ faults \in 0 .. MaxFaults

\* The states of a row whose chunk was certainly not handed to WeCom.
Unsent == {"absent", "queued", "claimed", "cancelled"}
Unnamed == {"absent", "queued", "claimed", "submitting"}
Sending == {"payload", "send"}
Recording == {"topolling", "results"}

\* What a success rests on: the task is over, and the successes its holder was
\* told of, at least one, have their results.
Reached(m, c) == m.done /\ c # {} /\ m.told \subseteq c

\* A row, with what WeCom knows of its chunk and the results recorded: an id
\* comes with the state `submitted'; no row ends with a retryable error, so that
\* none starts over; a success is one, and nobody holds it; a result is of a
\* recipient who is listed and got the message.
RowOK(r, m, c) ==
    /\ r.status \in Unnamed => ~r.pid
    /\ r.status \in {"failed", "partial_failed"} => r.err # "retry"
    /\ r.status \in Unsent => m.calls = 0
    /\ m.calls <= 1
    /\ r.status = "succeeded" => r.holder = NoWorker /\ Reached(m, c)
    /\ c \subseteq m.listed \cap m.delivered
    /\ m.told \subseteq m.listed
    /\ ~m.done => m.listed = {} /\ m.delivered = {}

\* A worker, with the state of its dispatch: the one that is about to send has
\* marked the row, and nothing was sent; one that records results has been told
\* of recipients who got the message.
WorkerOK(q, status, m, c) ==
    /\ q.pc \in {"authorize", "poll"} /\ q.pid => q.status \in {"submitted", "polling"}
    /\ q.pc = "retry" => q.status \in {"submitted", "polling"}
    /\ q.pc \in Sending => status \notin Unsent /\ m.calls = 0
    /\ q.pc \in Recording =>
         m.done /\ q.left \subseteq m.listed \cap m.delivered /\ q.left \cup c # {}

RowsSound == \A d \in Dispatches : RowOK(row[d], message[d], recorded[d])

WorkersSound ==
    \A w \in Workers :
        WorkerOK(work[w], row[work[w].d].status, message[work[w].d], recorded[work[w].d])

SenderIsAlone ==
    \A v, w \in Workers :
        work[v].pc \in Sending /\ work[w].pc \in Sending /\ work[v].d = work[w].d => v = w

\* The holder of a lease forgets none of the successes it was last told of.
Counts(q, mine, m, c) == q.pc \in Recording /\ mine => m.told \subseteq q.left \cup c

HoldersCount ==
    \A w \in Workers :
        Counts(work[w], row[work[w].d].holder = w, message[work[w].d], recorded[work[w].d])

\* A batch that was not made, or was cancelled, has no chunk in another state.
ChunksFollow ==
    \A d \in Dispatches : \A s \in {"absent", "cancelled"} :
        op[OperationOf[d]].status = s => row[d].status = s

DispatchInv ==
    TypeInv /\ RowsSound /\ WorkersSound /\ HoldersCount /\ SenderIsAlone /\ ChunksFollow

--------------------------------------------------------------------------------

LEMMA Typed ==
  ASSUME DispatchInv
  PROVE  /\ op \in [Operations -> Operation]
         /\ \A o \in Operations : op[o].status # "absent" => op[o].gen > 0
         /\ row \in [Dispatches -> Row]
         /\ recorded \in [Dispatches -> SUBSET Targets]
         /\ binding \in 1 .. MaxGeneration
         /\ allowed \in BOOLEAN
         /\ work \in [Workers -> Work]
         /\ message \in [Dispatches -> Message]
         /\ faults \in 0 .. MaxFaults
  BY DEF DispatchInv, TypeInv

LEMMA IdleTyped == Idle \in Work /\ Idle.pc = "idle" /\ Idle.d = 1
  BY BatchAssumption DEF Idle, Work, PCs, Statuses, Codes, Dispatches

LEMMA DispatchInit == Init => DispatchInv
<1> SUFFICES ASSUME Init PROVE DispatchInv
  OBVIOUS
<1>0. /\ NewRow \in Row /\ NewRow.status = "absent" /\ ~NewRow.pid
      /\ NewMessage \in Message /\ NewMessage.calls = 0
      /\ NewMessage.listed = {} /\ NewMessage.delivered = {} /\ NewMessage.told = {}
      /\ \A d \in Dispatches : row[d] = NewRow /\ message[d] = NewMessage /\ recorded[d] = {}
      /\ \A d \in Dispatches : OperationOf[d] \in Operations
  <2>1. NewRow \in Row /\ NewRow.status = "absent" /\ ~NewRow.pid
    BY DEF NewRow, Row, Statuses, Codes
  <2>2. /\ NewMessage \in Message /\ NewMessage.calls = 0
        /\ NewMessage.listed = {} /\ NewMessage.delivered = {} /\ NewMessage.told = {}
    BY DEF Message, NewMessage
  <2>3. \A d \in Dispatches : row[d] = NewRow /\ message[d] = NewMessage /\ recorded[d] = {}
    BY DEF Init
  <2> QED
    BY <2>1, <2>2, <2>3, BatchAssumption
<1>1. TypeInv
  <2>1. row \in [Dispatches -> Row] /\ message \in [Dispatches -> Message]
    BY <1>0 DEF Init
  <2> QED
    BY <2>1, BatchAssumption, IdleTyped DEF Init, TypeInv, Operation
<1>2. RowsSound
  <2>1. ASSUME NEW d \in Dispatches PROVE RowOK(row[d], message[d], recorded[d])
    BY <1>0 DEF RowOK, Unsent
  <2> QED
    BY <2>1 DEF RowsSound
<1>3. WorkersSound
  BY IdleTyped DEF Init, WorkersSound, WorkerOK, Sending, Recording
<1>3a. HoldersCount
  BY IdleTyped DEF Init, HoldersCount, Counts, Recording
<1>4. SenderIsAlone
  BY IdleTyped DEF Init, SenderIsAlone, Sending
<1>5. ChunksFollow
  BY <1>0 DEF Init, ChunksFollow
<1> QED
  BY <1>1, <1>2, <1>3, <1>3a, <1>4, <1>5 DEF DispatchInv

\* A step of worker w that may write the row of d, its message and its results.
LEMMA StepKeeps ==
  ASSUME DispatchInv, NEW w \in Workers, NEW d \in Dispatches,
         NEW q \in Work, work' = [work EXCEPT ![w] = q],
         NEW s \in Row, row' = [row EXCEPT ![d] = s],
         NEW m \in Message, message' = [message EXCEPT ![d] = m],
         NEW c \in SUBSET Targets, recorded' = [recorded EXCEPT ![d] = c],
         UNCHANGED <<op, binding, allowed>>, faults' \in 0 .. MaxFaults,
         RowOK(s, m, c),
         s.status # row[d].status => op[OperationOf[d]].status = "pending",
         s.status \in Unsent => row[d].status \in Unsent,
         m.calls = message[d].calls \/ (work[w].pc = "send" /\ work[w].d = d),
         m.done = message[d].done, m.delivered = message[d].delivered, m.listed = message[d].listed,
         m.told = message[d].told \/ row[d].holder = w,
         recorded[d] \subseteq c,
         s.holder \in {row[d].holder, NoWorker, w},
         Counts(q, s.holder = w, m, c),
         q.pc = "idle" \/ (q.d = d /\ WorkerOK(q, s.status, m, c)),
         q.pc \in Sending => \/ work[w].pc \in Sending /\ work[w].d = d
                             \/ row[d].status \in Unsent
  PROVE  DispatchInv'
<1>1. /\ work'[w] = q /\ \A o \in Workers \ {w} : work'[o] = work[o]
      /\ row'[d] = s /\ \A e \in Dispatches \ {d} : row'[e] = row[e]
      /\ message'[d] = m /\ \A e \in Dispatches \ {d} : message'[e] = message[e]
      /\ recorded'[d] = c /\ \A e \in Dispatches \ {d} : recorded'[e] = recorded[e]
  BY Typed
<1>2. TypeInv'
  BY Typed DEF TypeInv
<1>3. RowsSound'
  BY <1>1 DEF DispatchInv, RowsSound
<1>4. ASSUME NEW o \in Workers
      PROVE  WorkerOK(work'[o], row'[work'[o].d].status, message'[work'[o].d],
                      recorded'[work'[o].d])
  <2>1. CASE o = w
    <3>1. CASE q.pc = "idle"
      BY <1>1, <2>1, <3>1 DEF WorkerOK, Sending, Recording
    <3>2. CASE q.d = d /\ WorkerOK(q, s.status, m, c)
      BY <1>1, <2>1, <3>2
    <3> QED
      BY <3>1, <3>2
  <2>2. CASE o # w
    <3>1. PICK v \in Work : v = work[o] /\ v = work'[o]
      BY <1>1, <2>2, Typed
    <3>2. WorkerOK(v, row[v.d].status, message[v.d], recorded[v.d])
      BY <3>1 DEF DispatchInv, WorkersSound
    <3>3. CASE v.d # d
      <4>1. v.d \in Dispatches \ {d}
        BY <3>3 DEF Work
      <4> QED
        BY <1>1, <3>1, <3>2, <4>1
    <3>4. CASE v.d = d
      <4>1. v.pc \in Sending => s.status \notin Unsent /\ m.calls = 0
        <5>1. v.pc \in Sending => row[d].status \notin Unsent /\ message[d].calls = 0
          BY <3>2, <3>4 DEF WorkerOK
        <5>2. v.pc \in Sending => ~(work[w].pc = "send" /\ work[w].d = d)
          BY <2>2, <3>1, <3>4 DEF DispatchInv, SenderIsAlone, Sending
        <5> QED
          BY <5>1, <5>2
      <4>2. v.pc \in Recording =>
              m.done /\ v.left \subseteq m.listed \cap m.delivered /\ v.left \cup c # {}
        BY <3>2, <3>4 DEF WorkerOK
      <4>3. WorkerOK(v, s.status, m, c)
        BY <3>2, <4>1, <4>2 DEF WorkerOK
      <4> QED
        BY <1>1, <3>1, <3>4, <4>3
    <3> QED
      BY <3>3, <3>4
  <2> QED
    BY <2>1, <2>2
<1>5. WorkersSound'
  BY <1>4 DEF WorkersSound
<1>5a. ASSUME NEW o \in Workers
       PROVE  Counts(work'[o], row'[work'[o].d].holder = o, message'[work'[o].d],
                     recorded'[work'[o].d])
  <2>1. CASE o = w
    <3>1. CASE q.pc \in Recording
      <4>1. q.d = d
        BY <3>1 DEF Recording
      <4> QED
        BY <1>1, <2>1, <4>1
    <3>2. CASE q.pc \notin Recording
      BY <1>1, <2>1, <3>2 DEF Counts
    <3> QED
      BY <3>1, <3>2
  <2>2. CASE o # w
    <3>1. PICK v \in Work : v = work[o] /\ v = work'[o]
      BY <1>1, <2>2, Typed
    <3>2. Counts(v, row[v.d].holder = o, message[v.d], recorded[v.d])
      BY <3>1 DEF DispatchInv, HoldersCount
    <3>3. CASE v.d # d
      <4>1. v.d \in Dispatches \ {d}
        BY <3>3 DEF Work
      <4> QED
        BY <1>1, <3>1, <3>2, <4>1
    <3>4. CASE v.d = d
      <4>1. s.holder = o => row[d].holder = o /\ m.told = message[d].told
        BY <2>2, BatchAssumption
      <4>2. Counts(v, s.holder = o, m, c)
        BY <3>2, <3>4, <4>1 DEF Counts
      <4> QED
        BY <1>1, <3>1, <3>4, <4>2
    <3> QED
      BY <3>3, <3>4
  <2> QED
    BY <2>1, <2>2
<1>5b. HoldersCount'
  BY <1>5a DEF HoldersCount
<1>6. SenderIsAlone'
  <2>1. ASSUME NEW v \in Workers \ {w}, work[v].pc \in Sending, q.pc \in Sending
        PROVE  work[v].d # q.d
    <3>1. q.d = d
      BY <2>1 DEF Sending
    <3>2. work[v].d = d => row[d].status \notin Unsent
      BY <2>1 DEF DispatchInv, WorkersSound, WorkerOK
    <3>3. work[w].pc \in Sending /\ work[w].d = d => work[v].d # d
      BY <2>1 DEF DispatchInv, SenderIsAlone
    <3> QED
      BY <2>1, <3>1, <3>2, <3>3
  <2> QED
    BY <1>1, <2>1 DEF DispatchInv, SenderIsAlone
<1>7. ChunksFollow'
  BY <1>1 DEF DispatchInv, ChunksFollow
<1> QED
  BY <1>2, <1>3, <1>5, <1>5b, <1>6, <1>7 DEF DispatchInv

\* A step of worker w that writes the row s of d and where it is, q.
RowStep(w, d, q, s) ==
    /\ work' = [work EXCEPT ![w] = q]
    /\ row' = [row EXCEPT ![d] = s]
    /\ UNCHANGED <<op, recorded, binding, allowed, message>> /\ faults' \in 0 .. MaxFaults
    /\ RowOK(s, message[d], recorded[d])
    /\ s.status # row[d].status => op[OperationOf[d]].status = "pending"
    /\ s.status \in Unsent => row[d].status \in Unsent
    /\ q.pc = "idle" \/ (q.d = d /\ WorkerOK(q, s.status, message[d], recorded[d]))
    /\ q.pc \in Sending => \/ work[w].pc \in Sending /\ work[w].d = d
                           \/ row[d].status \in Unsent
    /\ s.holder \in {row[d].holder, NoWorker, w}
    /\ Counts(q, s.holder = w, message[d], recorded[d])

LEMMA RowKeeps ==
  ASSUME DispatchInv, NEW w \in Workers, NEW d \in Dispatches, NEW q \in Work, NEW s \in Row,
         RowStep(w, d, q, s)
  PROVE  DispatchInv'
<1>1. PICK m \in Message, c \in SUBSET Targets : m = message[d] /\ c = recorded[d]
  BY Typed
<1>2. message' = [message EXCEPT ![d] = m] /\ recorded' = [recorded EXCEPT ![d] = c]
  BY <1>1, Typed DEF RowStep
<1> QED
  BY <1>1, <1>2, StepKeeps DEF RowStep

\* A step of worker w that remembers an answer about d, m, and where it is, q.
AnswerStep(w, d, q, m) ==
    /\ work' = [work EXCEPT ![w] = q]
    /\ message' = [message EXCEPT ![d] = m]
    /\ UNCHANGED <<op, row, recorded, binding, allowed>> /\ faults' \in 0 .. MaxFaults
    /\ RowOK(row[d], m, recorded[d])
    /\ m.calls = message[d].calls /\ m.done = message[d].done
    /\ m.delivered = message[d].delivered /\ m.listed = message[d].listed
    /\ m.told = message[d].told \/ row[d].holder = w
    /\ q.d = d /\ q.pc \notin Sending
    /\ WorkerOK(q, row[d].status, m, recorded[d])
    /\ Counts(q, row[d].holder = w, m, recorded[d])

LEMMA AnswerStepKeeps ==
  ASSUME DispatchInv, NEW w \in Workers, NEW d \in Dispatches, NEW q \in Work, NEW m \in Message,
         AnswerStep(w, d, q, m)
  PROVE  DispatchInv'
<1>1. PICK s \in Row, c \in SUBSET Targets : s = row[d] /\ c = recorded[d]
  BY Typed
<1>2. row' = [row EXCEPT ![d] = s] /\ recorded' = [recorded EXCEPT ![d] = c]
  BY <1>1, Typed DEF AnswerStep
<1>3. Counts(q, s.holder = w, m, c)
  BY <1>1 DEF AnswerStep, Counts
<1>4. /\ s.status # row[d].status => op[OperationOf[d]].status = "pending"
      /\ s.status \in Unsent => row[d].status \in Unsent
      /\ recorded[d] \subseteq c
      /\ s.holder \in {row[d].holder, NoWorker, w}
  BY <1>1
<1>5. /\ q.pc = "idle" \/ (q.d = d /\ WorkerOK(q, s.status, m, c))
      /\ q.pc \in Sending => \/ work[w].pc \in Sending /\ work[w].d = d
                             \/ row[d].status \in Unsent
      /\ RowOK(s, m, c)
  BY <1>1 DEF AnswerStep
<1>6. /\ m.calls = message[d].calls \/ (work[w].pc = "send" /\ work[w].d = d)
      /\ m.done = message[d].done /\ m.delivered = message[d].delivered
      /\ m.listed = message[d].listed
      /\ m.told = message[d].told \/ row[d].holder = w
  BY DEF AnswerStep
<1>7. /\ work' = [work EXCEPT ![w] = q] /\ message' = [message EXCEPT ![d] = m]
      /\ UNCHANGED <<op, binding, allowed>> /\ faults' \in 0 .. MaxFaults
  BY DEF AnswerStep
<1> QED
  BY <1>2, <1>3, <1>4, <1>5, <1>6, <1>7, StepKeeps, Zenon

\* A step that writes where a worker is and nothing else.
LEMMA WorkKeeps ==
  ASSUME DispatchInv, NEW w \in Workers, NEW q \in Work, work' = [work EXCEPT ![w] = q],
         UNCHANGED <<op, row, recorded, binding, allowed, message>>, faults' \in 0 .. MaxFaults,
         \/ q.pc = "idle"
         \/ WorkerOK(q, row[q.d].status, message[q.d], recorded[q.d]),
         q.pc \in Sending => work[w].pc \in Sending /\ work[w].d = q.d,
         q.pc \notin Recording
  PROVE  DispatchInv'
<1>1. PICK d \in Dispatches : d = q.d
  BY DEF Work
<1>2. PICK s \in Row : s = row[d]
  BY Typed
<1>3. row' = [row EXCEPT ![d] = s]
  BY <1>2, Typed
<1>4. RowOK(s, message[d], recorded[d])
  BY <1>2 DEF DispatchInv, RowsSound
<1>5. q.pc = "idle" \/ (q.d = d /\ WorkerOK(q, s.status, message[d], recorded[d]))
  BY <1>1, <1>2
<1>6. q.pc \in Sending => work[w].pc \in Sending /\ work[w].d = d
  BY <1>1
<1>6a. Counts(q, s.holder = w, message[d], recorded[d])
  BY DEF Counts
<1>7. RowStep(w, d, q, s)
  BY <1>2, <1>3, <1>4, <1>5, <1>6, <1>6a DEF RowStep
<1> QED
  BY <1>7, RowKeeps

\* The requests, the clock and the surroundings write rows and batches alone.
LEMMA RowsKeep ==
  ASSUME DispatchInv, UNCHANGED <<work, message, recorded>>,
         op' \in [Operations -> Operation],
         \A o \in Operations : op'[o].status # "absent" => op'[o].gen > 0,
         row' \in [Dispatches -> Row],
         binding' \in 1 .. MaxGeneration, allowed' \in BOOLEAN, faults' \in 0 .. MaxFaults,
         \A d \in Dispatches : /\ RowOK(row'[d], message[d], recorded[d])
                               /\ row'[d].status \in Unsent => row[d].status \in Unsent
                               /\ row'[d].holder \in {row[d].holder, NoWorker},
         ChunksFollow'
  PROVE  DispatchInv'
<1>1. TypeInv'
  BY Typed DEF TypeInv
<1>2. RowsSound'
  BY DEF RowsSound
<1>3. ASSUME NEW o \in Workers
      PROVE  WorkerOK(work[o], row'[work[o].d].status, message[work[o].d], recorded[work[o].d])
  <2>1. PICK e \in Dispatches : e = work[o].d
    BY Typed DEF Work
  <2>2. WorkerOK(work[o], row[e].status, message[e], recorded[e])
    BY <2>1 DEF DispatchInv, WorkersSound
  <2>3. row'[e].status \in Unsent => row[e].status \in Unsent
    OBVIOUS
  <2>4. WorkerOK(work[o], row'[e].status, message[e], recorded[e])
    BY <2>2, <2>3 DEF WorkerOK
  <2> QED
    BY <2>1, <2>4
<1>4. WorkersSound'
  BY <1>3 DEF WorkersSound
<1>4a. HoldersCount'
  <2>1. ASSUME NEW o \in Workers
        PROVE  Counts(work[o], row'[work[o].d].holder = o, message[work[o].d],
                      recorded[work[o].d])
    <3>1. PICK e \in Dispatches : e = work[o].d
      BY Typed DEF Work
    <3>2. row'[e].holder = o => row[e].holder = o
      BY BatchAssumption
    <3> QED
      BY <3>1, <3>2 DEF DispatchInv, HoldersCount, Counts
  <2> QED
    BY <2>1 DEF HoldersCount
<1>5. SenderIsAlone'
  BY DEF DispatchInv, SenderIsAlone
<1> QED
  BY <1>1, <1>2, <1>4, <1>4a, <1>5 DEF DispatchInv
--------------------------------------------------------------------------------
(* Where a worker goes.                                                          *)

\* Places of which WorkerOK asks nothing.
Quiet == {"idle", "preclaim", "claim", "submit", "record", "reconcile", "fail", "wait"}

LEMMA GotoIs ==
  ASSUME DispatchInv, NEW w \in Workers, NEW pc \in PCs, Goto(w, pc)
  PROVE  \E q \in Work : /\ work' = [work EXCEPT ![w] = q] /\ q.pc = pc /\ q.d = work[w].d
                         /\ q.status = work[w].status /\ q.err = work[w].err
                         /\ q.pid = work[w].pid /\ q.left = work[w].left
<1>1. work[w] \in Work
  BY Typed
<1>2. PICK q \in Work : q = [work[w] EXCEPT !.pc = pc]
  BY <1>1 DEF Work
<1>3. /\ q.pc = pc /\ q.d = work[w].d /\ q.status = work[w].status /\ q.err = work[w].err
      /\ q.pid = work[w].pid /\ q.left = work[w].left
  BY <1>1, <1>2 DEF Work
<1>4. work' = [work EXCEPT ![w] = q]
  BY <1>2, Typed DEF Goto
<1> QED
  BY <1>3, <1>4

LEMMA QuietKeeps ==
  ASSUME DispatchInv, NEW w \in Workers,
         UNCHANGED <<op, row, recorded, binding, allowed, message>>, faults' \in 0 .. MaxFaults,
         Stop(w) \/ \E pc \in Quiet : Goto(w, pc)
  PROVE  DispatchInv'
<1>1. PICK q \in Work : work' = [work EXCEPT ![w] = q] /\ q.pc \in Quiet
  <2>1. CASE Stop(w)
    BY <2>1, IdleTyped DEF Stop, Quiet
  <2>2. ASSUME NEW pc \in Quiet, Goto(w, pc)
        PROVE  \E q \in Work : work' = [work EXCEPT ![w] = q] /\ q.pc \in Quiet
    <3>1. pc \in PCs
      BY DEF Quiet, PCs
    <3> QED
      BY <2>2, <3>1, GotoIs
  <2> QED
    BY <2>1, <2>2
<1>2. /\ q.pc \notin Sending \cup Recording
      /\ WorkerOK(q, row[q.d].status, message[q.d], recorded[q.d])
  BY <1>1 DEF Quiet, WorkerOK, Sending, Recording
<1> QED
  BY <1>1, <1>2, WorkKeeps

LEMMA FaultTyped ==
  ASSUME DispatchInv, faults < MaxFaults, faults' = faults + 1
  PROVE  faults' \in 0 .. MaxFaults
  BY Typed, BatchAssumption

\* What is known of a worker and its dispatch.
LEMMA OfWorker ==
  ASSUME DispatchInv, NEW w \in Workers
  PROVE  /\ work[w] \in Work /\ work[w].d \in Dispatches
         /\ WorkerOK(work[w], row[work[w].d].status, message[work[w].d], recorded[work[w].d])
         /\ Counts(work[w], row[work[w].d].holder = w, message[work[w].d], recorded[work[w].d])
  BY Typed DEF DispatchInv, WorkersSound, HoldersCount, Work

LEMMA OfRow ==
  ASSUME DispatchInv, NEW d \in Dispatches
  PROVE  /\ row[d] \in Row /\ message[d] \in Message /\ recorded[d] \in SUBSET Targets
         /\ RowOK(row[d], message[d], recorded[d])
         /\ OperationOf[d] \in Operations
  BY Typed, BatchAssumption DEF DispatchInv, RowsSound

--------------------------------------------------------------------------------
(* Writes of the ledger.                                                         *)

LEMMA TransitionedIs ==
  ASSUME DispatchInv, NEW d \in Dispatches, NEW to \in Statuses, NEW pid \in BOOLEAN,
         NEW next \in {"null", "due", "later"}, NEW err \in Codes
  PROVE  \E s \in Row : /\ s = Transitioned(d, to, pid, next, err)
                        /\ s.status = to /\ s.err = err /\ (s.pid <=> row[d].pid \/ pid)
                        /\ s.holder = IF to \in Terminal THEN NoWorker ELSE row[d].holder
<1>1. PICK r \in Row : r = row[d]
  BY Typed
<1>2. PICK h \in Workers \cup {NoWorker}, l \in {"none", "live", "expired"}, p \in BOOLEAN :
         /\ h = IF to \in Terminal THEN NoWorker ELSE r.holder
         /\ l = IF to \in Terminal THEN "none" ELSE r.lease
         /\ p = (r.pid \/ pid)
  <2>1. r.holder \in Workers \cup {NoWorker} /\ r.lease \in {"none", "live", "expired"}
    BY DEF Row
  <2> QED
    BY <2>1
<1>3. PICK s \in Row : s = [r EXCEPT !.status = to, !.holder = h, !.lease = l, !.pid = p,
                                     !.next = next, !.err = err]
  BY DEF Row
<1>4. s.status = to /\ s.err = err /\ s.pid = p /\ s.holder = h
  BY <1>3 DEF Row
<1>5. s = Transitioned(d, to, pid, next, err)
  BY <1>1, <1>2, <1>3 DEF Transitioned, Row
<1> QED
  BY <1>1, <1>2, <1>4, <1>5

\* A transition of the row, after which the worker is at q.
TransitionStep(w, d, to, pid, next, err, q) ==
    /\ CanWrite(w, d, to)
    /\ row' = [row EXCEPT ![d] = Transitioned(d, to, pid, next, err)]
    /\ work' = [work EXCEPT ![w] = q]
    /\ UNCHANGED <<op, recorded, binding, allowed, message>> /\ faults' \in 0 .. MaxFaults
    /\ to = "submitting" => ~pid
    /\ to \in {"failed", "partial_failed"} => err # "retry"
    /\ to = "succeeded" => Reached(message[d], recorded[d])
    /\ q.pc = "idle" \/ (q.d = d /\ WorkerOK(q, to, message[d], recorded[d]))
    /\ q.pc \in Sending => row[d].status \in Unsent
    /\ Counts(q, row[d].holder = w, message[d], recorded[d])

LEMMA TransitionKeeps ==
  ASSUME DispatchInv, NEW w \in Workers, NEW d \in Dispatches,
         NEW to \in Statuses \ Unsent, NEW pid \in BOOLEAN,
         NEW next \in {"null", "due", "later"}, NEW err \in Codes, NEW q \in Work,
         TransitionStep(w, d, to, pid, next, err, q)
  PROVE  DispatchInv'
<1>1. PICK s \in Row : /\ s = Transitioned(d, to, pid, next, err)
                       /\ s.status = to /\ s.err = err /\ (s.pid <=> row[d].pid \/ pid)
                       /\ s.holder = IF to \in Terminal THEN NoWorker ELSE row[d].holder
  BY TransitionedIs
<1>2. op[OperationOf[d]].status = "pending" /\ CanTransition(row[d].status, to)
  BY DEF TransitionStep, CanWrite, Current
<1>3. to = "submitting" => row[d].status = "claimed"
  BY <1>2, OfRow DEF CanTransition, Terminal
<1>4. RowOK(s, message[d], recorded[d])
  <2>1. to = "submitting" => ~row[d].pid
    BY <1>3, OfRow DEF RowOK, Unnamed
  <2>2. s.status \in Unnamed => ~s.pid
    BY <1>1, <2>1 DEF Unsent, Unnamed, TransitionStep
  <2>3. s.status = "succeeded" => s.holder = NoWorker
    BY <1>1 DEF Terminal
  <2> QED
    BY <1>1, <2>1, <2>2, <2>3, OfRow DEF RowOK, TransitionStep
<1>5. row' = [row EXCEPT ![d] = s]
  BY <1>1 DEF TransitionStep
<1>6. s.status \notin Unsent
  BY <1>1
<1>7. q.pc = "idle" \/ (q.d = d /\ WorkerOK(q, s.status, message[d], recorded[d]))
  BY <1>1 DEF TransitionStep
<1>7a. s.holder \in {row[d].holder, NoWorker, w} /\ (s.holder = w => row[d].holder = w)
  BY <1>1, BatchAssumption
<1>7b. Counts(q, s.holder = w, message[d], recorded[d])
  BY <1>7a DEF TransitionStep, Counts
<1>8. RowStep(w, d, q, s)
  BY <1>2, <1>4, <1>5, <1>6, <1>7, <1>7a, <1>7b DEF RowStep, TransitionStep
<1> QED
  BY <1>8, RowKeeps
\* The worker is done after its transition.
LEMMA StopAfterTransition ==
  ASSUME DispatchInv, NEW w \in Workers, NEW d \in Dispatches,
         NEW to \in Statuses \ Unsent, NEW pid \in BOOLEAN,
         NEW next \in {"null", "due", "later"}, NEW err \in Codes,
         CanWrite(w, d, to), row' = [row EXCEPT ![d] = Transitioned(d, to, pid, next, err)],
         Stop(w), faults' = faults,
         UNCHANGED <<op, recorded, binding, allowed, message>>,
         to # "submitting",
         to \in {"failed", "partial_failed"} => err # "retry",
         to = "succeeded" => Reached(message[d], recorded[d])
  PROVE  DispatchInv'
<1>1. PICK q \in Work : work' = [work EXCEPT ![w] = q] /\ q.pc = "idle"
  BY IdleTyped DEF Stop
<1>2. TransitionStep(w, d, to, pid, next, err, q)
  BY <1>1, Typed DEF TransitionStep, Sending, Counts, Recording
<1> QED
  BY <1>2, TransitionKeeps

\* A call of the ledger: refused, or written.
LEMMA LedgerRefused ==
  ASSUME DispatchInv, NEW w \in Workers, row' = row,
         UNCHANGED <<op, recorded, binding, allowed, message>>,
         faults' = faults \/ (faults < MaxFaults /\ faults' = faults + 1),
         \/ Stop(w)
         \/ Goto(w, "reconcile")
  PROVE  DispatchInv'
<1>1. faults' \in 0 .. MaxFaults
  BY FaultTyped, Typed
<1>2. Stop(w) \/ \E pc \in Quiet : Goto(w, pc)
  BY DEF Quiet
<1> QED
  BY <1>1, <1>2, QuietKeeps

--------------------------------------------------------------------------------
(* The steps of a worker.                                                        *)

LEMMA PickKeeps ==
  ASSUME DispatchInv, NEW w \in Workers, NEW d \in Dispatches, Pick(w, d)
  PROVE  DispatchInv'
<1>1. PICK q \in Work : q = [Idle EXCEPT !.pc = "preclaim", !.d = d]
  BY IdleTyped DEF Work, PCs
<1>2. q.pc = "preclaim"
  BY <1>1, IdleTyped DEF Work
<1>3. /\ q.pc \notin Sending \cup Recording
      /\ WorkerOK(q, row[q.d].status, message[q.d], recorded[q.d])
  BY <1>2 DEF WorkerOK, Sending, Recording
<1>4. /\ work' = [work EXCEPT ![w] = q] /\ faults' \in 0 .. MaxFaults
      /\ UNCHANGED <<op, row, recorded, binding, allowed, message>>
  BY <1>1, Typed DEF Pick
<1> QED
  BY <1>3, <1>4, WorkKeeps

LEMMA PreclaimKeeps ==
  ASSUME DispatchInv, NEW w \in Workers, Preclaim(w)
  PROVE  DispatchInv'
<1>1. UNCHANGED <<op, row, recorded, binding, allowed, message, faults>>
  BY Zenon DEF Preclaim
<1>2. Stop(w) \/ \E pc \in Quiet : Goto(w, pc)
  BY DEF Preclaim, Quiet
<1>3. faults' \in 0 .. MaxFaults
  BY <1>1, Typed
<1> QED
  BY <1>1, <1>2, <1>3, QuietKeeps

\* The row that a claim returns: what was not handed to WeCom still is not, and
\* an id comes only with a state that is polled.
LEMMA ClaimedIs ==
  ASSUME DispatchInv, NEW w \in Workers, NEW d \in Dispatches, DueRow(row[d])
  PROVE  \E s \in Row :
            /\ s = Claimed(w, d)
            /\ RowOK(s, message[d], recorded[d])
            /\ s.status \in Unsent => row[d].status \in Unsent
            /\ s.pid => s.status \in {"submitted", "polling"}
            /\ s.holder = w
<1>1. PICK r \in Row : r = row[d] /\ RowOK(r, message[d], recorded[d]) /\ DueRow(r)
  BY OfRow
<1>2. r.status \in {"queued", "claimed", "submitting", "submitted", "polling"}
  BY <1>1 DEF DueRow, RowOK, IsRetryable
<1>3. PICK st \in {"claimed", "submitting", "submitted", "polling"} :
         /\ st = IF r.status \in {"queued", "failed", "partial_failed"} THEN "claimed" ELSE r.status
         /\ st = "claimed" => r.status \in {"queued", "claimed"}
         /\ st # "claimed" => st = r.status
  BY <1>2
<1>4. st \in Statuses
  BY DEF Statuses
<1>5. PICK s \in Row : s = [r EXCEPT !.status = st, !.holder = w, !.lease = "live"]
  BY <1>4 DEF Row
<1>6. s.status = st /\ s.err = r.err /\ s.pid = r.pid /\ s.holder = w
  BY <1>5 DEF Row
<1>7. s = Claimed(w, d)
  BY <1>1, <1>3, <1>5 DEF Claimed, Row
<1>8. r.pid => st \in {"submitted", "polling"}
  BY <1>1, <1>3 DEF RowOK, Unnamed
<1>9. RowOK(s, message[d], recorded[d])
  BY <1>1, <1>3, <1>6, <1>8 DEF RowOK, Unsent, Unnamed
<1> QED
  BY <1>1, <1>3, <1>6, <1>7, <1>8, <1>9 DEF Unsent

LEMMA ClaimKeeps ==
  ASSUME DispatchInv, NEW w \in Workers, Claim(w)
  PROVE  DispatchInv'
<1>1. PICK d \in Dispatches : d = work[w].d
  BY OfWorker
<1>2. /\ UNCHANGED <<op, recorded, binding, allowed, message>>
      /\ \/ /\ DueRow(row[d]) /\ Current(d) /\ faults' = faults
            /\ row' = [row EXCEPT ![d] = Claimed(w, d)]
            /\ work' = [work EXCEPT ![w] = [@ EXCEPT !.pc = "authorize",
                          !.status = Claimed(w, d).status, !.err = Claimed(w, d).err,
                          !.pid = Claimed(w, d).pid]]
         \/ /\ row' = row /\ Stop(w)
            /\ faults' = faults \/ (faults < MaxFaults /\ faults' = faults + 1)
  BY <1>1, Zenon DEF Claim, Ledger, Stop
<1>3. CASE row' = row /\ Stop(w) /\ (faults' = faults \/ (faults < MaxFaults /\ faults' = faults + 1))
  BY <1>2, <1>3, LedgerRefused
<1>4. CASE /\ DueRow(row[d]) /\ Current(d) /\ faults' = faults
           /\ row' = [row EXCEPT ![d] = Claimed(w, d)]
           /\ work' = [work EXCEPT ![w] = [@ EXCEPT !.pc = "authorize",
                         !.status = Claimed(w, d).status, !.err = Claimed(w, d).err,
                         !.pid = Claimed(w, d).pid]]
  <2>1. PICK s \in Row : /\ s = Claimed(w, d)
                         /\ RowOK(s, message[d], recorded[d])
                         /\ s.status \in Unsent => row[d].status \in Unsent
                         /\ s.pid => s.status \in {"submitted", "polling"}
                         /\ s.holder = w
    BY <1>4, ClaimedIs
  <2>2. PICK q \in Work : q = [work[w] EXCEPT !.pc = "authorize", !.status = s.status,
                                              !.err = s.err, !.pid = s.pid]
    <3>1. work[w] \in Work /\ "authorize" \in PCs
      BY OfWorker DEF PCs
    <3>2. s.status \in Statuses /\ s.err \in Codes /\ s.pid \in BOOLEAN
      BY DEF Row
    <3> QED
      BY <3>1, <3>2 DEF Work
  <2>3. q.pc = "authorize" /\ q.d = d /\ q.status = s.status /\ q.pid = s.pid
    BY <1>1, <2>2, OfWorker DEF Work
  <2>4. /\ WorkerOK(q, s.status, message[d], recorded[d]) /\ q.pc \notin Sending
        /\ Counts(q, s.holder = w, message[d], recorded[d])
    BY <2>1, <2>3 DEF WorkerOK, Sending, Recording, Counts
  <2>5. work' = [work EXCEPT ![w] = q]
    BY <1>4, <2>1, <2>2, Typed
  <2>6. row' = [row EXCEPT ![d] = s]
    BY <1>4, <2>1
  <2>7. op[OperationOf[d]].status = "pending"
    BY <1>4 DEF Current
  <2>8. RowStep(w, d, q, s)
    BY <1>2, <1>4, <2>1, <2>3, <2>4, <2>5, <2>6, <2>7, Typed DEF RowStep
  <2> QED
    BY <2>8, RowKeeps
<1> QED
  BY <1>2, <1>3, <1>4

LEMMA AuthorizeKeeps ==
  ASSUME DispatchInv, NEW w \in Workers, Authorize(w)
  PROVE  DispatchInv'
<1>1. UNCHANGED <<op, row, recorded, binding, allowed, message, faults>>
  BY Zenon DEF Authorize
<1>2. faults' \in 0 .. MaxFaults
  BY <1>1, Typed
<1>3. CASE Stop(w) \/ \E pc \in Quiet : Goto(w, pc)
  BY <1>1, <1>2, <1>3, QuietKeeps
<1>4. CASE Goto(w, "poll")
  <2>1. work[w].pc = "authorize" /\ "poll" \in PCs
    BY DEF Authorize, PCs
  <2>2. PICK q \in Work : /\ work' = [work EXCEPT ![w] = q] /\ q.pc = "poll"
                          /\ q.status = work[w].status /\ q.pid = work[w].pid
    BY <1>4, <2>1, GotoIs
  <2>3. /\ q.pc \notin Sending \cup Recording
        /\ WorkerOK(q, row[q.d].status, message[q.d], recorded[q.d])
    BY <2>1, <2>2, OfWorker DEF WorkerOK, Sending, Recording
  <2> QED
    BY <1>1, <1>2, <2>2, <2>3, WorkKeeps
<1> QED
  BY <1>3, <1>4 DEF Authorize, NextStep, Quiet
LEMMA MarkedIs ==
  ASSUME DispatchInv, NEW d \in Dispatches
  PROVE  \E s \in Row : /\ s = Transitioned(d, "submitting", FALSE, "null", "")
                        /\ s.status = "submitting" /\ (s.pid => row[d].pid)
                        /\ s.holder = row[d].holder
<1>1. PICK to \in Statuses, next \in {"null", "due", "later"}, err \in Codes :
         to = "submitting" /\ next = "null" /\ err = "" /\ to \notin Terminal
  BY DEF Statuses, Codes, Terminal
<1>2. FALSE \in BOOLEAN
  OBVIOUS
<1>3. PICK no \in BOOLEAN : /\ Transitioned(d, to, no, next, err) = Transitioned(d, to, FALSE, next, err)
                            /\ ~no
  BY <1>2, Zenon
<1>4. PICK s \in Row : /\ s = Transitioned(d, to, no, next, err)
                       /\ s.status = to /\ s.err = err /\ (s.pid <=> row[d].pid \/ no)
                       /\ s.holder = IF to \in Terminal THEN NoWorker ELSE row[d].holder
  BY TransitionedIs
<1> QED
  BY <1>1, <1>3, <1>4, Zenon

\* The row says submitting: its chunk was not handed to WeCom before.
LEMMA MarkedKeeps ==
  ASSUME DispatchInv, NEW w \in Workers, NEW d \in Dispatches, d = work[w].d,
         CanWrite(w, d, "submitting"),
         NEW s \in Row, row' = [row EXCEPT ![d] = s],
         s.status = "submitting", s.pid => row[d].pid, s.holder = row[d].holder,
         Goto(w, "payload"), faults' = faults,
         UNCHANGED <<op, recorded, binding, allowed, message>>
  PROVE  DispatchInv'
<1>1. "payload" \in PCs
  BY DEF PCs
<1>2. PICK q \in Work : work' = [work EXCEPT ![w] = q] /\ q.pc = "payload" /\ q.d = d
  BY <1>1, GotoIs
<1>3. row[d].status = "claimed" /\ op[OperationOf[d]].status = "pending"
  BY OfRow DEF CanWrite, CanTransition, Terminal, Current
<1>4. row[d].status \in Unsent /\ message[d].calls = 0 /\ ~row[d].pid
  BY <1>3, OfRow DEF RowOK, Unsent, Unnamed
<1>5. WorkerOK(q, s.status, message[d], recorded[d])
  BY <1>2, <1>4 DEF WorkerOK, Unsent, Recording
<1>5a. Counts(q, s.holder = w, message[d], recorded[d])
  BY <1>2 DEF Counts, Recording
<1>6. RowOK(s, message[d], recorded[d])
  BY <1>4, OfRow DEF RowOK, Unsent
<1>7. RowStep(w, d, q, s)
  BY <1>2, <1>3, <1>4, <1>5, <1>5a, <1>6, Typed DEF RowStep
<1> QED
  BY <1>7, RowKeeps

LEMMA StartSubmitKeeps ==
  ASSUME DispatchInv, NEW w \in Workers, StartSubmit(w)
  PROVE  DispatchInv'
<1>1. PICK d \in Dispatches : d = work[w].d
  BY OfWorker
<1>2. /\ UNCHANGED <<op, recorded, binding, allowed, message>>
      /\ \/ /\ CanWrite(w, d, "submitting") /\ faults' = faults
            /\ row' = [row EXCEPT ![d] = Transitioned(d, "submitting", FALSE, "null", "")]
            /\ Goto(w, "payload")
         \/ /\ row' = row /\ Stop(w)
            /\ faults' = faults \/ (faults < MaxFaults /\ faults' = faults + 1)
  BY <1>1, Zenon DEF StartSubmit, Ledger, Stop, Goto
<1>3. UNCHANGED <<op, recorded, binding, allowed, message>> /\ FALSE \in BOOLEAN
  BY <1>2, Zenon
<1>4. CASE /\ row' = row /\ Stop(w)
           /\ faults' = faults \/ (faults < MaxFaults /\ faults' = faults + 1)
  BY <1>3, <1>4, LedgerRefused
<1>5. CASE /\ CanWrite(w, d, "submitting") /\ faults' = faults
           /\ row' = [row EXCEPT ![d] = Transitioned(d, "submitting", FALSE, "null", "")]
           /\ Goto(w, "payload")
  <2>1. PICK s \in Row : /\ s = Transitioned(d, "submitting", FALSE, "null", "")
                         /\ s.status = "submitting" /\ (s.pid => row[d].pid)
                         /\ s.holder = row[d].holder
    BY MarkedIs, Zenon
  <2>2. row' = [row EXCEPT ![d] = s]
    BY <1>5, <2>1, Zenon
  <2> QED
    BY <1>1, <1>3, <1>5, <2>1, <2>2, MarkedKeeps, Zenon
<1> QED
  BY <1>2, <1>4, <1>5, Zenon

LEMMA PayloadKeeps ==
  ASSUME DispatchInv, NEW w \in Workers, Payload(w)
  PROVE  DispatchInv'
<1>1. /\ UNCHANGED <<op, row, recorded, binding, allowed, message, faults>>
      /\ work[w].pc = "payload"
  BY Zenon DEF Payload
<1>2. faults' \in 0 .. MaxFaults
  BY <1>1, Typed
<1>3. PICK pc \in {"send", "fail"} : Goto(w, pc)
  BY DEF Payload
<1>4. PICK q \in Work : work' = [work EXCEPT ![w] = q] /\ q.pc = pc /\ q.d = work[w].d
  BY <1>3, GotoIs DEF PCs
<1>5. /\ WorkerOK(q, row[q.d].status, message[q.d], recorded[q.d])
      /\ work[w].pc \in Sending /\ q.pc \notin Recording
  BY <1>1, <1>4, OfWorker DEF WorkerOK, Sending, Recording
<1> QED
  BY <1>1, <1>2, <1>4, <1>5, WorkKeeps

\* The call to WeCom.
LEMMA CallKeeps ==
  ASSUME DispatchInv, NEW w \in Workers, work[w].pc = "send", NEW d \in Dispatches, d = work[w].d,
         NEW q \in Work, work' = [work EXCEPT ![w] = q], q.pc \in {"record", "reconcile", "fail"},
         q.d = d,
         Accept(d) \/ Refuse(d),
         UNCHANGED <<op, row, recorded, binding, allowed>>, faults' \in 0 .. MaxFaults
  PROVE  DispatchInv'
<1>1. PICK old \in Message : old = message[d]
  BY Typed
<1>2. old.calls = 0 /\ row[d].status \notin Unsent
  BY <1>1, OfWorker DEF WorkerOK, Sending
<1>3. PICK m \in Message : /\ message' = [message EXCEPT ![d] = m]
                           /\ m.calls = 1 /\ m.done = old.done /\ m.delivered = old.delivered
                           /\ m.listed = old.listed /\ m.told = old.told
  <2>1. PICK n \in Nat : n = old.calls + 1 /\ n = 1
    BY <1>2
  <2>2. CASE Accept(d)
    <3>1. PICK m \in Message : m = [old EXCEPT !.calls = n, !.open = TRUE]
      BY DEF Message
    <3>2. /\ m.calls = n /\ m.done = old.done /\ m.delivered = old.delivered
          /\ m.listed = old.listed /\ m.told = old.told
      BY <3>1 DEF Message
    <3>3. message' = [message EXCEPT ![d] = m]
      BY <1>1, <2>1, <2>2, <3>1, Typed DEF Accept
    <3> QED
      BY <2>1, <3>2, <3>3
  <2>3. CASE Refuse(d)
    <3>1. PICK m \in Message : m = [old EXCEPT !.calls = n]
      BY DEF Message
    <3>2. /\ m.calls = n /\ m.done = old.done /\ m.delivered = old.delivered
          /\ m.listed = old.listed /\ m.told = old.told
      BY <3>1 DEF Message
    <3>3. message' = [message EXCEPT ![d] = m]
      BY <1>1, <2>1, <2>3, <3>1, Typed DEF Refuse
    <3> QED
      BY <2>1, <3>2, <3>3
  <2> QED
    BY <2>2, <2>3
<1>4. PICK s \in Row, c \in SUBSET Targets : s = row[d] /\ c = recorded[d]
  BY Typed
<1>5. row' = [row EXCEPT ![d] = s] /\ recorded' = [recorded EXCEPT ![d] = c]
  BY <1>4, Typed
<1>6. RowOK(s, m, c)
  <2>1. RowOK(s, old, c) /\ s.status \notin Unsent
    BY <1>1, <1>2, <1>4, OfRow
  <2>2. s.status = "succeeded" => s.holder = NoWorker /\ Reached(m, c)
    BY <1>3, <2>1 DEF RowOK, Reached
  <2> QED
    BY <1>3, <2>1, <2>2 DEF RowOK
<1>7. /\ q.pc \notin Sending /\ WorkerOK(q, s.status, m, c)
      /\ Counts(q, s.holder = w, m, c)
  BY DEF WorkerOK, Sending, Recording, Counts
<1>8. /\ s.status # row[d].status => op[OperationOf[d]].status = "pending"
      /\ s.status \in Unsent => row[d].status \in Unsent
      /\ recorded[d] \subseteq c /\ s.holder \in {row[d].holder, NoWorker, w}
  BY <1>4
<1>9. /\ m.done = message[d].done /\ m.delivered = message[d].delivered
      /\ m.listed = message[d].listed /\ m.told = message[d].told
  BY <1>1, <1>3
<1>10. UNCHANGED <<op, binding, allowed>>
  OBVIOUS
<1> QED
  BY <1>3, <1>5, <1>6, <1>7, <1>8, <1>9, <1>10, StepKeeps, Zenon

LEMMA SendKeeps ==
  ASSUME DispatchInv, NEW w \in Workers, Send(w)
  PROVE  DispatchInv'
<1>1. PICK d \in Dispatches : d = work[w].d
  BY OfWorker
<1>2. /\ UNCHANGED <<op, row, recorded, binding, allowed>> /\ work[w].pc = "send"
      /\ \/ /\ Accept(d) /\ UNCHANGED faults
            /\ work' = [work EXCEPT ![w].pc = "record", ![w].pid = TRUE]
         \/ /\ faults < MaxFaults /\ faults' = faults + 1
            /\ Accept(d) \/ Refuse(d)
            /\ \E pc \in {"reconcile", "fail"} : Goto(w, pc)
  BY <1>1, Zenon DEF Send
<1>3. faults' \in 0 .. MaxFaults /\ (Accept(d) \/ Refuse(d))
  BY <1>2, FaultTyped, Typed
<1>4. PICK q \in Work : /\ work' = [work EXCEPT ![w] = q] /\ q.pc \in {"record", "reconcile", "fail"}
                        /\ q.d = d
  <2>1. CASE work' = [work EXCEPT ![w].pc = "record", ![w].pid = TRUE]
    <3>0. PICK r \in Work : r = work[w] /\ r.d = d
      BY <1>1, OfWorker
    <3>1. PICK q \in Work : q = [work[w] EXCEPT !.pc = "record", !.pid = TRUE]
      <4>1. PICK q \in Work : q = [r EXCEPT !.pc = "record", !.pid = TRUE]
        BY DEF Work, PCs
      <4> QED
        BY <3>0, <4>1
    <3>2. q.pc = "record" /\ q.d = d
      BY <3>0, <3>1 DEF Work
    <3>3. work' = [work EXCEPT ![w] = q]
      BY <2>1, <3>1, Typed
    <3> QED
      BY <3>2, <3>3
  <2>2. ASSUME NEW pc \in {"reconcile", "fail"}, Goto(w, pc)
        PROVE  \E q \in Work : /\ work' = [work EXCEPT ![w] = q] /\ q.d = d
                               /\ q.pc \in {"record", "reconcile", "fail"}
    <3>1. pc \in PCs
      BY DEF PCs
    <3> QED
      BY <1>1, <2>2, <3>1, GotoIs
  <2> QED
    BY <1>2, <2>1, <2>2
<1> QED
  BY <1>1, <1>2, <1>3, <1>4, CallKeeps

LEMMA RecordKeeps ==
  ASSUME DispatchInv, NEW w \in Workers, Record(w)
  PROVE  DispatchInv'
<1>1. PICK d \in Dispatches : d = work[w].d
  BY OfWorker
<1>2. /\ UNCHANGED <<op, recorded, binding, allowed, message>>
      /\ \/ /\ CanWrite(w, d, "submitted") /\ Stop(w) /\ faults' = faults
            /\ row' = [row EXCEPT ![d] = Transitioned(d, "submitted", TRUE, "null", "")]
         \/ /\ row' = row /\ Goto(w, "reconcile")
            /\ faults' = faults \/ (faults < MaxFaults /\ faults' = faults + 1)
  BY <1>1, Zenon DEF Record, Ledger, Stop, Goto
<1>3. "submitted" \in Statuses \ Unsent /\ "" \in Codes
  BY DEF Statuses, Unsent, Codes
<1>4. UNCHANGED <<op, recorded, binding, allowed, message>> /\ TRUE \in BOOLEAN
  BY <1>2, Zenon
<1>5. CASE /\ row' = row /\ Goto(w, "reconcile")
           /\ faults' = faults \/ (faults < MaxFaults /\ faults' = faults + 1)
  BY <1>4, <1>5, LedgerRefused
<1>6. CASE /\ CanWrite(w, d, "submitted") /\ Stop(w) /\ faults' = faults
           /\ row' = [row EXCEPT ![d] = Transitioned(d, "submitted", TRUE, "null", "")]
  <2>1. PICK s \in Statuses \ Unsent, e \in Codes, n \in {"null", "due", "later"}, b \in BOOLEAN :
           /\ CanWrite(w, d, s) /\ s # "submitting" /\ s \notin {"failed", "partial_failed"}
           /\ s # "succeeded" /\ row' = [row EXCEPT ![d] = Transitioned(d, s, b, n, e)]
    <3>1. "submitted" \notin {"submitting", "failed", "partial_failed", "succeeded"}
          /\ "null" \in {"null", "due", "later"}
      OBVIOUS
    <3> QED
      BY <1>3, <1>4, <1>6, <3>1, Zenon
  <2> QED
    BY <1>4, <1>6, <2>1, StopAfterTransition, Zenon
<1> QED
  BY <1>2, <1>5, <1>6, Zenon

LEMMA FailKeeps ==
  ASSUME DispatchInv, NEW w \in Workers, Fail(w)
  PROVE  DispatchInv'
<1>1. PICK d \in Dispatches : d = work[w].d
  BY OfWorker
<1>2. /\ UNCHANGED <<op, recorded, binding, allowed, message>>
      /\ \/ /\ CanWrite(w, d, "failed") /\ Stop(w) /\ faults' = faults
            /\ row' = [row EXCEPT ![d] = Transitioned(d, "failed", FALSE, "null", "final")]
         \/ /\ row' = row /\ Stop(w)
            /\ faults' = faults \/ (faults < MaxFaults /\ faults' = faults + 1)
  BY <1>1, Zenon DEF Fail, Ledger, Stop
<1>3. "failed" \in Statuses \ Unsent /\ "final" \in Codes
  BY DEF Statuses, Terminal, Unsent, Codes
<1> QED
  BY <1>2, <1>3, LedgerRefused, StopAfterTransition

LEMMA WaitKeeps ==
  ASSUME DispatchInv, NEW w \in Workers, Wait(w)
  PROVE  DispatchInv'
<1>1. PICK d \in Dispatches : d = work[w].d
  BY OfWorker
<1>2. /\ UNCHANGED <<op, recorded, binding, allowed, message>>
      /\ \/ /\ CanWrite(w, d, "polling") /\ Stop(w) /\ faults' = faults
            /\ row' = [row EXCEPT ![d] = Transitioned(d, "polling", TRUE, "later", "")]
         \/ /\ row' = row /\ Goto(w, "reconcile")
            /\ faults' = faults \/ (faults < MaxFaults /\ faults' = faults + 1)
  BY <1>1, Zenon DEF Wait, Ledger, Stop, Goto
<1>3. "polling" \in Statuses \ Unsent /\ "" \in Codes
  BY DEF Statuses, Unsent, Codes
<1>4. UNCHANGED <<op, recorded, binding, allowed, message>> /\ TRUE \in BOOLEAN
  BY <1>2, Zenon
<1>5. CASE /\ row' = row /\ Goto(w, "reconcile")
           /\ faults' = faults \/ (faults < MaxFaults /\ faults' = faults + 1)
  BY <1>4, <1>5, LedgerRefused
<1>6. CASE /\ CanWrite(w, d, "polling") /\ Stop(w) /\ faults' = faults
           /\ row' = [row EXCEPT ![d] = Transitioned(d, "polling", TRUE, "later", "")]
  <2>1. PICK s \in Statuses \ Unsent, e \in Codes, n \in {"null", "due", "later"}, b \in BOOLEAN :
           /\ CanWrite(w, d, s) /\ s # "submitting" /\ s \notin {"failed", "partial_failed"}
           /\ s # "succeeded" /\ row' = [row EXCEPT ![d] = Transitioned(d, s, b, n, e)]
    <3>1. "polling" \notin {"submitting", "failed", "partial_failed", "succeeded"}
          /\ "later" \in {"null", "due", "later"}
      OBVIOUS
    <3> QED
      BY <1>3, <1>4, <1>6, <3>1, Zenon
  <2> QED
    BY <1>4, <1>6, <2>1, StopAfterTransition, Zenon
<1> QED
  BY <1>2, <1>5, <1>6, Zenon

\* A poll that is to be repeated leaves the row with WeCom: the run was claimed
\* in a state that is polled, so the branch that fails it is not taken.
LEMMA RetryKeeps ==
  ASSUME DispatchInv, NEW w \in Workers, Retry(w)
  PROVE  DispatchInv'
<1>1. PICK d \in Dispatches : d = work[w].d
  BY OfWorker
<1>2. work[w].status \in {"submitted", "polling"}
  BY OfWorker DEF Retry, WorkerOK
<1>3. /\ UNCHANGED <<op, recorded, binding, allowed, message>>
      /\ \/ /\ CanWrite(w, d, "polling") /\ Stop(w) /\ faults' = faults
            /\ row' = [row EXCEPT ![d] = Transitioned(d, "polling", FALSE, "later", "retry")]
         \/ /\ row' = row /\ Stop(w)
            /\ faults' = faults \/ (faults < MaxFaults /\ faults' = faults + 1)
  <2>1. PICK to : to = IF work[w].status \in {"submitted", "polling"} THEN "polling" ELSE "failed"
    OBVIOUS
  <2>2. /\ UNCHANGED <<op, recorded, binding, allowed, message>>
        /\ \/ /\ CanWrite(w, d, to) /\ Stop(w) /\ faults' = faults
              /\ row' = [row EXCEPT ![d] = Transitioned(d, to, FALSE, "later", "retry")]
           \/ /\ row' = row /\ Stop(w)
              /\ faults' = faults \/ (faults < MaxFaults /\ faults' = faults + 1)
    BY <1>1, <2>1, Zenon DEF Retry, Ledger, Stop
  <2>3. to = "polling"
    BY <1>2, <2>1
  <2> QED
    BY <2>2, <2>3, Zenon
<1>4. "polling" \in Statuses \ Unsent /\ "retry" \in Codes
  BY DEF Statuses, Unsent, Codes
<1> QED
  BY <1>3, <1>4, LedgerRefused, StopAfterTransition
LEMMA ReconcileKeeps ==
  ASSUME DispatchInv, NEW w \in Workers, Reconcile(w)
  PROVE  DispatchInv'
<1>1. PICK d \in Dispatches : d = work[w].d
  BY OfWorker
<1>2. PICK pid \in BOOLEAN : pid = work[w].pid
  BY OfWorker DEF Work
<1>3. /\ UNCHANGED <<op, recorded, binding, allowed, message>> /\ Stop(w)
      /\ \/ /\ CanReconcile(w, d) /\ faults' = faults
            /\ row' = [row EXCEPT ![d] = ReconcileRow(d, pid)]
         \/ /\ row' = row
            /\ faults' = faults \/ (faults < MaxFaults /\ faults' = faults + 1)
  BY <1>1, <1>2, Zenon DEF Reconcile, Ledger, Stop
<1>4. CASE row' = row /\ (faults' = faults \/ (faults < MaxFaults /\ faults' = faults + 1))
  BY <1>3, <1>4, LedgerRefused
<1>5. CASE /\ CanReconcile(w, d) /\ faults' = faults
           /\ row' = [row EXCEPT ![d] = ReconcileRow(d, pid)]
  <2>1. PICK r \in Row : r = row[d] /\ RowOK(r, message[d], recorded[d])
    BY OfRow
  <2>2. /\ r.status \in {"submitting", "submitted", "polling"}
        /\ op[OperationOf[d]].status = "pending"
    BY <1>5, <2>1 DEF CanReconcile, Current
  <2>3. PICK st \in {"submitting", "submitted", "polling"}, p \in BOOLEAN :
           /\ st = IF r.status = "submitting" /\ pid THEN "submitted" ELSE r.status
           /\ p = (r.pid \/ pid)
    BY <2>2 DEF Row
  <2>4. st \in Statuses /\ "reconcile" \in Codes /\ st \notin Unsent
    BY DEF Statuses, Codes, Unsent
  <2>5. PICK s \in Row : s = [r EXCEPT !.status = st, !.pid = p, !.next = "due", !.err = "reconcile"]
    BY <2>4 DEF Row
  <2>6. s.status = st /\ s.pid = p /\ s.holder = r.holder
    BY <2>5 DEF Row
  <2>7. ReconcileRow(d, pid) = s
    BY <2>1, <2>3, <2>5 DEF ReconcileRow, Row
  <2>8. st = "submitting" => ~p
    BY <2>1, <2>2, <2>3 DEF RowOK, Unnamed
  <2>9. RowOK(s, message[d], recorded[d])
    BY <2>1, <2>3, <2>4, <2>6, <2>8 DEF RowOK, Unnamed, Unsent
  <2>10. PICK q \in Work : work' = [work EXCEPT ![w] = q] /\ q.pc = "idle"
    BY <1>3, IdleTyped DEF Stop
  <2>11. row' = [row EXCEPT ![d] = s]
    BY <1>5, <2>7
  <2>12. RowStep(w, d, q, s)
    BY <1>3, <1>5, <2>1, <2>2, <2>4, <2>6, <2>9, <2>10, <2>11, Typed
    DEF RowStep, Sending, Recording, Counts
  <2> QED
    BY <2>12, RowKeeps
<1> QED
  BY <1>3, <1>4, <1>5

LEMMA SuccessesAre ==
  ASSUME NEW m \in Message
  PROVE  /\ Successes(m) \in SUBSET Targets
         /\ Successes(m) \subseteq m.listed \cap m.delivered
         /\ Successes(m) # {} => m.done /\ Successes(m) = m.listed
  BY DEF Successes, Message

\* What an answer leaves of a message: the successes L it names are remembered
\* when the caller holds the lease.
Answer(old, m, L, mine) ==
    /\ m.calls = old.calls /\ m.done = old.done
    /\ m.delivered = old.delivered /\ m.listed = old.listed
    /\ m.told = L \/ m.told = old.told
    /\ m.told = old.told \/ mine
    /\ L \subseteq old.listed \cap old.delivered
    /\ L # {} => old.done /\ L = old.listed

LEMMA AnsweredRow ==
  ASSUME NEW w \in Workers, NEW s \in Row, NEW old, NEW m, NEW c, NEW L,
         Answer(old, m, L, s.holder = w), RowOK(s, old, c)
  PROVE  RowOK(s, m, c)
<1>1. s.status = "succeeded" => m.told = old.told
  BY BatchAssumption DEF Answer, RowOK
<1>2. m.told \subseteq old.listed
  BY DEF Answer, RowOK
<1>3. m.calls = old.calls /\ m.done = old.done /\ m.delivered = old.delivered /\ m.listed = old.listed
  BY DEF Answer
<1>4. s.status = "succeeded" => s.holder = NoWorker /\ Reached(m, c)
  BY <1>1, <1>3 DEF RowOK, Reached
<1> QED
  BY <1>2, <1>3, <1>4 DEF RowOK

LEMMA AnsweredWorker ==
  ASSUME NEW q \in Work, NEW s, NEW old, NEW m, NEW c, NEW L, NEW mine,
         Answer(old, m, L, mine), RowOK(s, old, c), q.left = L,
         q.pc \in Recording => L # {},
         q.pc \notin Sending \cup {"authorize", "poll", "retry"}
  PROVE  WorkerOK(q, s.status, m, c) /\ Counts(q, mine, m, c)
<1>1. L # {} => m.told \subseteq L
  BY DEF Answer, RowOK
<1>2. L # {} => m.done /\ L \subseteq m.listed \cap m.delivered
  BY DEF Answer
<1>3. WorkerOK(q, s.status, m, c)
  BY <1>2 DEF WorkerOK
<1>4. Counts(q, mine, m, c)
  BY <1>1 DEF Counts
<1> QED
  BY <1>3, <1>4

\* An answer that ends the poll names recipients who got the message, and all
\* that are listed.
LEMMA AnswerKeeps ==
  ASSUME DispatchInv, NEW w \in Workers, NEW d \in Dispatches, d = work[w].d,
         NEW old \in Message, old = message[d],
         NEW pc, pc = Polled(work[w], old),
         work' = [work EXCEPT ![w].pc = pc, ![w].left = Successes(old)],
         message' = [message EXCEPT ![d].told = IF LeaseHeld(w, d) THEN Successes(old) ELSE @],
         UNCHANGED <<op, row, recorded, binding, allowed, faults>>
  PROVE  DispatchInv'
<1>1. PICK L \in SUBSET Targets : /\ L = Successes(old) /\ L \subseteq old.listed \cap old.delivered
                                  /\ L # {} => old.done /\ L = old.listed
  BY SuccessesAre
<1>2. /\ pc \in PCs \ (Sending \cup {"authorize", "poll", "retry"})
      /\ pc \in Recording => L # {}
  BY <1>1 DEF Polled, PCs, Sending, Recording
<1>3. PICK q \in Work : /\ work' = [work EXCEPT ![w] = q]
                        /\ q.pc = pc /\ q.left = L /\ q.d = d
  <2>1. PICK r \in Work : r = work[w] /\ r.d = d
    BY OfWorker
  <2>2. PICK q \in Work : q = [r EXCEPT !.pc = pc, !.left = L]
    BY <1>2 DEF Work
  <2>3. q.pc = pc /\ q.left = L /\ q.d = d
    BY <2>1, <2>2 DEF Work
  <2>4. work' = [work EXCEPT ![w] = q]
    BY <1>1, <2>1, <2>2, Typed
  <2> QED
    BY <2>3, <2>4
<1>4. PICK s \in Row, c \in SUBSET Targets : s = row[d] /\ c = recorded[d]
  BY OfRow
<1>4a. RowOK(s, old, c)
  BY <1>4, OfRow
<1>5. PICK T \in SUBSET Targets : /\ T = IF LeaseHeld(w, d) THEN L ELSE old.told
                                  /\ T = L \/ T = old.told
                                  /\ T = old.told \/ s.holder = w
  BY <1>4 DEF Message, LeaseHeld
<1>6. PICK m \in Message : m = [old EXCEPT !.told = T]
  BY DEF Message
<1>7. /\ m.calls = old.calls /\ m.done = old.done /\ m.delivered = old.delivered
      /\ m.listed = old.listed /\ m.told = T
  BY <1>6 DEF Message
<1>8. message' = [message EXCEPT ![d] = m]
  <2>1. message' = [message EXCEPT ![d].told = T]
    <3>1. message[d].told = old.told
      OBVIOUS
    <3> QED
      BY <1>1, <1>5, <3>1
  <2> QED
    BY <1>6, <2>1, Typed
<1>9. Answer(old, m, L, s.holder = w)
  <2>1. m.told = L \/ m.told = old.told
    BY <1>5, <1>7
  <2>2. m.told = old.told \/ s.holder = w
    BY <1>5, <1>7
  <2> QED
    BY <1>1, <1>7, <2>1, <2>2, Zenon DEF Answer
<1>10. RowOK(s, m, c)
  BY <1>4a, <1>9, AnsweredRow, Zenon
<1>11. WorkerOK(q, s.status, m, c) /\ Counts(q, s.holder = w, m, c)
  <2>1. /\ q.left = L /\ (q.pc \in Recording => L # {})
        /\ q.pc \notin Sending \cup {"authorize", "poll", "retry"}
    BY <1>2, <1>3
  <2> QED
    BY <1>4a, <1>9, <2>1, AnsweredWorker, Zenon
<1>12. /\ m.calls = message[d].calls /\ m.done = message[d].done
       /\ m.delivered = message[d].delivered /\ m.listed = message[d].listed
       /\ m.told = message[d].told \/ row[d].holder = w
  BY <1>4, <1>5, <1>7
<1>13. faults' \in 0 .. MaxFaults /\ q.pc \notin Sending
  BY <1>2, <1>3, Typed
<1>14. /\ RowOK(row[d], m, recorded[d])
       /\ WorkerOK(q, row[d].status, m, recorded[d])
       /\ Counts(q, row[d].holder = w, m, recorded[d])
  BY <1>4, <1>10, <1>11 DEF Counts
<1>15. q.d = d /\ work' = [work EXCEPT ![w] = q]
  BY <1>3
<1>16. AnswerStep(w, d, q, m)
  BY <1>8, <1>12, <1>13, <1>14, <1>15, Zenon DEF AnswerStep
<1> QED
  BY <1>16, AnswerStepKeeps

LEMMA PollKeeps ==
  ASSUME DispatchInv, NEW w \in Workers, Poll(w)
  PROVE  DispatchInv'
<1>1. PICK d \in Dispatches : d = work[w].d
  BY OfWorker
<1>2. PICK m \in Message : m = message[d]
  BY Typed
<1>3. /\ UNCHANGED <<op, row, recorded, binding, allowed>> /\ work[w].pc = "poll"
      /\ \/ Goto(w, "fail") /\ UNCHANGED <<message, faults>>
         \/ /\ work' = [work EXCEPT ![w].pc = Polled(work[w], m), ![w].left = Successes(m)]
            /\ message' = [message EXCEPT ![d].told = IF LeaseHeld(w, d) THEN Successes(m) ELSE @]
            /\ UNCHANGED faults
         \/ /\ work[w].pid /\ faults < MaxFaults /\ faults' = faults + 1
            /\ \E pc \in {"retry", "fail"} : Goto(w, pc)
            /\ UNCHANGED message
  BY <1>1, <1>2, Zenon DEF Poll
<1>4. CASE UNCHANGED faults \/ (faults < MaxFaults /\ faults' = faults + 1)
  <2>0. faults' \in 0 .. MaxFaults
    BY <1>4, FaultTyped, Typed
  <2>1. CASE Goto(w, "fail") /\ UNCHANGED message
    BY <1>3, <2>0, <2>1, QuietKeeps DEF Quiet
  <2>2. CASE /\ work' = [work EXCEPT ![w].pc = Polled(work[w], m), ![w].left = Successes(m)]
             /\ message' = [message EXCEPT ![d].told = IF LeaseHeld(w, d) THEN Successes(m) ELSE @]
             /\ UNCHANGED faults
    <3>1. PICK pc : pc = Polled(work[w], m)
      OBVIOUS
    <3>2. work' = [work EXCEPT ![w].pc = pc, ![w].left = Successes(m)]
      BY <2>2, <3>1
    <3>3. UNCHANGED <<op, row, recorded, binding, allowed, faults>>
      BY <1>3, <2>2
    <3>4. message' = [message EXCEPT ![d].told = IF LeaseHeld(w, d) THEN Successes(m) ELSE @]
      BY <2>2
    <3> QED
      BY <1>1, <1>2, <3>1, <3>2, <3>3, <3>4, AnswerKeeps
  <2>3. CASE work[w].pid /\ Goto(w, "retry") /\ UNCHANGED message
    <3>1. "retry" \in PCs
      BY DEF PCs
    <3>2. PICK q \in Work : /\ work' = [work EXCEPT ![w] = q] /\ q.pc = "retry"
                            /\ q.status = work[w].status
      BY <2>3, <3>1, GotoIs
    <3>3. /\ q.pc \notin Sending \cup Recording
          /\ WorkerOK(q, row[q.d].status, message[q.d], recorded[q.d])
      BY <1>3, <2>3, <3>2, OfWorker DEF WorkerOK, Sending, Recording
    <3> QED
      BY <1>3, <2>0, <2>3, <3>2, <3>3, WorkKeeps
  <2> QED
    BY <1>3, <2>1, <2>2, <2>3
<1> QED
  BY <1>3, <1>4

\* A row that went on to polling before its results are recorded.
LEMMA RowToPolling ==
  ASSUME DispatchInv, NEW w \in Workers, NEW d \in Dispatches, d = work[w].d,
         work[w].pc = "topolling", CanWrite(w, d, "polling"),
         NEW pid \in BOOLEAN, NEW err \in Codes,
         row' = [row EXCEPT ![d] = Transitioned(d, "polling", pid, "null", err)],
         Goto(w, "results"), faults' = faults,
         UNCHANGED <<op, recorded, binding, allowed, message>>
  PROVE  DispatchInv'
<1>1. "results" \in PCs /\ "polling" \in Statuses \ Unsent
  BY DEF PCs, Statuses, Unsent
<1>2. PICK q \in Work : /\ work' = [work EXCEPT ![w] = q] /\ q.pc = "results" /\ q.d = d
                        /\ q.left = work[w].left
  BY <1>1, GotoIs
<1>3. /\ WorkerOK(q, "polling", message[d], recorded[d])
      /\ Counts(q, row[d].holder = w, message[d], recorded[d])
  BY <1>2, OfWorker DEF WorkerOK, Sending, Recording, Counts
<1>4. TransitionStep(w, d, "polling", pid, "null", err, q)
  BY <1>2, <1>3, Typed DEF TransitionStep, Sending
<1> QED
  BY <1>1, <1>4, TransitionKeeps

LEMMA ToPollingKeeps ==
  ASSUME DispatchInv, NEW w \in Workers, ToPolling(w)
  PROVE  DispatchInv'
<1>1. PICK d \in Dispatches : d = work[w].d
  BY OfWorker
<1>2. /\ UNCHANGED <<op, recorded, binding, allowed, message>> /\ work[w].pc = "topolling"
      /\ \/ /\ CanWrite(w, d, "polling") /\ Goto(w, "results") /\ faults' = faults
            /\ row' = [row EXCEPT ![d] = Transitioned(d, "polling", TRUE, "null", "")]
         \/ /\ row' = row /\ Goto(w, "reconcile")
            /\ faults' = faults \/ (faults < MaxFaults /\ faults' = faults + 1)
  BY <1>1, Zenon DEF ToPolling, Ledger, Goto
<1>3. /\ UNCHANGED <<op, recorded, binding, allowed, message>> /\ work[w].pc = "topolling"
      /\ TRUE \in BOOLEAN
  BY <1>2, Zenon
<1>4. CASE /\ row' = row /\ Goto(w, "reconcile")
           /\ faults' = faults \/ (faults < MaxFaults /\ faults' = faults + 1)
  BY <1>3, <1>4, LedgerRefused
<1>5. CASE /\ CanWrite(w, d, "polling") /\ Goto(w, "results") /\ faults' = faults
           /\ row' = [row EXCEPT ![d] = Transitioned(d, "polling", TRUE, "null", "")]
  <2>1. PICK b \in BOOLEAN, e \in Codes :
           row' = [row EXCEPT ![d] = Transitioned(d, "polling", b, "null", e)]
    BY <1>3, <1>5, Zenon DEF Codes
  <2> QED
    BY <1>1, <1>3, <1>5, <2>1, RowToPolling, Zenon
<1> QED
  BY <1>2, <1>4, <1>5, Zenon

LEMMA RecordResultKeeps ==
  ASSUME DispatchInv, NEW w \in Workers, NEW t \in Targets, RecordResult(w, t)
  PROVE  DispatchInv'
<1>1. PICK d \in Dispatches : d = work[w].d
  BY OfWorker
<1>2. /\ UNCHANGED <<op, row, binding, allowed, message, faults>> /\ work[w].pc = "results"
      /\ t \in work[w].left
      /\ \/ /\ row[d].status = "polling"
            /\ recorded' = [recorded EXCEPT ![d] = @ \cup {t}]
            /\ work' = [work EXCEPT ![w].left = @ \ {t}]
         \/ Goto(w, "reconcile") /\ UNCHANGED recorded
  BY <1>1, Zenon DEF RecordResult
<1>3. CASE Goto(w, "reconcile") /\ UNCHANGED recorded
  BY <1>2, <1>3, LedgerRefused
<1>4. CASE /\ row[d].status = "polling"
           /\ recorded' = [recorded EXCEPT ![d] = @ \cup {t}]
           /\ work' = [work EXCEPT ![w].left = @ \ {t}]
  <2>0. PICK s \in Row, m \in Message : s = row[d] /\ m = message[d]
    BY Typed
  <2>1. PICK c \in SUBSET Targets :
           s = row[d] /\ m = message[d] /\ c = recorded[d] \cup {t} /\ c # {}
    BY <2>0, OfRow
  <2>2. /\ row' = [row EXCEPT ![d] = s] /\ message' = [message EXCEPT ![d] = m]
        /\ recorded' = [recorded EXCEPT ![d] = c]
    BY <1>2, <1>4, <2>1, Typed
  <2>3. PICK l \in SUBSET Targets : l = work[w].left \ {t}
    BY OfWorker DEF Work
  <2>4. PICK q \in Work : q = [work[w] EXCEPT !.left = l]
    BY OfWorker DEF Work
  <2>5. q.pc = "results" /\ q.left = l /\ q.d = d
    BY <1>1, <1>2, <2>4, OfWorker DEF Work
  <2>6. work' = [work EXCEPT ![w] = q]
    BY <1>4, <2>3, <2>4, Typed
  <2>7. RowOK(s, m, c)
    <3>1. t \in m.listed \cap m.delivered
      BY <1>1, <1>2, <2>1, OfWorker DEF WorkerOK, Recording
    <3> QED
      BY <1>4, <2>1, <3>1, OfRow DEF RowOK
  <2>8. WorkerOK(q, s.status, m, c) /\ Counts(q, s.holder = w, m, c)
    <3>1. PICK r \in Work : /\ r = work[w] /\ r.pc = "results" /\ l = r.left \ {t}
                            /\ WorkerOK(r, s.status, m, recorded[d])
                            /\ Counts(r, s.holder = w, m, recorded[d])
      BY <1>1, <1>2, <2>1, <2>3, OfWorker DEF Counts
    <3>2. WorkerOK(q, s.status, m, c)
      BY <2>1, <2>5, <3>1 DEF WorkerOK, Sending, Recording
    <3>3. Counts(q, s.holder = w, m, c)
      BY <2>1, <2>5, <3>1 DEF Recording, Counts
    <3> QED
      BY <3>2, <3>3
  <2>9. q.pc \notin Sending /\ recorded[d] \subseteq c /\ faults' \in 0 .. MaxFaults
    BY <1>2, <2>1, <2>5, Typed DEF Sending
  <2>10. /\ s.status # row[d].status => op[OperationOf[d]].status = "pending"
         /\ s.status \in Unsent => row[d].status \in Unsent
    BY <2>1
  <2>11. /\ m.calls = message[d].calls /\ m.done = message[d].done /\ m.told = message[d].told
         /\ m.delivered = message[d].delivered /\ m.listed = message[d].listed
         /\ s.holder \in {row[d].holder, NoWorker, w}
    BY <2>1
  <2>12. /\ q.pc = "idle" \/ (q.d = d /\ WorkerOK(q, s.status, m, c))
         /\ q.pc \in Sending => \/ work[w].pc \in Sending /\ work[w].d = d
                                \/ row[d].status \in Unsent
         /\ m.calls = message[d].calls \/ (work[w].pc = "send" /\ work[w].d = d)
         /\ m.told = message[d].told \/ row[d].holder = w
         /\ Counts(q, s.holder = w, m, c)
    BY <2>5, <2>8, <2>9, <2>11
  <2>13. UNCHANGED <<op, binding, allowed>>
    BY <1>2
  <2> QED
    BY <2>2, <2>6, <2>7, <2>9, <2>10, <2>11, <2>12, <2>13, StepKeeps, Zenon
<1> QED
  BY <1>2, <1>3, <1>4

LEMMA FinishKeeps ==
  ASSUME DispatchInv, NEW w \in Workers, Finish(w)
  PROVE  DispatchInv'
<1>1. PICK d \in Dispatches : d = work[w].d
  BY OfWorker
<1>2. /\ UNCHANGED <<op, recorded, binding, allowed, message>>
      /\ work[w].pc = "results" /\ work[w].left = {}
      /\ \/ /\ CanWrite(w, d, "succeeded") /\ Stop(w) /\ faults' = faults
            /\ row' = [row EXCEPT ![d] = Transitioned(d, "succeeded", TRUE, "null", "")]
         \/ /\ row' = row /\ Goto(w, "reconcile")
            /\ faults' = faults \/ (faults < MaxFaults /\ faults' = faults + 1)
  BY <1>1, Zenon DEF Finish, Ledger, Stop, Goto
<1>3. /\ UNCHANGED <<op, recorded, binding, allowed, message>> /\ TRUE \in BOOLEAN
      /\ work[w].pc = "results" /\ work[w].left = {}
  BY <1>2, Zenon
<1>4. row[d].holder = w => Reached(message[d], recorded[d])
  BY <1>1, <1>3, OfWorker, OfRow DEF WorkerOK, Reached, Recording, Counts
<1>5. CASE /\ row' = row /\ Goto(w, "reconcile")
           /\ faults' = faults \/ (faults < MaxFaults /\ faults' = faults + 1)
  BY <1>3, <1>5, LedgerRefused
<1>6. CASE /\ CanWrite(w, d, "succeeded") /\ Stop(w) /\ faults' = faults
           /\ row' = [row EXCEPT ![d] = Transitioned(d, "succeeded", TRUE, "null", "")]
  <2>1. PICK s \in Statuses \ Unsent, e \in Codes, n \in {"null", "due", "later"} :
           /\ s = "succeeded" /\ e = "" /\ n = "null"
           /\ s # "submitting" /\ s \notin {"failed", "partial_failed"}
    BY DEF Statuses, Terminal, Unsent, Codes
  <2>2. PICK b \in BOOLEAN : /\ CanWrite(w, d, s) /\ row' = [row EXCEPT ![d] = Transitioned(d, s, b, n, e)]
    BY <1>3, <1>6, <2>1, Zenon
  <2>3. Reached(message[d], recorded[d])
    BY <1>4, <2>2, Zenon DEF CanWrite, LeaseHeld
  <2> QED
    BY <1>3, <1>6, <2>1, <2>2, <2>3, StopAfterTransition, Zenon
<1> QED
  BY <1>2, <1>5, <1>6, Zenon

LEMMA CrashKeeps ==
  ASSUME DispatchInv, NEW w \in Workers, Crash(w)
  PROVE  DispatchInv'
<1>1. /\ UNCHANGED <<op, row, recorded, binding, allowed, message>> /\ Stop(w)
      /\ faults < MaxFaults /\ faults' = faults + 1
  BY Zenon DEF Crash
<1> QED
  BY <1>1, FaultTyped, QuietKeeps
--------------------------------------------------------------------------------
(* The requests of the dashboard and the surroundings.                           *)

LEMMA RowsOfDispatch ==
  ASSUME DispatchInv
  PROVE  \A d \in Dispatches : RowOK(row[d], message[d], recorded[d])
  BY DEF DispatchInv, RowsSound

\* A new row that only differs in its lease or in the time of its next poll.
LEMMA ClockKeeps ==
  ASSUME DispatchInv, NEW d \in Dispatches, NEW s \in Row, row' = [row EXCEPT ![d] = s],
         s.status = row[d].status, s.err = row[d].err, s.pid = row[d].pid,
         s.holder = row[d].holder,
         UNCHANGED <<op, recorded, binding, allowed, work, message>>, faults' \in 0 .. MaxFaults
  PROVE  DispatchInv'
<1>1. row' \in [Dispatches -> Row]
  BY Typed
<1>2. \A e \in Dispatches : row'[e] = IF e = d THEN s ELSE row[e]
  BY Typed
<1>3. RowOK(s, message[d], recorded[d])
  BY OfRow DEF RowOK
<1>4. \A e \in Dispatches : /\ RowOK(row'[e], message[e], recorded[e])
                            /\ row'[e].status \in Unsent => row[e].status \in Unsent
                            /\ row'[e].holder \in {row[e].holder, NoWorker}
  BY <1>2, <1>3, RowsOfDispatch
<1>5. ChunksFollow'
  BY <1>2 DEF DispatchInv, ChunksFollow
<1> QED
  BY <1>1, <1>4, <1>5, Typed, RowsKeep

LEMMA LeaseKeeps ==
  ASSUME DispatchInv, NEW d \in Dispatches, LeaseRunsOut(d) \/ RunOutlivesLease(d)
  PROVE  DispatchInv'
<1>1. /\ UNCHANGED <<op, recorded, binding, allowed, work, message>>
      /\ row' = [row EXCEPT ![d].lease = "expired"]
      /\ faults' = faults \/ (faults < MaxFaults /\ faults' = faults + 1)
  BY Zenon DEF LeaseRunsOut, RunOutlivesLease
<1>2. PICK s \in Row : s = [row[d] EXCEPT !.lease = "expired"]
  BY OfRow DEF Row
<1>3. /\ s.status = row[d].status /\ s.err = row[d].err /\ s.pid = row[d].pid
      /\ s.holder = row[d].holder
  BY <1>2, OfRow DEF Row
<1>4. row' = [row EXCEPT ![d] = s]
  BY <1>1, <1>2, Typed
<1>5. faults' \in 0 .. MaxFaults
  BY <1>1, FaultTyped, Typed
<1> QED
  BY <1>1, <1>3, <1>4, <1>5, ClockKeeps

LEMMA NextPollKeeps ==
  ASSUME DispatchInv, NEW d \in Dispatches, NextPollComes(d)
  PROVE  DispatchInv'
<1>1. /\ UNCHANGED <<op, recorded, binding, allowed, work, message, faults>>
      /\ row' = [row EXCEPT ![d].next = "due"]
  BY Zenon DEF NextPollComes
<1>2. PICK s \in Row : s = [row[d] EXCEPT !.next = "due"]
  BY OfRow DEF Row
<1>3. /\ s.status = row[d].status /\ s.err = row[d].err /\ s.pid = row[d].pid
      /\ s.holder = row[d].holder
  BY <1>2, OfRow DEF Row
<1>4. row' = [row EXCEPT ![d] = s]
  BY <1>1, <1>2, Typed
<1> QED
  BY <1>1, <1>3, <1>4, Typed, ClockKeeps

LEMMA SurroundingsKeep ==
  ASSUME DispatchInv, RotateCredential \/ Withdraw \/ Restore
  PROVE  DispatchInv'
<1>1. UNCHANGED <<op, row, recorded, work, message>>
  BY Zenon DEF RotateCredential, Withdraw, Restore
<1>2. binding' \in 1 .. MaxGeneration /\ allowed' \in BOOLEAN /\ faults' \in 0 .. MaxFaults
  <2>1. binding \in 1 .. MaxGeneration /\ allowed \in BOOLEAN /\ faults \in 0 .. MaxFaults
    BY Zenon, Typed
  <2>2. binding' \in 1 .. MaxGeneration
    <3>1. UNCHANGED binding \/ (binding < MaxGeneration /\ binding' = binding + 1)
      BY Zenon DEF RotateCredential, Withdraw, Restore
    <3> QED
      BY <2>1, <3>1, BatchAssumption
  <2>3. allowed' \in BOOLEAN
    BY Zenon, <2>1 DEF RotateCredential, Withdraw, Restore
  <2>4. faults' \in 0 .. MaxFaults
    <3>1. UNCHANGED faults \/ (faults < MaxFaults /\ faults' = faults + 1)
      BY Zenon DEF RotateCredential, Withdraw, Restore
    <3> QED
      BY <2>1, <3>1, FaultTyped
  <2> QED
    BY <2>2, <2>3, <2>4
<1>3. \A d \in Dispatches : /\ RowOK(row'[d], message[d], recorded[d])
                            /\ row'[d].status \in Unsent => row[d].status \in Unsent
                            /\ row'[d].holder \in {row[d].holder, NoWorker}
  BY <1>1, RowsOfDispatch
<1>4. ChunksFollow'
  BY <1>1 DEF DispatchInv, ChunksFollow
<1> QED
  BY <1>1, <1>2, <1>3, <1>4, Typed, RowsKeep

\* WeCom gets on with a message: it only lists and delivers more.
LEMMA MoreKeeps ==
  ASSUME DispatchInv, NEW d \in Dispatches, NEW m \in Message,
         UNCHANGED <<op, row, recorded, binding, allowed, work, faults>>,
         message' = [message EXCEPT ![d] = m],
         m.calls = message[d].calls, m.told = message[d].told, m.done,
         message[d].listed \subseteq m.listed, message[d].delivered \subseteq m.delivered
  PROVE  DispatchInv'
<1>1. \A e \in Dispatches : message'[e] = IF e = d THEN m ELSE message[e]
  BY Typed
<1>2. TypeInv'
  BY Typed DEF TypeInv
<1>3. RowOK(row[d], m, recorded[d])
  BY OfRow DEF RowOK, Reached
<1>4. RowsSound'
  BY <1>1, <1>3, RowsOfDispatch DEF RowsSound
<1>5. ASSUME NEW w \in Workers
      PROVE  /\ WorkerOK(work[w], row[work[w].d].status, message'[work[w].d], recorded[work[w].d])
             /\ Counts(work[w], row[work[w].d].holder = w, message'[work[w].d], recorded[work[w].d])
  <2>1. CASE work[w].d = d
    <3>1. /\ WorkerOK(work[w], row[d].status, message[d], recorded[d])
          /\ Counts(work[w], row[d].holder = w, message[d], recorded[d])
      BY <2>1, OfWorker
    <3>2. WorkerOK(work[w], row[d].status, m, recorded[d])
      BY <3>1 DEF WorkerOK
    <3>3. Counts(work[w], row[d].holder = w, m, recorded[d])
      BY <3>1 DEF Counts
    <3> QED
      BY <1>1, <2>1, <3>2, <3>3
  <2>2. CASE work[w].d # d
    BY <1>1, <2>2, OfWorker
  <2> QED
    BY <2>1, <2>2
<1>6. WorkersSound' /\ HoldersCount'
  BY <1>5 DEF WorkersSound, HoldersCount
<1>7. SenderIsAlone' /\ ChunksFollow'
  BY DEF DispatchInv, SenderIsAlone, ChunksFollow
<1> QED
  BY <1>2, <1>4, <1>6, <1>7 DEF DispatchInv

\* What a step of WeCom makes of a message.
More(d) ==
    \E m \in Message : /\ message' = [message EXCEPT ![d] = m]
                       /\ m.calls = message[d].calls /\ m.told = message[d].told /\ m.done
                       /\ message[d].listed \subseteq m.listed
                       /\ message[d].delivered \subseteq m.delivered

LEMMA WeComDoesMore ==
  ASSUME DispatchInv, NEW d \in Dispatches, Deliver(d) \/ DeliverLate(d) \/ ListMore(d)
  PROVE  /\ More(d) /\ (message[d].open \/ message[d].done)
         /\ UNCHANGED <<op, row, recorded, binding, allowed, work, faults>>
<1>0. PICK old \in Message : old = message[d] /\ (~old.done => old.listed = {} /\ old.delivered = {})
  BY OfRow DEF RowOK
<1>1. CASE Deliver(d)
  <2>1. PICK S \in SUBSET Targets, L \in SUBSET Targets :
           /\ old.open /\ ~old.done
           /\ message' = [message EXCEPT ![d].done = TRUE, ![d].delivered = S, ![d].listed = L]
    BY <1>0, <1>1, Zenon DEF Deliver
  <2>2. PICK m \in Message : m = [old EXCEPT !.done = TRUE, !.delivered = S, !.listed = L]
    BY DEF Message
  <2>3. m.calls = old.calls /\ m.told = old.told /\ m.done
    BY <2>2 DEF Message
  <2>4. message' = [message EXCEPT ![d] = m]
    BY <1>0, <2>1, <2>2, Typed
  <2>5. old.listed = {} /\ old.delivered = {}
    BY <1>0, <2>1
  <2>6. UNCHANGED <<op, row, recorded, binding, allowed, work, faults>>
    BY <1>1, Zenon DEF Deliver
  <2> QED
    BY <1>0, <2>1, <2>3, <2>4, <2>5, <2>6 DEF More
<1>2. CASE DeliverLate(d)
  <2>1. PICK t \in Targets : /\ old.done
                             /\ message' = [message EXCEPT ![d].delivered = @ \cup {t}]
    BY <1>0, <1>2 DEF DeliverLate
  <2>2. PICK S \in SUBSET Targets : S = old.delivered \cup {t}
    BY DEF Message
  <2>3. PICK m \in Message : m = [old EXCEPT !.delivered = S]
    BY DEF Message
  <2>4. /\ m.calls = old.calls /\ m.told = old.told /\ m.done = old.done
        /\ m.listed = old.listed /\ m.delivered = S
    BY <2>3 DEF Message
  <2>5. message' = [message EXCEPT ![d] = m]
    BY <1>0, <2>1, <2>2, <2>3, Typed
  <2>6. UNCHANGED <<op, row, recorded, binding, allowed, work, faults>>
    BY <1>2, Zenon DEF DeliverLate
  <2> QED
    BY <1>0, <2>1, <2>2, <2>4, <2>5, <2>6 DEF More
<1>3. CASE ListMore(d)
  <2>1. PICK t \in Targets : /\ old.done
                             /\ message' = [message EXCEPT ![d].listed = @ \cup {t}]
    BY <1>0, <1>3 DEF ListMore
  <2>2. PICK S \in SUBSET Targets : S = old.listed \cup {t}
    BY DEF Message
  <2>3. PICK m \in Message : m = [old EXCEPT !.listed = S]
    BY DEF Message
  <2>4. /\ m.calls = old.calls /\ m.told = old.told /\ m.done = old.done
        /\ m.delivered = old.delivered /\ m.listed = S
    BY <2>3 DEF Message
  <2>5. message' = [message EXCEPT ![d] = m]
    BY <1>0, <2>1, <2>2, <2>3, Typed
  <2>6. UNCHANGED <<op, row, recorded, binding, allowed, work, faults>>
    BY <1>3, Zenon DEF ListMore
  <2> QED
    BY <1>0, <2>1, <2>2, <2>4, <2>5, <2>6 DEF More
<1> QED
  BY <1>1, <1>2, <1>3

LEMMA WeComKeeps ==
  ASSUME DispatchInv, NEW d \in Dispatches, Deliver(d) \/ DeliverLate(d) \/ ListMore(d)
  PROVE  DispatchInv'
<1>1. More(d) /\ UNCHANGED <<op, row, recorded, binding, allowed, work, faults>>
  BY WeComDoesMore
<1> QED
  BY <1>1, MoreKeeps DEF More

LEMMA CreateKeeps ==
  ASSUME DispatchInv, NEW o \in Operations, Create(o)
  PROVE  DispatchInv'
<1>1. /\ UNCHANGED <<recorded, binding, allowed, work, message, faults>>
      /\ op[o].status = "absent"
      /\ op' = [op EXCEPT ![o] = [status |-> "pending", gen |-> binding]]
      /\ row' = [d \in Dispatches |->
                   IF d \in ChunksOf(o) THEN [NewRow EXCEPT !.status = "queued"] ELSE row[d]]
  BY Zenon DEF Create
<1>2. PICK s \in Row : /\ s = [NewRow EXCEPT !.status = "queued"] /\ s.status = "queued" /\ ~s.pid
                       /\ s.holder = NoWorker
  <2>1. NewRow \in Row /\ ~NewRow.pid /\ NewRow.holder = NoWorker
    BY DEF NewRow, Row, Statuses, Codes
  <2>2. PICK s \in Row : s = [NewRow EXCEPT !.status = "queued"]
    BY <2>1 DEF Row, Statuses
  <2>3. s.status = "queued" /\ s.pid = NewRow.pid /\ s.holder = NewRow.holder
    BY <2>1, <2>2 DEF Row
  <2> QED
    BY <2>1, <2>2, <2>3
<1>3. PICK p \in Operation : p = [status |-> "pending", gen |-> binding] /\ p.status = "pending" /\ p.gen > 0
  <2>1. binding \in 0 .. MaxGeneration /\ binding > 0
    <3>1. binding \in 1 .. MaxGeneration
      BY Zenon, Typed
    <3> QED
      BY <3>1, BatchAssumption
  <2>2. [status |-> "pending", gen |-> binding] \in Operation
    BY <2>1 DEF Operation
  <2> QED
    BY <2>1, <2>2
<1>4. /\ op' \in [Operations -> Operation]
      /\ \A x \in Operations : op'[x] = IF x = o THEN p ELSE op[x]
  BY <1>1, <1>3, Typed
<1>5. \A d \in ChunksOf(o) : d \in Dispatches /\ OperationOf[d] = o /\ row[d].status = "absent"
  BY <1>1 DEF ChunksOf, DispatchInv, ChunksFollow
<1>6. \A d \in Dispatches : row'[d] = IF d \in ChunksOf(o) THEN s ELSE row[d]
  BY <1>1, <1>2
<1>7. row' \in [Dispatches -> Row]
  BY <1>1, <1>2, Typed
<1>8. \A d \in ChunksOf(o) : RowOK(s, message[d], recorded[d])
  BY <1>2, <1>5, OfRow DEF RowOK, Unsent
<1>9. \A d \in Dispatches : /\ RowOK(row'[d], message[d], recorded[d])
                            /\ row'[d].status \in Unsent => row[d].status \in Unsent
                            /\ row'[d].holder \in {row[d].holder, NoWorker}
  BY <1>2, <1>5, <1>6, <1>8, RowsOfDispatch DEF Unsent
<1>10. ChunksFollow'
  BY <1>3, <1>4, <1>6, BatchAssumption DEF DispatchInv, ChunksFollow, ChunksOf
<1>11. \A x \in Operations : op'[x].status # "absent" => op'[x].gen > 0
  BY <1>3, <1>4, Typed
<1> QED
  BY <1>1, <1>4, <1>7, <1>9, <1>10, <1>11, Typed, RowsKeep

LEMMA PendingHasQueued ==
  ASSUME NEW o \in Operations, Projection(o) = "pending"
  PROVE  \E d \in ChunksOf(o) : row[d].status = "queued"
  BY DEF Projection

LEMMA CancelKeeps ==
  ASSUME DispatchInv, NEW o \in Operations, Cancel(o)
  PROVE  DispatchInv'
<1>1. /\ UNCHANGED <<recorded, binding, allowed, work, message, faults>>
      /\ Projection(o) = "pending" /\ \A d \in ChunksOf(o) : row[d].status = "queued"
      /\ op' = [op EXCEPT ![o].status = "cancelled"]
      /\ row' = [d \in Dispatches |->
                   IF d \in ChunksOf(o)
                   THEN [NewRow EXCEPT !.status = "cancelled", !.err = "final"] ELSE row[d]]
  BY Zenon DEF Cancel
<1>2. PICK s \in Row : /\ s = [NewRow EXCEPT !.status = "cancelled", !.err = "final"]
                       /\ s.status = "cancelled" /\ s.holder = NoWorker
  <2>1. NewRow \in Row /\ NewRow.holder = NoWorker
    BY DEF NewRow, Row, Statuses, Codes
  <2>2. PICK to \in Statuses : to = "cancelled"
    BY DEF Statuses, Terminal
  <2>3. PICK code \in Codes : code = "final"
    BY DEF Codes
  <2>4. PICK s \in Row : s = [NewRow EXCEPT !.status = to, !.err = code]
    BY <2>1 DEF Row
  <2>5. s.status = to /\ s.holder = NewRow.holder
    BY <2>1, <2>4 DEF Row
  <2> QED
    BY <2>1, <2>2, <2>3, <2>4, <2>5
<1>3. op[o].status # "absent"
  <2>1. PICK d \in ChunksOf(o) : row[d].status = "queued"
    BY <1>1, PendingHasQueued
  <2>2. d \in Dispatches /\ OperationOf[d] = o
    BY DEF ChunksOf
  <2> QED
    BY <2>1, <2>2 DEF DispatchInv, ChunksFollow
<1>4. PICK p \in Operation : p = [op[o] EXCEPT !.status = "cancelled"] /\ p.status = "cancelled" /\ p.gen = op[o].gen
  <2>1. op[o] \in Operation
    BY Zenon, Typed
  <2>2. PICK p \in Operation : p = [op[o] EXCEPT !.status = "cancelled"]
    BY <2>1 DEF Operation
  <2>3. p.status = "cancelled" /\ p.gen = op[o].gen
    BY <2>1, <2>2 DEF Operation
  <2> QED
    BY <2>2, <2>3
<1>5. /\ op' \in [Operations -> Operation]
      /\ \A x \in Operations : op'[x] = IF x = o THEN p ELSE op[x]
  BY <1>1, <1>4, Typed
<1>6. \A d \in Dispatches : row'[d] = IF d \in ChunksOf(o) THEN s ELSE row[d]
  BY <1>1, <1>2
<1>7. row' \in [Dispatches -> Row]
  BY <1>1, <1>2, Typed
<1>8. \A d \in ChunksOf(o) : d \in Dispatches /\ RowOK(s, message[d], recorded[d])
  BY <1>1, <1>2, OfRow DEF RowOK, Unsent, Unnamed, ChunksOf
<1>9. \A d \in Dispatches : /\ RowOK(row'[d], message[d], recorded[d])
                            /\ row'[d].status \in Unsent => row[d].status \in Unsent
                            /\ row'[d].holder \in {row[d].holder, NoWorker}
  BY <1>1, <1>2, <1>6, <1>8, RowsOfDispatch DEF Unsent
<1>10. ChunksFollow'
  BY <1>2, <1>4, <1>5, <1>6, BatchAssumption DEF DispatchInv, ChunksFollow, ChunksOf
<1>11. \A x \in Operations : op'[x].status # "absent" => op'[x].gen > 0
  BY <1>3, <1>4, <1>5, Typed
<1> QED
  BY <1>1, <1>5, <1>7, <1>9, <1>10, <1>11, Typed, RowsKeep

--------------------------------------------------------------------------------
(* The results.                                                                  *)

LEMMA DispatchNext == DispatchInv /\ [Next]_vars => DispatchInv'
<1> SUFFICES ASSUME DispatchInv, [Next]_vars PROVE DispatchInv'
  OBVIOUS
<1>1. ASSUME NEW w \in Workers, Run(w) PROVE DispatchInv'
  BY <1>1, PreclaimKeeps, ClaimKeeps, AuthorizeKeeps, StartSubmitKeeps, PayloadKeeps, SendKeeps,
     RecordKeeps, ReconcileKeeps, FailKeeps, PollKeeps, WaitKeeps, RetryKeeps, ToPollingKeeps,
     RecordResultKeeps, FinishKeeps DEF Run
<1>2. ASSUME NEW w \in Workers, Crash(w) \/ \E d \in Dispatches : Pick(w, d) PROVE DispatchInv'
  BY <1>2, CrashKeeps, PickKeeps
<1>3. ASSUME NEW d \in Dispatches,
             \/ LeaseRunsOut(d) \/ RunOutlivesLease(d) \/ NextPollComes(d)
             \/ Deliver(d) \/ DeliverLate(d) \/ ListMore(d)
      PROVE  DispatchInv'
  BY <1>3, LeaseKeeps, NextPollKeeps, WeComKeeps
<1>4. CASE UNCHANGED vars
  <2>1. UNCHANGED <<op, row, recorded, binding, allowed, work, message, faults>>
    BY <1>4 DEF vars
  <2>2. ChunksFollow'
    BY <2>1 DEF DispatchInv, ChunksFollow
  <2> QED
    BY <2>1, <2>2, Typed, RowsOfDispatch, RowsKeep
<1> QED
  BY <1>1, <1>2, <1>3, <1>4, CreateKeeps, CancelKeeps, SurroundingsKeep DEF Next

LEMMA DispatchSafe == Spec => []DispatchInv
  BY DispatchInit, DispatchNext, PTL DEF Spec

\* The state always has its types.
THEOREM BatchTypeCorrect == Spec => []BatchTypeOK
<1>1. DispatchInv => BatchTypeOK
  <2> SUFFICES ASSUME DispatchInv PROVE BatchTypeOK
    OBVIOUS
  <2>1. \A w \in Workers : work[w].d \in Dispatches /\ work[w].left \subseteq Targets
    BY Typed DEF Work
  <2>2. \A d \in Dispatches : message[d].told \subseteq message[d].listed /\ message[d].listed \subseteq Targets
    BY OfRow DEF RowOK, Message
  <2> QED
    BY <2>1, <2>2, Typed DEF BatchTypeOK, Operation, Row
<1> QED
  BY <1>1, DispatchSafe, PTL

\* A chunk is handed to WeCom at most once, however many processes run the cron
\* and whatever dies, times out or loses its lease: the row is marked before
\* the call and never goes back to a state that is submitted.
THEOREM ChunksGoOutOnce == Spec => []SubmittedOnce
<1>1. DispatchInv => SubmittedOnce
  BY DEF DispatchInv, RowsSound, RowOK, SubmittedOnce
<1> QED
  BY <1>1, DispatchSafe, PTL

\* No chunk of a cancelled batch was or will be handed to WeCom.
THEOREM CancellationHolds == Spec => []CancelledWasNotSent
<1>1. DispatchInv => CancelledWasNotSent
  BY DEF DispatchInv, RowsSound, RowOK, ChunksFollow, CancelledWasNotSent, ChunksOf, Unsent
<1> QED
  BY <1>1, DispatchSafe, PTL

\* A batch is shown as succeeded only over chunks that WeCom has finished, with
\* a result row for everyone it listed when the holder of the lease last asked,
\* at least one, and none for a recipient who did not get the message.
THEOREM SuccessIsReal == Spec => []ReportedSuccessIsTrue
<1>1. DispatchInv => ReportedSuccessIsTrue
  <2> SUFFICES ASSUME DispatchInv, NEW o \in Operations, Projection(o) = "succeeded",
                      NEW d \in ChunksOf(o)
               PROVE  /\ message[d].done /\ recorded[d] # {} /\ message[d].told \subseteq recorded[d]
                      /\ recorded[d] \subseteq message[d].listed \cap message[d].delivered
    BY DEF ReportedSuccessIsTrue
  <2>1. d \in Dispatches
    BY DEF ChunksOf
  <2>2. row[d].status = "succeeded"
    BY DEF Projection
  <2> QED
    BY <2>1, <2>2, OfRow DEF RowOK, Reached
<1> QED
  BY <1>1, DispatchSafe, PTL

--------------------------------------------------------------------------------
(* The ledger implements OneDelivery.                                            *)

\* WeCom only works on a message it was given.
Answered == \A d \in Dispatches : message[d].open \/ message[d].done => message[d].calls # 0

LEMMA AnsweredStays ==
  ASSUME DispatchInv, Answered, UNCHANGED message
  PROVE  Answered'
  BY DEF Answered

LEMMA AnsweredInit == Init => Answered
<1> SUFFICES ASSUME Init, NEW d \in Dispatches PROVE ~message[d].open /\ ~message[d].done
  BY DEF Answered
<1>1. message[d] = NewMessage
  BY DEF Init
<1> QED
  BY <1>1 DEF NewMessage

\* What a call writes of the message, whether WeCom takes it or not.
LEMMA CallCounts ==
  ASSUME DispatchInv, NEW d \in Dispatches, message[d].calls = 0, Accept(d) \/ Refuse(d)
  PROVE  /\ message'[d].calls = 1
         /\ \A e \in Dispatches \ {d} : message'[e] = message[e]
<1>1. message[d] \in Message /\ message \in [Dispatches -> Message]
  BY Typed
<1>2. CASE Accept(d)
  <2>1. message'[d] = [message[d] EXCEPT !.calls = @ + 1, !.open = TRUE]
    BY <1>1, <1>2 DEF Accept
  <2>2. message'[d].calls = message[d].calls + 1
    BY <1>1, <2>1 DEF Message
  <2> QED
    BY <1>1, <1>2, <2>2 DEF Accept
<1>3. CASE Refuse(d)
  <2>1. message'[d] = [message[d] EXCEPT !.calls = @ + 1]
    BY <1>1, <1>3 DEF Refuse
  <2>2. message'[d].calls = message[d].calls + 1
    BY <1>1, <2>1 DEF Message
  <2> QED
    BY <1>1, <1>3, <2>2 DEF Refuse
<1> QED
  BY <1>2, <1>3

LEMMA SendCalls ==
  ASSUME DispatchInv, NEW w \in Workers, Send(w)
  PROVE  \E d \in Dispatches :
            /\ row[d].status \notin Unsent /\ message[d].calls = 0 /\ message'[d].calls = 1
            /\ \A e \in Dispatches \ {d} : message'[e] = message[e]
            /\ row' = row
<1>1. PICK d \in Dispatches : d = work[w].d
  BY OfWorker
<1>2. work[w].pc = "send" /\ row' = row /\ (Accept(d) \/ Refuse(d))
  BY <1>1, Zenon DEF Send
<1>3. row[d].status \notin Unsent /\ message[d].calls = 0
  BY <1>1, <1>2, OfWorker DEF WorkerOK, Sending
<1>4. /\ message'[d].calls = 1
      /\ \A e \in Dispatches \ {d} : message'[e] = message[e]
  BY <1>2, <1>3, CallCounts
<1> QED
  BY <1>2, <1>3, <1>4

LEMMA MoreAnswers ==
  ASSUME DispatchInv, Answered, NEW d \in Dispatches, Deliver(d) \/ DeliverLate(d) \/ ListMore(d)
  PROVE  /\ \A e \in Dispatches : message'[e].calls = message[e].calls
         /\ Answered' /\ row' = row
<1>1. /\ More(d) /\ (message[d].open \/ message[d].done)
      /\ UNCHANGED <<op, row, recorded, binding, allowed, work, faults>>
  BY WeComDoesMore
<1>2. PICK m : message' = [message EXCEPT ![d] = m] /\ m.calls = message[d].calls
  BY <1>1 DEF More
<1>3. \A e \in Dispatches : message'[e] = IF e = d THEN m ELSE message[e]
  BY <1>2, Typed
<1>4. message[d].calls # 0
  BY <1>1 DEF Answered
<1> QED
  BY <1>1, <1>2, <1>3, <1>4 DEF Answered

\* An answer is remembered, and WeCom has done nothing.
LEMMA PollAnswers ==
  ASSUME DispatchInv, Answered, NEW w \in Workers, Poll(w)
  PROVE  /\ \A e \in Dispatches : message'[e].calls = message[e].calls
         /\ Answered' /\ row' = row
<1>1. PICK d \in Dispatches : d = work[w].d
  BY OfWorker
<1>2. row' = row
  BY Zenon DEF Poll
<1>3. PICK T : UNCHANGED message \/ message' = [message EXCEPT ![d].told = T]
  BY <1>1 DEF Poll
<1>4. PICK old \in Message : old = message[d]
  BY Typed
<1>5. message'[d] = old \/ message'[d] = [old EXCEPT !.told = T]
  BY <1>3, <1>4, Typed
<1>6. message'[d].calls = old.calls /\ message'[d].open = old.open /\ message'[d].done = old.done
  BY <1>5 DEF Message
<1>7. \A e \in Dispatches \ {d} : message'[e] = message[e]
  BY <1>3, Typed
<1> QED
  BY <1>2, <1>4, <1>6, <1>7 DEF Answered

LEMMA AnsweredNext == DispatchInv /\ Answered /\ [Next]_vars => Answered'
<1> SUFFICES ASSUME DispatchInv, Answered, [Next]_vars PROVE Answered'
  OBVIOUS
<1>1. ASSUME NEW w \in Workers, Send(w) PROVE Answered'
  BY <1>1, SendCalls DEF Answered
<1>2. ASSUME NEW d \in Dispatches, Deliver(d) \/ DeliverLate(d) \/ ListMore(d) PROVE Answered'
  BY <1>2, MoreAnswers
<1>2a. ASSUME NEW w \in Workers, Poll(w) PROVE Answered'
  BY <1>2a, PollAnswers
<1>3. ASSUME NEW w \in Workers, Run(w), ~Send(w), ~Poll(w) PROVE UNCHANGED message
  BY <1>3, Zenon
  DEF Run, Preclaim, Claim, Authorize, StartSubmit, Payload, Record, Reconcile, Fail, Wait, Retry,
      ToPolling, RecordResult, Finish
<1>4. ASSUME NEW w \in Workers, Crash(w) \/ \E d \in Dispatches : Pick(w, d)
      PROVE  UNCHANGED message
  BY <1>4, Zenon DEF Crash, Pick
<1>5. ASSUME NEW o \in Operations, Create(o) \/ Cancel(o) PROVE UNCHANGED message
  BY <1>5, Zenon DEF Create, Cancel
<1>6. ASSUME NEW d \in Dispatches, LeaseRunsOut(d) \/ RunOutlivesLease(d) \/ NextPollComes(d)
      PROVE  UNCHANGED message
  BY <1>6, Zenon DEF LeaseRunsOut, RunOutlivesLease, NextPollComes
<1>7. ASSUME RotateCredential \/ Withdraw \/ Restore \/ UNCHANGED vars PROVE UNCHANGED message
  BY <1>7, Zenon DEF RotateCredential, Withdraw, Restore, vars
<1> QED
  BY <1>1, <1>2, <1>2a, <1>3, <1>4, <1>5, <1>6, <1>7, AnsweredStays DEF Next

\* What the refinement mapping makes of a step.
Calls == [d \in Dispatches |-> message[d].calls]

Verdicts == [d \in Dispatches |-> Verdict(row[d].status)]

LEMMA MappedStep ==
  Delivery!DeliveryNext \/ UNCHANGED <<Calls, Verdicts>>
    => [Delivery!DeliveryNext]_(Delivery!deliveryVars)
  BY DEF Delivery!deliveryVars, Calls, Verdicts

LEMMA SameDelivery ==
  ASSUME \A d \in Dispatches : /\ message'[d].calls = message[d].calls
                               /\ Verdict(row'[d].status) = Verdict(row[d].status)
  PROVE  [Delivery!DeliveryNext]_(Delivery!deliveryVars)
<1>1. Calls' = Calls /\ Verdicts' = Verdicts
  BY DEF Calls, Verdicts
<1> QED
  BY <1>1, MappedStep

LEMMA HandedOver ==
  ASSUME NEW d \in Dispatches, message[d].calls = 0, message'[d].calls = 1,
         \A e \in Dispatches \ {d} : message'[e] = message[e],
         row' = row, Verdict(row[d].status) \in {"open", "failed"}
  PROVE  [Delivery!DeliveryNext]_(Delivery!deliveryVars)
<1>1. Calls' = [Calls EXCEPT ![d] = 1] /\ Calls[d] = 0
  BY DEF Calls
<1>2. Verdicts' = Verdicts /\ Verdicts[d] \in {"open", "failed"}
  BY DEF Verdicts
<1>3. Delivery!HandOver(d)
  BY <1>1, <1>2 DEF Delivery!HandOver, Calls, Verdicts
<1> QED
  BY <1>3, MappedStep DEF Delivery!DeliveryNext

LEMMA Concluded ==
  ASSUME NEW S \in SUBSET Dispatches, NEW v \in {"sent", "cancelled", "failed"},
         message' = message,
         \A d \in S : Verdict(row[d].status) = "open" /\ Verdict(row'[d].status) = v,
         \A d \in Dispatches \ S : Verdict(row'[d].status) = Verdict(row[d].status),
         v = "sent" => \A d \in S : message[d].calls = 1,
         v = "cancelled" => \A d \in S : message[d].calls = 0
  PROVE  [Delivery!DeliveryNext]_(Delivery!deliveryVars)
<1>1. Verdicts' = [d \in Dispatches |-> IF d \in S THEN v ELSE Verdicts[d]]
  BY DEF Verdicts
<1>2. Calls' = Calls /\ \A d \in S : Verdicts[d] = "open"
  BY DEF Calls, Verdicts
<1>3. /\ v = "sent" => \A d \in S : Calls[d] = 1
      /\ v = "cancelled" => \A d \in S : Calls[d] = 0
  BY DEF Calls
<1>4. Delivery!Conclude(S, v)
  BY <1>1, <1>2, <1>3 DEF Delivery!Conclude, Calls, Verdicts
<1> QED
  BY <1>4, MappedStep DEF Delivery!DeliveryNext

\* A step that writes one row, and no verdict over another.
LEMMA OneVerdict ==
  ASSUME NEW d \in Dispatches, UNCHANGED message,
         \A e \in Dispatches \ {d} : row'[e] = row[e],
         Verdict(row[d].status) = "open",
         Verdict(row'[d].status) \in {"open", "sent", "failed"},
         Verdict(row'[d].status) = "sent" => message[d].calls = 1
  PROVE  [Delivery!DeliveryNext]_(Delivery!deliveryVars)
<1>1. CASE Verdict(row'[d].status) = "open"
  BY <1>1, SameDelivery
<1>2. CASE Verdict(row'[d].status) # "open"
  <2>1. PICK v \in {"sent", "cancelled", "failed"} : v = Verdict(row'[d].status) /\ v # "cancelled"
    BY <1>2
  <2>2. PICK S \in SUBSET Dispatches : S = {d}
    OBVIOUS
  <2> QED
    BY <2>1, <2>2, Concluded
<1> QED
  BY <1>1, <1>2

\* The row of a live claim has no verdict.
Busy == {"claimed", "submitting", "submitted", "polling"}

LEMMA BusyIsOpen == \A s \in Busy \cup {"absent", "queued"} : Verdict(s) = "open"
  BY DEF Busy, Verdict

LEMMA TransitionedStatus ==
  ASSUME DispatchInv, NEW d \in Dispatches, NEW to, NEW pid, NEW next, NEW err
  PROVE  Transitioned(d, to, pid, next, err).status = to
  BY OfRow DEF Transitioned, Row

\* The ledger refuses a call of worker w, or writes the transition of d.
Transits(w, d, to) ==
    /\ UNCHANGED message
    /\ \/ row' = row
       \/ /\ CanWrite(w, d, to)
          /\ \E pid, next, err : row' = [row EXCEPT ![d] = Transitioned(d, to, pid, next, err)]

LEMMA TransitVerdict ==
  ASSUME DispatchInv, NEW w \in Workers, NEW d \in Dispatches,
         NEW to \in {"submitting", "submitted", "polling", "failed", "succeeded"},
         Transits(w, d, to), to = "succeeded" => message[d].calls = 1
  PROVE  [Delivery!DeliveryNext]_(Delivery!deliveryVars)
<1>1. CASE row' = row
  BY <1>1, SameDelivery DEF Transits
<1>2. ASSUME CanWrite(w, d, to), NEW pid, NEW next, NEW err,
             row' = [row EXCEPT ![d] = Transitioned(d, to, pid, next, err)]
      PROVE  [Delivery!DeliveryNext]_(Delivery!deliveryVars)
  <2>1. row[d].status \in Busy
    BY <1>2 DEF CanWrite, CanTransition, Busy
  <2>2. row'[d].status = to /\ \A e \in Dispatches \ {d} : row'[e] = row[e]
    BY <1>2, TransitionedStatus, Typed
  <2>3. Verdict(row[d].status) = "open"
    BY <2>1, BusyIsOpen
  <2>4. /\ Verdict(to) \in {"open", "sent", "failed"}
        /\ Verdict(to) = "sent" => to = "succeeded"
    BY DEF Verdict
  <2> QED
    BY <2>2, <2>3, <2>4, OneVerdict DEF Transits
<1> QED
  BY <1>1, <1>2 DEF Transits

\* A worker that goes to another place, and writes no row.
LEMMA RowsStay ==
  ASSUME row' = row, UNCHANGED message
  PROVE  [Delivery!DeliveryNext]_(Delivery!deliveryVars)
  BY SameDelivery

LEMMA ClaimVerdict ==
  ASSUME DispatchInv, NEW w \in Workers, Claim(w)
  PROVE  [Delivery!DeliveryNext]_(Delivery!deliveryVars)
<1>1. PICK d \in Dispatches : d = work[w].d
  BY OfWorker
<1>2. /\ UNCHANGED message
      /\ row' = row \/ (DueRow(row[d]) /\ row' = [row EXCEPT ![d] = Claimed(w, d)])
  BY <1>1, Zenon DEF Claim, Ledger
<1>3. CASE row' = row
  BY <1>2, <1>3, RowsStay
<1>4. CASE DueRow(row[d]) /\ row' = [row EXCEPT ![d] = Claimed(w, d)]
  <2>1. PICK r \in Row : r = row[d] /\ RowOK(r, message[d], recorded[d]) /\ DueRow(r)
    BY <1>4, OfRow
  <2>2. r.status \in Busy \cup {"queued"}
    BY <2>1 DEF DueRow, RowOK, IsRetryable, Busy
  <2>3. Claimed(w, d).status \in Busy
    BY <2>1, <2>2 DEF Claimed, Row, Busy
  <2>4. row'[d] = Claimed(w, d) /\ \A e \in Dispatches \ {d} : row'[e] = row[e]
    BY <1>4, Typed
  <2> QED
    BY <1>2, <2>1, <2>2, <2>3, <2>4, BusyIsOpen, OneVerdict
<1> QED
  BY <1>2, <1>3, <1>4

LEMMA ReconcileVerdict ==
  ASSUME DispatchInv, NEW w \in Workers, Reconcile(w)
  PROVE  [Delivery!DeliveryNext]_(Delivery!deliveryVars)
<1>1. PICK d \in Dispatches : d = work[w].d
  BY OfWorker
<1>2. /\ UNCHANGED message
      /\ \/ row' = row
         \/ CanReconcile(w, d) /\ row' = [row EXCEPT ![d] = ReconcileRow(d, work[w].pid)]
  BY <1>1, Zenon DEF Reconcile, Ledger
<1>3. CASE row' = row
  BY <1>2, <1>3, RowsStay
<1>4. CASE CanReconcile(w, d) /\ row' = [row EXCEPT ![d] = ReconcileRow(d, work[w].pid)]
  <2>1. PICK r \in Row : r = row[d] /\ r.status \in {"submitting", "submitted", "polling"}
    BY <1>4, OfRow DEF CanReconcile
  <2>2. ReconcileRow(d, work[w].pid).status \in Busy
    BY <2>1 DEF ReconcileRow, Row, Busy
  <2>3. /\ row'[d] = ReconcileRow(d, work[w].pid)
        /\ \A e \in Dispatches \ {d} : row'[e] = row[e]
    BY <1>4, Typed
  <2>4. row[d].status \in Busy
    BY <2>1 DEF Busy
  <2> QED
    BY <1>2, <2>2, <2>3, <2>4, BusyIsOpen, OneVerdict
<1> QED
  BY <1>2, <1>3, <1>4

\* A worker may record a success only of a message WeCom was given.
LEMMA FinishedWasHanded ==
  ASSUME DispatchInv, Answered, NEW w \in Workers, work[w].pc = "results"
  PROVE  message[work[w].d].calls = 1
<1>1. PICK d \in Dispatches : d = work[w].d
  BY OfWorker
<1>2. message[d].done
  BY <1>1, OfWorker DEF WorkerOK, Recording
<1>3. message[d].calls # 0 /\ message[d].calls <= 1 /\ message[d].calls \in Nat
  BY <1>2, OfRow DEF Answered, RowOK, Message
<1> QED
  BY <1>1, <1>3

LEMMA TransitionsVerdict ==
  ASSUME DispatchInv, Answered, NEW w \in Workers,
         \/ StartSubmit(w) \/ Record(w) \/ Fail(w) \/ Wait(w) \/ Retry(w) \/ ToPolling(w)
         \/ Finish(w)
  PROVE  [Delivery!DeliveryNext]_(Delivery!deliveryVars)
<1>1. PICK d \in Dispatches : d = work[w].d
  BY OfWorker
<1>2. CASE StartSubmit(w)
  <2>1. PICK none : none = ""
    BY Zenon
  <2>2. /\ UNCHANGED message
        /\ \/ row' = row
           \/ /\ CanWrite(w, d, "submitting")
              /\ row' = [row EXCEPT ![d] = Transitioned(d, "submitting", FALSE, "null", none)]
    BY <1>1, <1>2, <2>1, Zenon DEF StartSubmit, Ledger
  <2>3. Transits(w, d, "submitting")
    BY <2>2 DEF Transits
  <2> QED
    BY <2>3, TransitVerdict
<1>3. CASE Record(w)
  <2>1. Transits(w, d, "submitted")
    <3>1. /\ UNCHANGED message
          /\ \/ row' = row
             \/ /\ CanWrite(w, d, "submitted")
                /\ row' = [row EXCEPT ![d] = Transitioned(d, "submitted", TRUE, "null", "")]
      BY <1>1, <1>3, Zenon DEF Record, Ledger
    <3> QED
      BY <3>1, Zenon DEF Transits
  <2> QED
    BY <2>1, TransitVerdict
<1>4. CASE Fail(w)
  <2>1. Transits(w, d, "failed")
    <3>1. /\ UNCHANGED message
          /\ \/ row' = row
             \/ /\ CanWrite(w, d, "failed")
                /\ row' = [row EXCEPT ![d] = Transitioned(d, "failed", FALSE, "null", "final")]
      BY <1>1, <1>4, Zenon DEF Fail, Ledger
    <3> QED
      BY <3>1 DEF Transits
  <2> QED
    BY <2>1, TransitVerdict
<1>5. CASE Wait(w) \/ ToPolling(w)
  <2>1. CASE Wait(w)
    <3>1. /\ UNCHANGED message
          /\ \/ row' = row
             \/ /\ CanWrite(w, d, "polling")
                /\ row' = [row EXCEPT ![d] = Transitioned(d, "polling", TRUE, "later", "")]
      BY <1>1, <2>1, Zenon DEF Wait, Ledger
    <3>2. Transits(w, d, "polling")
      BY <3>1, Zenon DEF Transits
    <3> QED
      BY <3>2, TransitVerdict
  <2>2. CASE ToPolling(w)
    <3>1. /\ UNCHANGED message
          /\ \/ row' = row
             \/ /\ CanWrite(w, d, "polling")
                /\ row' = [row EXCEPT ![d] = Transitioned(d, "polling", TRUE, "null", "")]
      BY <1>1, <2>2, Zenon DEF ToPolling, Ledger
    <3>2. Transits(w, d, "polling")
      BY <3>1, Zenon DEF Transits
    <3> QED
      BY <3>2, TransitVerdict
  <2> QED
    BY <1>5, <2>1, <2>2
<1>6. CASE Retry(w)
  <2>1. PICK to \in {"polling", "failed"} :
           to = IF work[w].status \in {"submitted", "polling"} THEN "polling" ELSE "failed"
    OBVIOUS
  <2>2. Transits(w, d, to)
    <3>1. /\ UNCHANGED message
          /\ \/ row' = row
             \/ /\ CanWrite(w, d, to)
                /\ row' = [row EXCEPT ![d] = Transitioned(d, to, FALSE, "later", "retry")]
      BY <1>1, <1>6, <2>1, Zenon DEF Retry, Ledger
    <3> QED
      BY <3>1 DEF Transits
  <2> QED
    BY <2>2, TransitVerdict
<1>7. CASE Finish(w)
  <2>1. Transits(w, d, "succeeded") /\ work[w].pc = "results"
    <3>1. /\ UNCHANGED message /\ work[w].pc = "results"
          /\ \/ row' = row
             \/ /\ CanWrite(w, d, "succeeded")
                /\ row' = [row EXCEPT ![d] = Transitioned(d, "succeeded", TRUE, "null", "")]
      BY <1>1, <1>7, Zenon DEF Finish, Ledger
    <3> QED
      BY <3>1, Zenon DEF Transits
  <2>2. message[d].calls = 1
    BY <1>1, <2>1, FinishedWasHanded
  <2> QED
    BY <2>1, <2>2, TransitVerdict
<1> QED
  BY <1>2, <1>3, <1>4, <1>5, <1>6, <1>7

\* The surroundings and a new batch write rows, and no verdict.
LEMMA ClockVerdict ==
  ASSUME DispatchInv, NEW d \in Dispatches,
         LeaseRunsOut(d) \/ RunOutlivesLease(d) \/ NextPollComes(d)
  PROVE  [Delivery!DeliveryNext]_(Delivery!deliveryVars)
<1>1. /\ UNCHANGED message
      /\ \/ row' = [row EXCEPT ![d].lease = "expired"]
         \/ row' = [row EXCEPT ![d].next = "due"]
  BY Zenon DEF LeaseRunsOut, RunOutlivesLease, NextPollComes
<1>2. PICK r \in Row : r = row[d]
  BY OfRow
<1>3. row'[d] = [r EXCEPT !.lease = "expired"] \/ row'[d] = [r EXCEPT !.next = "due"]
  BY <1>1, <1>2, Typed
<1>4. row'[d].status = r.status
  BY <1>3 DEF Row
<1>5. \A e \in Dispatches \ {d} : row'[e] = row[e]
  BY <1>1, Typed
<1> QED
  BY <1>1, <1>2, <1>4, <1>5, SameDelivery

LEMMA CreateVerdict ==
  ASSUME DispatchInv, NEW o \in Operations, Create(o)
  PROVE  [Delivery!DeliveryNext]_(Delivery!deliveryVars)
<1>1. /\ UNCHANGED message /\ op[o].status = "absent"
      /\ row' = [d \in Dispatches |->
                   IF d \in ChunksOf(o) THEN [NewRow EXCEPT !.status = "queued"] ELSE row[d]]
  BY Zenon DEF Create
<1>2. [NewRow EXCEPT !.status = "queued"].status = "queued"
  BY DEF NewRow
<1>3. \A d \in ChunksOf(o) : row[d].status = "absent"
  BY <1>1 DEF ChunksOf, DispatchInv, ChunksFollow
<1>4. Verdict("absent") = "open" /\ Verdict("queued") = "open"
  BY DEF Verdict
<1>5. ASSUME NEW d \in Dispatches PROVE Verdict(row'[d].status) = Verdict(row[d].status)
  <2>1. CASE d \in ChunksOf(o)
    BY <1>1, <1>2, <1>3, <1>4, <2>1
  <2>2. CASE d \notin ChunksOf(o)
    BY <1>1, <2>2
  <2> QED
    BY <2>1, <2>2
<1> QED
  BY <1>1, <1>5, SameDelivery

\* A cancellation concludes all the chunks of its batch, none of which was handed
\* over.
LEMMA CancelVerdict ==
  ASSUME DispatchInv, NEW o \in Operations, Cancel(o)
  PROVE  [Delivery!DeliveryNext]_(Delivery!deliveryVars)
<1>1. /\ UNCHANGED message /\ \A d \in ChunksOf(o) : row[d].status = "queued"
      /\ row' = [d \in Dispatches |->
                   IF d \in ChunksOf(o)
                   THEN [NewRow EXCEPT !.status = "cancelled", !.err = "final"] ELSE row[d]]
  BY Zenon DEF Cancel
<1>2. [NewRow EXCEPT !.status = "cancelled", !.err = "final"].status = "cancelled"
  BY DEF NewRow
<1>3. ChunksOf(o) \in SUBSET Dispatches
  BY DEF ChunksOf
<1>4. \A d \in ChunksOf(o) : row'[d].status = "cancelled" /\ message[d].calls = 0
  <2>1. \A d \in ChunksOf(o) : row'[d].status = "cancelled"
    BY <1>1, <1>2, <1>3
  <2> QED
    BY <1>1, <1>3, <2>1, RowsOfDispatch DEF RowOK, Unsent
<1>5. Verdict("queued") = "open" /\ Verdict("cancelled") = "cancelled"
  BY DEF Verdict
<1>6. \A d \in Dispatches \ ChunksOf(o) : Verdict(row'[d].status) = Verdict(row[d].status)
  BY <1>1
<1>7. \A d \in ChunksOf(o) : /\ Verdict(row[d].status) = "open"
                             /\ Verdict(row'[d].status) = "cancelled"
  BY <1>1, <1>4, <1>5
<1> QED
  BY <1>1, <1>3, <1>4, <1>6, <1>7, Concluded

\* The process that stalls before its call may make it after another process
\* failed the chunk, and never after a success.
LEMMA SendHandsOver ==
  ASSUME DispatchInv, Answered, NEW w \in Workers, Send(w)
  PROVE  [Delivery!DeliveryNext]_(Delivery!deliveryVars)
<1>1. PICK d \in Dispatches :
         /\ row[d].status \notin Unsent /\ message[d].calls = 0 /\ message'[d].calls = 1
         /\ \A e \in Dispatches \ {d} : message'[e] = message[e]
         /\ row' = row
  BY SendCalls
<1>2. row[d].status \in Statuses /\ row[d].status # "succeeded" /\ row[d].status # "cancelled"
  BY <1>1, OfRow DEF Row, RowOK, Reached, Answered, Unsent
<1>3. Verdict(row[d].status) \in {"open", "failed"}
  BY <1>2 DEF Verdict
<1> QED
  BY <1>1, <1>3, HandedOver

LEMMA DeliveryStep ==
  DispatchInv /\ Answered /\ [Next]_vars => [Delivery!DeliveryNext]_(Delivery!deliveryVars)
<1> SUFFICES ASSUME DispatchInv, Answered, [Next]_vars
             PROVE  [Delivery!DeliveryNext]_(Delivery!deliveryVars)
  OBVIOUS
<1>1. ASSUME NEW w \in Workers, Run(w)
      PROVE  [Delivery!DeliveryNext]_(Delivery!deliveryVars)
  <2>1. CASE \/ Preclaim(w) \/ Authorize(w) \/ Payload(w)
             \/ \E t \in Targets : RecordResult(w, t)
    <3>1. row' = row /\ UNCHANGED message
      BY <2>1, Zenon DEF Preclaim, Authorize, Payload, RecordResult
    <3> QED
      BY <3>1, RowsStay
  <2>2. CASE Poll(w)
    BY <2>2, PollAnswers, SameDelivery
  <2> QED
    BY <1>1, <2>1, <2>2, ClaimVerdict, ReconcileVerdict, TransitionsVerdict, SendHandsOver DEF Run
<1>2. ASSUME NEW w \in Workers, Crash(w) \/ \E d \in Dispatches : Pick(w, d)
      PROVE  [Delivery!DeliveryNext]_(Delivery!deliveryVars)
  <2>1. row' = row /\ UNCHANGED message
    BY <1>2, Zenon DEF Crash, Pick
  <2> QED
    BY <2>1, RowsStay
<1>3. ASSUME NEW d \in Dispatches,
             \/ LeaseRunsOut(d) \/ RunOutlivesLease(d) \/ NextPollComes(d)
             \/ Deliver(d) \/ DeliverLate(d) \/ ListMore(d)
      PROVE  [Delivery!DeliveryNext]_(Delivery!deliveryVars)
  <2>1. CASE Deliver(d) \/ DeliverLate(d) \/ ListMore(d)
    BY <2>1, MoreAnswers, SameDelivery
  <2> QED
    BY <1>3, <2>1, ClockVerdict
<1>4. ASSUME RotateCredential \/ Withdraw \/ Restore \/ UNCHANGED vars
      PROVE  [Delivery!DeliveryNext]_(Delivery!deliveryVars)
  <2>1. row' = row /\ UNCHANGED message
    BY <1>4, Zenon DEF RotateCredential, Withdraw, Restore, vars
  <2> QED
    BY <2>1, RowsStay
<1> QED
  BY <1>1, <1>2, <1>3, <1>4, CreateVerdict, CancelVerdict DEF Next

\* Refinement: the rows, the leases, the polls and the requests of the dashboard
\* implement one hand-over per chunk and one final verdict on it.
THEOREM BatchImplementsDelivery == Spec => ImplementsDelivery
<1>1. Init => Delivery!DeliveryInit
  <2> SUFFICES ASSUME Init PROVE Delivery!DeliveryInit
    OBVIOUS
  <2>1. \A d \in Dispatches : message[d].calls = 0 /\ row[d].status = "absent"
    <3>1. \A d \in Dispatches : message[d].calls = 0 /\ row[d] = NewRow
      BY DEF Init, NewMessage
    <3>2. NewRow.status = "absent"
      BY DEF NewRow
    <3> QED
      BY <3>1, <3>2
  <2>2. Verdict("absent") = "open"
    BY DEF Verdict
  <2> QED
    BY <2>1, <2>2 DEF Delivery!DeliveryInit
<1>2. Spec => []Answered
  BY AnsweredInit, AnsweredNext, DispatchSafe, PTL DEF Spec
<1> QED
  BY <1>1, <1>2, DispatchSafe, DeliveryStep, PTL
  DEF Spec, ImplementsDelivery, Delivery!DeliverySpec

================================================================================
