--------------------------- MODULE ArchiveSyncProofs ---------------------------
(***************************************************************************)
(* Proofs about the durable synchronisation of the archive, for any number *)
(* of workers, schedulers, users, rows and messages.                       *)
(***************************************************************************)
EXTENDS ArchiveSync, FiniteSetTheorems, WellFoundedInduction, TLAPS

Run == [status : {"none", "queued", "running", "succeeded", "failed"},
        kind : {"none", "poll", "manual"}, start : 0 .. MaxSeq, cursor : 0 .. MaxSeq,
        holder : Workers \cup {NoWorker}, expired : BOOLEAN, due : 0 .. MaxSeq]

PCs == {"idle", "take", "start", "beat", "fetch", "store", "save", "finish", "fail"}

Item == [pc : PCs, todo : SUBSET RunIds, run : RunIds, cursor : 0 .. MaxSeq,
         next : 1 .. MaxSeq + 1, last : 0 .. MaxSeq]

Asking == [pc : {"idle", "cursor", "probe", "add"}, cursor : 0 .. MaxSeq]

TypeInv ==
    /\ arrived \in 0 .. MaxSeq
    /\ known \subseteq 1 .. MaxSeq
    /\ stored \subseteq 1 .. MaxSeq
    /\ runs \in [RunIds -> Run]
    /\ wk \in [Workers -> Item]
    /\ enq \in [Enqueuers -> Asking]
    /\ faults \in 0 .. MaxFaults

\* A row, when n messages have arrived and those in S are stored.
RunOK(x, n, S) ==
    /\ x.due <= n
    /\ 1 .. x.cursor \subseteq S
    /\ x.status = "succeeded" => 1 .. x.due \subseteq S

Active == {"start", "beat", "fetch", "store", "save", "finish", "fail"}

\* A worker and its row: the messages before the one it is at are stored, and
\* a page that will be taken for the last one reaches what the row owes.
ItemOK(q, x, n, S) ==
    /\ 1 .. q.cursor \subseteq S
    /\ q.pc \in Active => x.status # "none"
    /\ q.pc \in {"store", "save"} =>
         q.cursor < q.last /\ q.last <= n /\ (q.last - q.cursor < Limit => x.due <= q.last)
    /\ q.pc = "store" => q.cursor < q.next /\ q.next <= q.last /\ 1 .. (q.next - 1) \subseteq S
    /\ q.pc = "save" => 1 .. q.last \subseteq S
    /\ q.pc = "finish" => x.due <= q.cursor

LedgerBacked == \A r \in RunIds : RunOK(runs[r], arrived, stored)

ItemsBacked == \A w \in Workers : ItemOK(wk[w], runs[wk[w].run], arrived, stored)

\* The cursor a scheduler or a request has read, and will write into a new row.
AskersBacked == \A e \in Enqueuers : 1 .. enq[e].cursor \subseteq stored

ArchiveInv == TypeInv /\ LedgerBacked /\ ItemsBacked /\ AskersBacked

--------------------------------------------------------------------------------
(* The operators.                                                          *)

LEMMA NatMin ==
  ASSUME NEW S \in SUBSET Nat, S # {}
  PROVE  Min(S) \in S /\ \A y \in S : Min(S) <= y
<1>1. PICK R : R = {ss \in Nat \X Nat : ss[1] < ss[2]}
  OBVIOUS
<1>2. IsWellFoundedOn(R, Nat)
  BY <1>1, NatLessThanWellFounded, Zenon DEF OpToRel
<1>3. S \subseteq Nat
  OBVIOUS
<1>4. PICK x \in S : \A y \in S : ~(<<y, x>> \in R)
  BY <1>2, <1>3, WFMin, Zenon
<1>5. \A y \in S : x =< y
  <2> SUFFICES ASSUME NEW y \in S PROVE x =< y
    OBVIOUS
  <2>1. x \in Nat /\ y \in Nat /\ ~(<<y, x>> \in R)
    BY <1>4
  <2>2. y < x => <<y, x>> \in R
    BY <1>1, <2>1
  <2> QED
    BY <2>1, <2>2
<1>6. \E z \in S : \A y \in S : z =< y
  BY <1>5
<1> QED
  BY <1>6 DEF Min

LEMMA BoundedMax ==
  ASSUME NEW N \in Nat, NEW S \in SUBSET (0 .. N), S # {}
  PROVE  Max(S) \in S
<1>1. PICK T : T = {N - x : x \in S}
  OBVIOUS
<1>2. T \in SUBSET Nat /\ T # {}
  <2>1. ASSUME NEW t \in T PROVE t \in Nat
    <3>1. PICK x \in S : t = N - x
      BY <1>1
    <3> QED
      BY <3>1
  <2>2. PICK x \in S : TRUE
    OBVIOUS
  <2>3. N - x \in T
    BY <1>1, <2>2
  <2> QED
    BY <2>1, <2>3
<1>3. Min(T) \in T /\ \A y \in T : Min(T) <= y
  BY <1>2, NatMin
<1>4. PICK x \in S : Min(T) = N - x
  BY <1>1, <1>3
<1>5. ASSUME NEW y \in S PROVE x >= y
  <2>1. N - y \in T
    BY <1>1
  <2>2. N - x <= N - y
    BY <1>3, <1>4, <2>1
  <2> QED
    BY <2>2
<1>6. \E z \in S : \A y \in S : z >= y
  BY <1>5
<1> QED
  BY <1>6 DEF Max

LEMMA MinOfTwo ==
  ASSUME NEW a \in Int, NEW b \in Int
  PROVE  Min({a, b}) \in {a, b} /\ Min({a, b}) <= a /\ Min({a, b}) <= b
<1>1. \E x \in {a, b} : \A y \in {a, b} : x =< y
  BY a <= b \/ b <= a
<1> QED
  BY <1>1 DEF Min

LEMMA FreeHasMin ==
  ASSUME Free # {}
  PROVE  Min(Free) \in RunIds /\ runs[Min(Free)].status = "none"
<1>1. Free \in SUBSET Nat
  BY DEF Free, RunIds
<1>2. Min(Free) \in Free
  BY <1>1, NatMin
<1> QED
  BY <1>2 DEF Free, Used

--------------------------------------------------------------------------------

LEMMA Typed ==
  ASSUME ArchiveInv
  PROVE  /\ arrived \in 0 .. MaxSeq
         /\ known \subseteq 1 .. MaxSeq
         /\ stored \subseteq 1 .. MaxSeq
         /\ runs \in [RunIds -> Run]
         /\ wk \in [Workers -> Item]
         /\ enq \in [Enqueuers -> Asking]
         /\ faults \in 0 .. MaxFaults
  BY DEF ArchiveInv, TypeInv

LEMMA OfWorker ==
  ASSUME ArchiveInv, NEW w \in Workers
  PROVE  /\ wk[w] \in Item
         /\ wk[w].run \in RunIds
         /\ runs[wk[w].run] \in Run
         /\ ItemOK(wk[w], runs[wk[w].run], arrived, stored)
         /\ RunOK(runs[wk[w].run], arrived, stored)
<1>1. wk[w] \in Item
  BY Typed
<1>2. wk[w].run \in RunIds
  BY <1>1 DEF Item
<1> QED
  BY <1>1, <1>2, Typed DEF ArchiveInv, ItemsBacked, LedgerBacked

LEMMA RestingOK ==
  /\ Resting \in Item /\ Resting.cursor = 0 /\ Resting.pc = "idle"
  /\ \A x, n, S : ItemOK(Resting, x, n, S)
<1>1. Resting \in Item
  BY ArchiveAssumption DEF Resting, Item, PCs, RunIds
<1> QED
  BY <1>1 DEF Resting, ItemOK, Active

LEMMA ArchiveInit == Init => ArchiveInv
<1> SUFFICES ASSUME Init PROVE ArchiveInv
  OBVIOUS
<1>1. NoRun \in Run /\ NoRun.due = 0 /\ NoRun.cursor = 0 /\ NoRun.status = "none"
  BY ArchiveAssumption DEF NoRun, Run
<1>2. NotAsking \in Asking /\ NotAsking.cursor = 0
  BY ArchiveAssumption DEF NotAsking, Asking
<1>3. TypeInv
  BY <1>1, <1>2, RestingOK, ArchiveAssumption DEF Init, TypeInv
<1>4. LedgerBacked
  BY <1>1 DEF Init, LedgerBacked, RunOK
<1>5. ItemsBacked
  BY RestingOK DEF Init, ItemsBacked
<1>6. AskersBacked
  BY <1>2 DEF Init, AskersBacked
<1> QED
  BY <1>3, <1>4, <1>5, <1>6 DEF ArchiveInv

\* What a worker knows stays true while messages arrive and are stored, and
\* its row neither vanishes nor comes to owe more.
LEMMA ItemStays ==
  ASSUME NEW q \in Item, NEW x \in Run, NEW y \in Run,
         NEW m \in Nat, NEW n \in Nat, m <= n, NEW S, NEW T, S \subseteq T,
         ItemOK(q, x, m, S),
         x.status # "none" => y.status # "none" /\ y.due = x.due
  PROVE  ItemOK(q, y, n, T)
<1>1. 1 .. q.cursor \subseteq T
  BY DEF ItemOK
<1>2. q.pc \in Active => y.status # "none" /\ y.due = x.due
  BY DEF ItemOK
<1>3. q.pc \in {"store", "save"} =>
        q.cursor < q.last /\ q.last <= n /\ (q.last - q.cursor < Limit => y.due <= q.last)
  BY <1>2 DEF ItemOK, Active, Item
<1>4. q.pc = "store" => q.cursor < q.next /\ q.next <= q.last /\ 1 .. (q.next - 1) \subseteq T
  BY DEF ItemOK
<1>5. q.pc = "save" => 1 .. q.last \subseteq T
  BY DEF ItemOK
<1>6. q.pc = "finish" => y.due <= q.cursor
  BY <1>2 DEF ItemOK, Active
<1> QED
  BY <1>1, <1>2, <1>3, <1>4, <1>5, <1>6 DEF ItemOK

\* A step that writes at most one row and one worker.
LEMMA StepKeeps ==
  ASSUME ArchiveInv,
         NEW w \in Workers, NEW q \in Item, wk' = [wk EXCEPT ![w] = q],
         NEW r \in RunIds, NEW x \in Run, runs' = [runs EXCEPT ![r] = x],
         RunOK(x, arrived, stored'),
         runs[r].status # "none" => x.status # "none" /\ x.due = runs[r].due,
         ItemOK(q, runs'[q.run], arrived, stored'),
         stored \subseteq stored', stored' \subseteq 1 .. MaxSeq,
         UNCHANGED <<arrived, known, enq>>, faults' \in 0 .. MaxFaults
  PROVE  ArchiveInv'
<1>1. \A s \in RunIds : runs'[s] = IF s = r THEN x ELSE runs[s]
  BY Typed
<1>2. \A v \in Workers : wk'[v] = IF v = w THEN q ELSE wk[v]
  BY Typed
<1>3. arrived \in Nat
  BY Typed
<1>4. TypeInv'
  BY Typed DEF TypeInv
<1>5. LedgerBacked'
  <2>1. ASSUME NEW s \in RunIds PROVE RunOK(runs'[s], arrived, stored')
    <3>1. runs[s] \in Run /\ RunOK(runs[s], arrived, stored)
      BY Typed DEF ArchiveInv, LedgerBacked
    <3>2. RunOK(runs[s], arrived, stored')
      BY <3>1 DEF RunOK
    <3> QED
      BY <1>1, <3>2
  <2> QED
    BY <2>1 DEF LedgerBacked
<1>6. ItemsBacked'
  <2>1. ASSUME NEW v \in Workers, v # w
        PROVE  ItemOK(wk[v], runs'[wk[v].run], arrived, stored')
    <3>1. PICK k \in RunIds : k = wk[v].run
      BY OfWorker
    <3>2. PICK y \in Run : y = runs'[k]
      BY <1>1, Typed
    <3>3. runs[k].status # "none" => y.status # "none" /\ y.due = runs[k].due
      BY <1>1, <3>2
    <3>4. wk[v] \in Item /\ runs[k] \in Run /\ ItemOK(wk[v], runs[k], arrived, stored)
      BY <3>1, OfWorker
    <3> QED
      BY <1>3, <3>1, <3>2, <3>3, <3>4, ItemStays
  <2>2. ASSUME NEW v \in Workers PROVE ItemOK(wk'[v], runs'[wk'[v].run], arrived, stored')
    BY <1>2, <2>1
  <2> QED
    BY <2>2 DEF ItemsBacked
<1>7. AskersBacked'
  BY DEF ArchiveInv, AskersBacked
<1> QED
  BY <1>4, <1>5, <1>6, <1>7 DEF ArchiveInv
\* A step that writes one worker and no row.
LEMMA WorkerKeeps ==
  ASSUME ArchiveInv, NEW w \in Workers, NEW q \in Item, wk' = [wk EXCEPT ![w] = q],
         ItemOK(q, runs[q.run], arrived, stored'), UNCHANGED runs,
         stored \subseteq stored', stored' \subseteq 1 .. MaxSeq,
         UNCHANGED <<arrived, known, enq>>, faults' \in 0 .. MaxFaults
  PROVE  ArchiveInv'
<1>1. PICK r \in RunIds : r = wk[w].run
  BY OfWorker
<1>2. PICK x \in Run : x = runs[r] /\ RunOK(x, arrived, stored)
  BY <1>1, OfWorker
<1>3. runs' = [runs EXCEPT ![r] = x]
  BY <1>2, Typed
<1>4. RunOK(x, arrived, stored')
  BY <1>2 DEF RunOK
<1> QED
  BY <1>2, <1>3, <1>4, StepKeeps

LEMMA FaultTyped ==
  ASSUME ArchiveInv
  PROVE  /\ UNCHANGED faults => faults' \in 0 .. MaxFaults
         /\ Fault => faults' \in 0 .. MaxFaults
  BY Typed, ArchiveAssumption DEF Fault

\* A step that writes neither the ledger nor a worker.
LEMMA AskKeeps ==
  ASSUME ArchiveInv, UNCHANGED <<known, stored, runs, wk>>, arrived <= arrived',
         arrived' \in 0 .. MaxSeq, enq' \in [Enqueuers -> Asking],
         \A e \in Enqueuers : 1 .. enq'[e].cursor \subseteq stored,
         faults' \in 0 .. MaxFaults
  PROVE  ArchiveInv'
<1>1. arrived \in Nat /\ arrived' \in Nat
  BY Typed
<1>2. TypeInv'
  BY Typed DEF TypeInv
<1>3. LedgerBacked'
  <2>1. ASSUME NEW s \in RunIds PROVE RunOK(runs[s], arrived', stored)
    <3>1. runs[s] \in Run /\ RunOK(runs[s], arrived, stored)
      BY Typed DEF ArchiveInv, LedgerBacked
    <3>2. runs[s].due \in Nat
      BY <3>1 DEF Run
    <3> QED
      BY <1>1, <3>1, <3>2 DEF RunOK
  <2> QED
    BY <2>1 DEF LedgerBacked
<1>4. ItemsBacked'
  <2>1. ASSUME NEW v \in Workers PROVE ItemOK(wk[v], runs[wk[v].run], arrived', stored)
    <3>1. PICK x \in Run : x = runs[wk[v].run]
      BY OfWorker
    <3>2. wk[v] \in Item /\ ItemOK(wk[v], x, arrived, stored)
      BY <3>1, OfWorker
    <3>3. stored \subseteq stored /\ (x.status # "none" => x.status # "none" /\ x.due = x.due)
      OBVIOUS
    <3> QED
      BY <1>1, <3>1, <3>2, <3>3, ItemStays
  <2> QED
    BY <2>1 DEF ItemsBacked
<1>5. AskersBacked'
  BY DEF AskersBacked
<1> QED
  BY <1>2, <1>3, <1>4, <1>5 DEF ArchiveInv

\* The end of an item, whatever became of its row.
LEMMA NextItemSteps ==
  ASSUME ArchiveInv, NEW w \in Workers, NextItem(w)
  PROVE  \E q \in Item : wk' = [wk EXCEPT ![w] = q] /\ \A x, n, S : ItemOK(q, x, n, S)
<1>1. CASE wk[w].todo = {}
  BY <1>1, RestingOK DEF NextItem
<1>2. CASE wk[w].todo # {}
  <2>1. wk[w].todo \in SUBSET RunIds
    BY OfWorker DEF Item
  <2>2. PICK q \in Item : q = [Resting EXCEPT !.pc = "take", !.todo = wk[w].todo]
    BY <2>1, RestingOK DEF Item, PCs
  <2>3. q.pc = "take" /\ q.cursor = 0
    BY <2>2, RestingOK DEF Item
  <2>4. \A x, n, S : ItemOK(q, x, n, S)
    BY <2>3 DEF ItemOK, Active
  <2>5. wk' = [wk EXCEPT ![w] = q]
    BY <1>2, <2>2 DEF NextItem
  <2> QED
    BY <2>4, <2>5
<1> QED
  BY <1>1, <1>2

\* A step to another stage outside a page.
LEMMA ToSteps ==
  ASSUME ArchiveInv, NEW w \in Workers, NEW pc \in {"beat", "fetch", "fail"}, To(w, pc),
         wk[w].pc \in Active
  PROVE  \E q \in Item : /\ wk' = [wk EXCEPT ![w] = q] /\ q.run = wk[w].run
                         /\ \A x, n, S : x.status # "none" /\ 1 .. wk[w].cursor \subseteq S
                                           => ItemOK(q, x, n, S)
<1>1. PICK q \in Item : q = [wk[w] EXCEPT !.pc = pc, !.next = 1, !.last = 0]
  <2>1. pc \in PCs /\ 1 \in 1 .. MaxSeq + 1 /\ 0 \in 0 .. MaxSeq
    BY ArchiveAssumption DEF PCs
  <2> QED
    BY <2>1, OfWorker DEF Item
<1>2. q.pc = pc /\ q.run = wk[w].run /\ q.cursor = wk[w].cursor
  BY <1>1, OfWorker DEF Item
<1>3. wk' = [wk EXCEPT ![w] = q]
  BY <1>1, Typed DEF To
<1>4. \A x, n, S : x.status # "none" /\ 1 .. wk[w].cursor \subseteq S => ItemOK(q, x, n, S)
  BY <1>2 DEF ItemOK
<1> QED
  BY <1>2, <1>3, <1>4

\* A worker that gives up its row fails it in its next step; a row in work is
\* in the ledger.
LEMMA OfActive ==
  ASSUME ArchiveInv, NEW w \in Workers, wk[w].pc \in Active
  PROVE  /\ runs[wk[w].run].status # "none"
         /\ 1 .. wk[w].cursor \subseteq stored
  BY OfWorker DEF ItemOK
--------------------------------------------------------------------------------
(* The world.                                                              *)

LEMMA ArriveKeeps ==
  ASSUME ArchiveInv, Arrive
  PROVE  ArchiveInv'
<1>1. UNCHANGED <<known, stored, runs, wk, enq, faults>> /\ arrived' = arrived + 1
  BY Zenon DEF Arrive
<1>2. arrived' \in 0 .. MaxSeq /\ arrived <= arrived'
  BY Typed, ArchiveAssumption DEF Arrive
<1>3. \A e \in Enqueuers : 1 .. enq'[e].cursor \subseteq stored
  BY <1>1 DEF ArchiveInv, AskersBacked
<1> QED
  BY <1>1, <1>2, <1>3, Typed, AskKeeps

LEMMA LearnKeeps ==
  ASSUME ArchiveInv, NEW s \in 1 .. MaxSeq, Learn(s)
  PROVE  ArchiveInv'
<1>1. UNCHANGED <<arrived, stored, runs, wk, enq, faults>> /\ known' = known \cup {s}
  BY Zenon DEF Learn
<1>2. TypeInv'
  BY <1>1, Typed DEF TypeInv
<1> QED
  BY <1>1, <1>2 DEF ArchiveInv, LedgerBacked, ItemsBacked, AskersBacked

\* A write of a row that changes neither its cursor, what it owes, nor whether
\* it succeeded.
LEMMA RowKeeps ==
  ASSUME ArchiveInv, NEW r \in RunIds, NEW x \in Run, runs' = [runs EXCEPT ![r] = x],
         x.cursor = runs[r].cursor, x.due = runs[r].due,
         x.status = "succeeded" <=> runs[r].status = "succeeded",
         runs[r].status # "none" => x.status # "none",
         UNCHANGED <<arrived, known, stored, enq>>, faults' \in 0 .. MaxFaults,
         NEW w \in Workers, NEW q \in Item, wk' = [wk EXCEPT ![w] = q],
         ItemOK(q, runs'[q.run], arrived, stored)
  PROVE  ArchiveInv'
<1>1. RunOK(runs[r], arrived, stored)
  BY DEF ArchiveInv, LedgerBacked
<1>2. RunOK(x, arrived, stored')
  BY <1>1 DEF RunOK
<1>3. stored \subseteq stored' /\ stored' \subseteq 1 .. MaxSeq
  BY Typed
<1>4. ItemOK(q, runs'[q.run], arrived, stored')
  OBVIOUS
<1> QED
  BY <1>2, <1>3, <1>4, StepKeeps
\* A step that writes a row and no worker.
LEMMA LedgerKeeps ==
  ASSUME ArchiveInv, NEW r \in RunIds, NEW x \in Run, runs' = [runs EXCEPT ![r] = x],
         RunOK(x, arrived, stored),
         runs[r].status # "none" => x.status # "none" /\ x.due = runs[r].due,
         UNCHANGED <<arrived, known, stored, wk>>, faults' \in 0 .. MaxFaults,
         enq' \in [Enqueuers -> Asking],
         \A e \in Enqueuers : 1 .. enq'[e].cursor \subseteq stored
  PROVE  ArchiveInv'
<1>1. \A s \in RunIds : runs'[s] = IF s = r THEN x ELSE runs[s]
  BY Typed
<1>2. TypeInv'
  BY Typed DEF TypeInv
<1>3. LedgerBacked'
  BY <1>1 DEF ArchiveInv, LedgerBacked
<1>4. ItemsBacked'
  <2>1. ASSUME NEW v \in Workers PROVE ItemOK(wk[v], runs'[wk[v].run], arrived, stored)
    <3>1. PICK k \in RunIds : k = wk[v].run
      BY OfWorker
    <3>2. PICK y \in Run : y = runs'[k]
      BY <1>1, Typed
    <3>3. runs[k].status # "none" => y.status # "none" /\ y.due = runs[k].due
      BY <1>1, <3>2
    <3>4. wk[v] \in Item /\ runs[k] \in Run /\ ItemOK(wk[v], runs[k], arrived, stored)
      BY <3>1, OfWorker
    <3>5. arrived \in Nat /\ arrived <= arrived /\ stored \subseteq stored
      BY Typed
    <3> QED
      BY <3>1, <3>2, <3>3, <3>4, <3>5, ItemStays
  <2> QED
    BY <2>1 DEF ItemsBacked
<1>5. AskersBacked'
  BY DEF AskersBacked
<1> QED
  BY <1>2, <1>3, <1>4, <1>5 DEF ArchiveInv

LEMMA LeaseKeeps ==
  ASSUME ArchiveInv, NEW r \in RunIds, LeaseRunsOut(r)
  PROVE  ArchiveInv'
<1>1. /\ UNCHANGED <<arrived, known, stored, wk, enq>>
      /\ runs' = [runs EXCEPT ![r].expired = TRUE]
      /\ runs[r].status = "running"
      /\ UNCHANGED faults \/ Fault
  BY Zenon DEF LeaseRunsOut
<1>2. PICK x \in Run : x = [runs[r] EXCEPT !.expired = TRUE]
  <2>1. PICK old \in Run : old = runs[r]
    BY Typed
  <2>2. [old EXCEPT !.expired = TRUE] \in Run
    BY <2>1 DEF Run
  <2> QED
    BY <2>1, <2>2
<1>3. x.cursor = runs[r].cursor /\ x.due = runs[r].due /\ x.status = runs[r].status
  BY <1>2, Typed DEF Run
<1>4. runs' = [runs EXCEPT ![r] = x]
  BY <1>1, <1>2, Typed
<1>5. faults' \in 0 .. MaxFaults
  BY <1>1, FaultTyped
<1>6. RunOK(x, arrived, stored)
  BY <1>3 DEF ArchiveInv, LedgerBacked, RunOK
<1>7. \A e \in Enqueuers : 1 .. enq'[e].cursor \subseteq stored
  BY <1>1 DEF ArchiveInv, AskersBacked
<1> QED
  BY <1>1, <1>3, <1>4, <1>5, <1>6, <1>7, Typed, LedgerKeeps

--------------------------------------------------------------------------------
(* Schedulers and requests.                                                *)

\* The highest cursor of the ledger is backed like every other.
LEMMA LatestIsBacked ==
  ASSUME ArchiveInv
  PROVE  /\ LatestArchiveSyncCursor \in 0 .. MaxSeq
         /\ 1 .. LatestArchiveSyncCursor \subseteq stored
<1>1. PICK S : S = {0} \cup {runs[r].cursor : r \in Used}
  OBVIOUS
<1>2. \A r \in Used : runs[r].cursor \in 0 .. MaxSeq /\ 1 .. runs[r].cursor \subseteq stored
  <2> SUFFICES ASSUME NEW r \in Used
               PROVE  runs[r].cursor \in 0 .. MaxSeq /\ 1 .. runs[r].cursor \subseteq stored
    OBVIOUS
  <2>1. r \in RunIds
    BY DEF Used
  <2>2. runs[r] \in Run /\ RunOK(runs[r], arrived, stored)
    BY <2>1, Typed DEF ArchiveInv, LedgerBacked
  <2> QED
    BY <2>2 DEF Run, RunOK
<1>3. S \in SUBSET (0 .. MaxSeq) /\ S # {} /\ MaxSeq \in Nat
  BY <1>1, <1>2, ArchiveAssumption
<1>4. Max(S) \in S
  BY <1>3, BoundedMax
<1>5. \A c \in S : 1 .. c \subseteq stored
  BY <1>1, <1>2
<1>6. LatestArchiveSyncCursor = Max(S)
  BY <1>1 DEF LatestArchiveSyncCursor
<1> QED
  BY <1>3, <1>4, <1>5, <1>6

\* A step of one scheduler or request alone.
LEMMA AskerKeeps ==
  ASSUME ArchiveInv, NEW e \in Enqueuers, NEW a \in Asking, enq' = [enq EXCEPT ![e] = a],
         1 .. a.cursor \subseteq stored,
         UNCHANGED <<arrived, known, stored, runs, wk>>, faults' \in 0 .. MaxFaults
  PROVE  ArchiveInv'
<1>1. enq' \in [Enqueuers -> Asking]
  BY Typed
<1>2. \A f \in Enqueuers : 1 .. enq'[f].cursor \subseteq stored
  BY Typed DEF ArchiveInv, AskersBacked
<1>3. arrived' \in 0 .. MaxSeq /\ arrived <= arrived'
  BY Typed
<1> QED
  BY <1>1, <1>2, <1>3, AskKeeps

LEMMA NotAskingOK == NotAsking \in Asking /\ 1 .. NotAsking.cursor \subseteq {}
  BY ArchiveAssumption DEF NotAsking, Asking

LEMMA OfAsker ==
  ASSUME ArchiveInv, NEW e \in Enqueuers
  PROVE  enq[e] \in Asking /\ enq[e].cursor \in 0 .. MaxSeq /\ 1 .. enq[e].cursor \subseteq stored
  BY Typed DEF ArchiveInv, AskersBacked, Asking

LEMMA MoveKeeps ==
  ASSUME ArchiveInv, NEW e \in Enqueuers, NEW pc \in {"cursor", "add"},
         enq' = [enq EXCEPT ![e].pc = pc],
         UNCHANGED <<arrived, known, stored, runs, wk>>, faults' \in 0 .. MaxFaults
  PROVE  ArchiveInv'
<1>1. PICK a \in Asking : a = [enq[e] EXCEPT !.pc = pc]
  BY OfAsker DEF Asking
<1>2. a.cursor = enq[e].cursor
  BY <1>1, OfAsker DEF Asking
<1>3. enq' = [enq EXCEPT ![e] = a]
  BY <1>1, Typed
<1> QED
  BY <1>2, <1>3, OfAsker, AskerKeeps

LEMMA CheckBusyKeeps ==
  ASSUME ArchiveInv, NEW e \in Enqueuers, CheckBusy(e)
  PROVE  ArchiveInv'
<1>1. /\ enq' = [enq EXCEPT ![e].pc = "cursor"]
      /\ UNCHANGED <<arrived, known, stored, runs, wk, faults>>
  BY Zenon DEF CheckBusy
<1> QED
  BY <1>1, FaultTyped, MoveKeeps

LEMMA ReadCursorKeeps ==
  ASSUME ArchiveInv, NEW e \in Enqueuers, ReadCursor(e)
  PROVE  ArchiveInv'
<1>1. PICK pc \in {"probe", "add"} :
        /\ enq' = [enq EXCEPT ![e] = [pc |-> pc, cursor |-> LatestArchiveSyncCursor]]
        /\ UNCHANGED <<arrived, known, stored, runs, wk, faults>>
  BY DEF ReadCursor
<1>2. PICK a \in Asking : /\ a = [pc |-> pc, cursor |-> LatestArchiveSyncCursor]
                          /\ a.cursor = LatestArchiveSyncCursor
  <2>1. PICK c \in 0 .. MaxSeq : c = LatestArchiveSyncCursor
    BY LatestIsBacked
  <2>2. PICK a \in Asking : a = [pc |-> pc, cursor |-> c]
    BY DEF Asking
  <2> QED
    BY <2>1, <2>2
<1>3. 1 .. a.cursor \subseteq stored
  BY <1>2, LatestIsBacked
<1>4. enq' = [enq EXCEPT ![e] = a]
  BY <1>1, <1>2
<1> QED
  BY <1>1, <1>3, <1>4, FaultTyped, AskerKeeps

LEMMA ProbeKeeps ==
  ASSUME ArchiveInv, NEW e \in Enqueuers, Probe(e)
  PROVE  ArchiveInv'
<1>1. /\ UNCHANGED <<arrived, known, stored, runs, wk>>
      /\ UNCHANGED faults \/ Fault
      /\ enq' = [enq EXCEPT ![e].pc = "add"] \/ enq' = [enq EXCEPT ![e] = NotAsking]
  BY Zenon DEF Probe
<1>2. faults' \in 0 .. MaxFaults
  BY <1>1, FaultTyped
<1>3. CASE enq' = [enq EXCEPT ![e].pc = "add"]
  BY <1>1, <1>2, <1>3, MoveKeeps
<1>4. CASE enq' = [enq EXCEPT ![e] = NotAsking]
  <2>1. 1 .. NotAsking.cursor \subseteq stored
    BY NotAskingOK
  <2> QED
    BY <1>1, <1>2, <1>4, <2>1, NotAskingOK, AskerKeeps
<1> QED
  BY <1>1, <1>3, <1>4

\* An existing row keeps its cursor and what it owes, and a row is not made of
\* nothing.
LEMMA RequeuedOK ==
  ASSUME NEW r \in Run
  PROVE  /\ Requeued(r) \in Run
         /\ Requeued(r).cursor = r.cursor /\ Requeued(r).due = r.due
         /\ Requeued(r).status = "none" <=> r.status = "none"
         /\ Requeued(r).status = "succeeded" <=> r.status = "succeeded"
<1>1. CASE r.status = "failed" \/ (r.status = "running" /\ r.expired)
  <2>1. PICK x \in Run : x = [r EXCEPT !.status = "queued", !.holder = NoWorker, !.expired = FALSE]
    BY DEF Run
  <2>2. x.status = "queued" /\ x.cursor = r.cursor /\ x.due = r.due
    BY <2>1 DEF Run
  <2>3. Requeued(r) = x
    BY <1>1, <2>1 DEF Requeued
  <2> QED
    BY <1>1, <2>2, <2>3
<1>2. CASE ~(r.status = "failed" \/ (r.status = "running" /\ r.expired))
  BY <1>2 DEF Requeued
<1> QED
  BY <1>1, <1>2
LEMMA EnqueueKeeps ==
  ASSUME ArchiveInv, NEW e \in Enqueuers, EnqueueArchiveSync(e)
  PROVE  ArchiveInv'
<1>1. /\ UNCHANGED <<arrived, known, stored, wk, faults>>
      /\ enq' = [enq EXCEPT ![e] = NotAsking]
  BY Zenon DEF EnqueueArchiveSync
<1>2. enq' \in [Enqueuers -> Asking] /\ \A f \in Enqueuers : 1 .. enq'[f].cursor \subseteq stored
  BY <1>1, Typed, NotAskingOK DEF ArchiveInv, AskersBacked
<1>3. faults' \in 0 .. MaxFaults
  BY <1>1, FaultTyped
<1>4. CASE \E r \in SameKey(e) : runs' = [runs EXCEPT ![r] = Requeued(@)]
  <2>1. PICK r \in RunIds : runs' = [runs EXCEPT ![r] = Requeued(runs[r])]
    BY <1>4 DEF SameKey, Used
  <2>2. runs[r] \in Run /\ RunOK(runs[r], arrived, stored)
    BY Typed DEF ArchiveInv, LedgerBacked
  <2>3. PICK x \in Run : /\ x = Requeued(runs[r])
                         /\ x.cursor = runs[r].cursor /\ x.due = runs[r].due
                         /\ x.status = "none" <=> runs[r].status = "none"
                         /\ x.status = "succeeded" <=> runs[r].status = "succeeded"
    BY <2>2, RequeuedOK
  <2>4. RunOK(x, arrived, stored)
    BY <2>2, <2>3 DEF RunOK
  <2> QED
    BY <1>1, <1>2, <1>3, <2>1, <2>3, <2>4, LedgerKeeps
<1>5. CASE UNCHANGED runs
  <2>1. arrived' \in 0 .. MaxSeq /\ arrived <= arrived'
    BY <1>1, Typed
  <2> QED
    BY <1>1, <1>2, <1>3, <1>5, <2>1, AskKeeps
<1>6. CASE /\ MayAdd(e)
           /\ \E kind \in {"poll", "manual"} :
                runs' = [runs EXCEPT ![Min(Free)] =
                           [status |-> "queued", kind |-> kind,
                            start |-> enq[e].cursor, cursor |-> enq[e].cursor,
                            holder |-> NoWorker, expired |-> FALSE, due |-> arrived]]
  <2>1. Free # {}
    <3>1. ASSUME Free = {} PROVE Cardinality(Free) = 0
      BY <3>1, FS_EmptySet
    <3> QED
      BY <1>6, <3>1, ArchiveAssumption DEF MayAdd
  <2>2. PICK r \in RunIds : r = Min(Free) /\ runs[r].status = "none"
    BY <2>1, FreeHasMin
  <2>3. PICK c \in 0 .. MaxSeq : c = enq[e].cursor /\ 1 .. c \subseteq stored
    BY OfAsker
  <2>4. PICK n \in 0 .. MaxSeq : n = arrived
    BY Typed
  <2>5. PICK kind \in {"poll", "manual"} :
          runs' = [runs EXCEPT ![r] = [status |-> "queued", kind |-> kind, start |-> c, cursor |-> c,
                                       holder |-> NoWorker, expired |-> FALSE, due |-> n]]
    BY <1>6, <2>2, <2>3, <2>4
  <2>6. PICK x \in Run : x = [status |-> "queued", kind |-> kind, start |-> c, cursor |-> c,
                              holder |-> NoWorker, expired |-> FALSE, due |-> n]
    BY DEF Run
  <2>7. x.status = "queued" /\ x.cursor = c /\ x.due = n
    BY <2>6
  <2>8. RunOK(x, arrived, stored)
    BY <2>3, <2>4, <2>7 DEF RunOK
  <2>9. runs' = [runs EXCEPT ![r] = x]
    BY <2>5, <2>6
  <2> QED
    BY <1>1, <1>2, <1>3, <2>2, <2>8, <2>9, LedgerKeeps
<1> QED
  BY <1>4, <1>5, <1>6 DEF EnqueueArchiveSync

LEMMA AskerStepKeeps ==
  ASSUME ArchiveInv, NEW e \in Enqueuers, EnqueueStep(e)
  PROVE  ArchiveInv'
  BY CheckBusyKeeps, ReadCursorKeeps, ProbeKeeps, EnqueueKeeps DEF EnqueueStep

--------------------------------------------------------------------------------
(* The workers.                                                            *)

LEMMA StoredTyped ==
  ASSUME ArchiveInv, UNCHANGED stored
  PROVE  stored \subseteq stored' /\ stored' \subseteq 1 .. MaxSeq
  BY Typed

\* A worker rests, or goes to the next item of its list.
LEMMA RestKeeps ==
  ASSUME ArchiveInv, NEW w \in Workers, wk' = [wk EXCEPT ![w] = Resting] \/ NextItem(w),
         UNCHANGED <<arrived, known, stored, runs, enq>>, faults' \in 0 .. MaxFaults
  PROVE  ArchiveInv'
<1>1. PICK q \in Item : wk' = [wk EXCEPT ![w] = q] /\ \A x, n, S : ItemOK(q, x, n, S)
  BY RestingOK, NextItemSteps
<1>2. ItemOK(q, runs[q.run], arrived, stored')
  BY <1>1
<1> QED
  BY <1>1, <1>2, StoredTyped, WorkerKeeps

\* A worker goes to another stage of its row, outside a page.
LEMMA ToKeeps ==
  ASSUME ArchiveInv, NEW w \in Workers, wk[w].pc \in Active,
         NEW pc \in {"beat", "fetch", "fail"}, To(w, pc),
         stored \subseteq stored', stored' \subseteq 1 .. MaxSeq,
         UNCHANGED <<arrived, known, runs, enq>>, faults' \in 0 .. MaxFaults
  PROVE  ArchiveInv'
<1>1. PICK q \in Item : /\ wk' = [wk EXCEPT ![w] = q] /\ q.run = wk[w].run
                        /\ \A x, n, S : x.status # "none" /\ 1 .. wk[w].cursor \subseteq S
                                          => ItemOK(q, x, n, S)
  BY ToSteps
<1>2. runs[q.run].status # "none" /\ 1 .. wk[w].cursor \subseteq stored'
  BY <1>1, OfActive
<1>3. ItemOK(q, runs[q.run], arrived, stored')
  BY <1>1, <1>2
<1> QED
  BY <1>1, <1>3, WorkerKeeps

LEMMA ScanKeeps ==
  ASSUME ArchiveInv, NEW w \in Workers, Scan(w)
  PROVE  ArchiveInv'
<1>1. PICK T \in SUBSET RunIds :
        /\ UNCHANGED <<arrived, known, stored, runs, enq, faults>>
        /\ wk' = [wk EXCEPT ![w] = [Resting EXCEPT !.pc = "take", !.todo = T]]
  <2>1. {r \in RunIds : Pending(r)} \in SUBSET RunIds
    OBVIOUS
  <2> QED
    BY <2>1, Zenon DEF Scan
<1>2. PICK q \in Item : q = [Resting EXCEPT !.pc = "take", !.todo = T]
  BY RestingOK DEF Item, PCs
<1>3. q.pc = "take" /\ q.cursor = 0
  BY <1>2, RestingOK DEF Item
<1>4. ItemOK(q, runs[q.run], arrived, stored')
  BY <1>3 DEF ItemOK, Active
<1>5. wk' = [wk EXCEPT ![w] = q]
  BY <1>1, <1>2
<1> QED
  BY <1>1, <1>4, <1>5, StoredTyped, FaultTyped, WorkerKeeps

LEMMA CrashKeeps ==
  ASSUME ArchiveInv, NEW w \in Workers, Crash(w)
  PROVE  ArchiveInv'
<1>1. /\ UNCHANGED <<arrived, known, stored, runs, enq>> /\ Fault
      /\ wk' = [wk EXCEPT ![w] = Resting]
  BY Zenon DEF Crash
<1> QED
  BY <1>1, FaultTyped, RestKeeps

\* A worker writes a row without a change of cursor, debt or success, and moves.
LEMMA RequeuedRow ==
  ASSUME ArchiveInv, NEW r \in RunIds
  PROVE  \E x \in Run : /\ x = Requeued(runs[r])
                        /\ x.cursor = runs[r].cursor /\ x.due = runs[r].due
                        /\ x.status = "none" <=> runs[r].status = "none"
                        /\ x.status = "succeeded" <=> runs[r].status = "succeeded"
<1>1. runs[r] \in Run
  BY Typed
<1> QED
  BY <1>1, RequeuedOK

LEMMA TakeKeeps ==
  ASSUME ArchiveInv, NEW w \in Workers, Take(w)
  PROVE  ArchiveInv'
<1>1. UNCHANGED <<arrived, known, stored, enq, faults>> /\ wk[w].pc = "take"
  BY Zenon DEF Take
<1>2. wk[w].todo \in SUBSET RunIds /\ wk[w] \in Item
  BY OfWorker DEF Item
<1>3. PICK r \in RunIds, T \in SUBSET RunIds :
        /\ runs' = [runs EXCEPT ![r] = Requeued(runs[r])]
        /\ \/ /\ Requeued(runs[r]).status = "queued"
              /\ wk' = [wk EXCEPT ![w] = [wk[w] EXCEPT !.pc = "start", !.run = r, !.todo = T]]
           \/ wk' = [wk EXCEPT ![w] = Resting]
           \/ wk' = [wk EXCEPT ![w] = [wk[w] EXCEPT !.todo = T]]
  <2>1. PICK r \in wk[w].todo :
        /\ runs' = [runs EXCEPT ![r] = Requeued(runs[r])]
        /\ wk' = [wk EXCEPT ![w] =
                         IF Requeued(runs[r]).status = "queued"
                         THEN [wk[w] EXCEPT !.pc = "start", !.run = r, !.todo = wk[w].todo \ {r}]
                         ELSE IF wk[w].todo \ {r} = {} THEN Resting ELSE [wk[w] EXCEPT !.todo = wk[w].todo \ {r}]]
    BY Zenon DEF Take
  <2>2. r \in RunIds /\ wk[w].todo \ {r} \in SUBSET RunIds
    BY <1>2
  <2> QED
    BY <2>1, <2>2, Zenon
<1>4. PICK x \in Run : /\ x = Requeued(runs[r])
                       /\ x.cursor = runs[r].cursor /\ x.due = runs[r].due
                       /\ x.status = "none" <=> runs[r].status = "none"
                       /\ x.status = "succeeded" <=> runs[r].status = "succeeded"
  BY RequeuedRow
<1>5. runs' = [runs EXCEPT ![r] = x]
  BY <1>3, <1>4
<1>6. faults' \in 0 .. MaxFaults
  BY <1>1, FaultTyped
<1>7. PICK q \in Item : wk' = [wk EXCEPT ![w] = q] /\ ItemOK(q, runs'[q.run], arrived, stored)
  <2>1. CASE /\ Requeued(runs[r]).status = "queued"
             /\ wk' = [wk EXCEPT ![w] = [wk[w] EXCEPT !.pc = "start", !.run = r, !.todo = T]]
    <3>1. PICK q \in Item : q = [wk[w] EXCEPT !.pc = "start", !.run = r, !.todo = T]
      BY <1>2 DEF Item, PCs
    <3>2. q.pc = "start" /\ q.run = r /\ q.cursor = wk[w].cursor
      BY <1>2, <3>1 DEF Item
    <3>3. runs'[r].status = "queued"
      BY <1>3, <2>1, Typed
    <3>4. 1 .. q.cursor \subseteq stored
      BY <3>2, OfWorker DEF ItemOK
    <3>5. ItemOK(q, runs'[q.run], arrived, stored)
      BY <3>2, <3>3, <3>4 DEF ItemOK
    <3> QED
      BY <2>1, <3>1, <3>5
  <2>2. CASE wk' = [wk EXCEPT ![w] = Resting]
    BY <2>2, RestingOK
  <2>3. CASE wk' = [wk EXCEPT ![w] = [wk[w] EXCEPT !.todo = T]]
    <3>1. PICK q \in Item : q = [wk[w] EXCEPT !.todo = T]
      BY <1>2 DEF Item
    <3>2. q.pc = "take" /\ q.cursor = wk[w].cursor
      BY <1>1, <1>2, <3>1 DEF Item
    <3>3. 1 .. q.cursor \subseteq stored
      BY <3>2, OfWorker DEF ItemOK
    <3>4. ItemOK(q, runs'[q.run], arrived, stored)
      BY <3>2, <3>3 DEF ItemOK, Active
    <3> QED
      BY <2>3, <3>1, <3>4
  <2> QED
    BY <1>3, <2>1, <2>2, <2>3
<1> QED
  BY <1>1, <1>4, <1>5, <1>6, <1>7, RowKeeps
LEMMA MarkKeeps ==
  ASSUME ArchiveInv, NEW w \in Workers, MarkArchiveSyncRunning(w)
  PROVE  ArchiveInv'
<1>1. PICK r \in RunIds : r = wk[w].run
  BY OfWorker
<1>2. wk[w].pc \in Active /\ wk[w].pc = "start"
  BY Zenon DEF MarkArchiveSyncRunning, Active
<1>3. PICK x \in Run : x = [runs[r] EXCEPT !.status = "running", !.holder = w, !.expired = FALSE]
  <2>1. PICK old \in Run : old = runs[r]
    BY Typed
  <2>2. [old EXCEPT !.status = "running", !.holder = w, !.expired = FALSE] \in Run
    BY <2>1 DEF Run
  <2> QED
    BY <2>1, <2>2
<1>4. x.status = "running" /\ x.cursor = runs[r].cursor /\ x.due = runs[r].due
  BY <1>3, Typed DEF Run
<1>5. /\ UNCHANGED <<arrived, known, stored, enq>>
      /\ \/ /\ runs[r].status = "queued"
            /\ runs' = [runs EXCEPT ![r].status = "running", ![r].holder = w, ![r].expired = FALSE]
            /\ wk' = [wk EXCEPT ![w].pc = "beat", ![w].cursor = runs[r].cursor]
            /\ UNCHANGED faults
         \/ /\ UNCHANGED runs /\ NextItem(w)
            /\ UNCHANGED faults \/ Fault
         \/ /\ runs[r].status = "queued"
            /\ runs' = [runs EXCEPT ![r].status = "running", ![r].holder = w, ![r].expired = FALSE]
            /\ NextItem(w) /\ Fault
  BY <1>1, Zenon DEF MarkArchiveSyncRunning
<1>6. faults' \in 0 .. MaxFaults
  BY <1>5, FaultTyped
<1>7. CASE UNCHANGED runs /\ NextItem(w)
  BY <1>5, <1>6, <1>7, RestKeeps
<1>8. CASE /\ runs[r].status = "queued"
           /\ runs' = [runs EXCEPT ![r].status = "running", ![r].holder = w, ![r].expired = FALSE]
           /\ \/ NextItem(w)
              \/ wk' = [wk EXCEPT ![w].pc = "beat", ![w].cursor = runs[r].cursor]
  <2>1. runs' = [runs EXCEPT ![r] = x] /\ runs'[r] = x
    BY <1>3, <1>8, Typed
  <2>2. PICK q \in Item : wk' = [wk EXCEPT ![w] = q] /\ ItemOK(q, runs'[q.run], arrived, stored)
    <3>1. CASE NextItem(w)
      BY <3>1, NextItemSteps
    <3>2. CASE wk' = [wk EXCEPT ![w].pc = "beat", ![w].cursor = runs[r].cursor]
      <4>1. PICK c \in 0 .. MaxSeq : c = runs[r].cursor /\ 1 .. c \subseteq stored
        BY Typed DEF Run, ArchiveInv, LedgerBacked, RunOK
      <4>2. PICK q \in Item : q = [wk[w] EXCEPT !.pc = "beat", !.cursor = c]
        BY OfWorker DEF Item, PCs
      <4>3. q.pc = "beat" /\ q.cursor = c /\ q.run = r
        BY <1>1, <4>2, OfWorker DEF Item
      <4>4. ItemOK(q, x, arrived, stored)
        BY <1>4, <4>1, <4>3 DEF ItemOK
      <4>5. wk' = [wk EXCEPT ![w] = q]
        BY <3>2, <4>1, <4>2, Typed
      <4> QED
        BY <2>1, <4>3, <4>4, <4>5
    <3> QED
      BY <1>8, <3>1, <3>2
  <2>3. x.status = "succeeded" <=> runs[r].status = "succeeded"
    BY <1>4, <1>8
  <2>4. runs[r].status # "none" => x.status # "none"
    BY <1>4
  <2> QED
    BY <1>4, <1>5, <1>6, <2>1, <2>2, <2>3, <2>4, RowKeeps
<1> QED
  BY <1>5, <1>7, <1>8, Zenon

\* A row that is fenced is running, so it did not succeed.
LEMMA HeartbeatKeeps ==
  ASSUME ArchiveInv, NEW w \in Workers, HeartbeatArchiveSync(w)
  PROVE  ArchiveInv'
<1>1. PICK r \in RunIds : r = wk[w].run
  BY OfWorker
<1>2. wk[w].pc \in Active
  BY DEF HeartbeatArchiveSync, Active
<1>3. PICK x \in Run : x = [runs[r] EXCEPT !.expired = FALSE]
  <2>1. PICK old \in Run : old = runs[r]
    BY Typed
  <2>2. [old EXCEPT !.expired = FALSE] \in Run
    BY <2>1 DEF Run
  <2> QED
    BY <2>1, <2>2
<1>4. x.status = runs[r].status /\ x.cursor = runs[r].cursor /\ x.due = runs[r].due
  BY <1>3, Typed DEF Run
<1>5. /\ UNCHANGED <<arrived, known, stored, enq>>
      /\ UNCHANGED runs \/ runs' = [runs EXCEPT ![r].expired = FALSE]
      /\ UNCHANGED faults \/ Fault
      /\ To(w, "fetch") \/ To(w, "fail")
  BY <1>1, Zenon DEF HeartbeatArchiveSync
<1>6. faults' \in 0 .. MaxFaults
  BY <1>5, FaultTyped
<1>7. PICK pc \in {"beat", "fetch", "fail"} : To(w, pc)
  BY <1>5
<1>8. CASE UNCHANGED runs
  BY <1>2, <1>5, <1>6, <1>7, <1>8, StoredTyped, ToKeeps
<1>9. CASE runs' = [runs EXCEPT ![r].expired = FALSE]
  <2>1. runs' = [runs EXCEPT ![r] = x] /\ runs'[r] = x
    BY <1>3, <1>9, Typed
  <2>2. PICK q \in Item : /\ wk' = [wk EXCEPT ![w] = q] /\ q.run = wk[w].run
                          /\ \A y, n, S : y.status # "none" /\ 1 .. wk[w].cursor \subseteq S
                                            => ItemOK(q, y, n, S)
    BY <1>2, <1>7, ToSteps
  <2>3. x.status # "none" /\ 1 .. wk[w].cursor \subseteq stored
    BY <1>1, <1>2, <1>4, OfActive
  <2>4. ItemOK(q, runs'[q.run], arrived, stored)
    BY <1>1, <2>1, <2>2, <2>3
  <2>5. x.status = "succeeded" <=> runs[r].status = "succeeded"
    BY <1>4
  <2> QED
    BY <1>4, <1>5, <1>6, <2>1, <2>2, <2>3, <2>4, <2>5, RowKeeps
<1> QED
  BY <1>5, <1>8, <1>9

\* The page reaches as far as WeCom does, or is full.
LEMMA PageEndIs ==
  ASSUME ArchiveInv, NEW w \in Workers
  PROVE  /\ PageEnd(w) \in 0 .. MaxSeq /\ PageEnd(w) <= arrived
         /\ PageEnd(w) - wk[w].cursor < Limit => PageEnd(w) = arrived
<1>1. arrived \in 0 .. MaxSeq /\ wk[w].cursor \in 0 .. MaxSeq /\ Limit \in Nat \ {0}
  BY Typed, OfWorker, ArchiveAssumption DEF Item
<1>2. PICK e \in Int : e = wk[w].cursor + Limit
  BY <1>1
<1>3. PICK p : p = PageEnd(w)
  OBVIOUS
<1>4. p \in {arrived, e} /\ p <= arrived /\ p <= e
  <2>1. arrived \in Int
    BY <1>1
  <2>2. Min({arrived, e}) \in {arrived, e} /\ Min({arrived, e}) <= arrived /\ Min({arrived, e}) <= e
    BY <1>2, <2>1, MinOfTwo, Zenon
  <2>3. p = Min({arrived, e})
    BY <1>2, <1>3, Zenon DEF PageEnd
  <2> QED
    BY <2>2, <2>3
<1>5. p \in 0 .. MaxSeq /\ p <= arrived /\ (p - wk[w].cursor < Limit => p = arrived)
  BY <1>1, <1>2, <1>4, ArchiveAssumption
<1> QED
  BY <1>3, <1>5

LEMMA FetchKeeps ==
  ASSUME ArchiveInv, NEW w \in Workers, Fetch(w)
  PROVE  ArchiveInv'
<1>1. PICK x \in Run : x = runs[wk[w].run]
  BY OfWorker
<1>2. wk[w].pc \in Active
  BY DEF Fetch, Active
<1>3. x.status # "none" /\ 1 .. wk[w].cursor \subseteq stored /\ x.due <= arrived /\ x.due \in 0 .. MaxSeq
  BY <1>1, <1>2, OfActive, OfWorker DEF RunOK, Run
<1>4. PICK p \in 0 .. MaxSeq : /\ p = PageEnd(w) /\ p <= arrived
                               /\ p - wk[w].cursor < Limit => p = arrived
  BY PageEndIs
<1>5. /\ UNCHANGED <<arrived, known, stored, runs, enq>>
      /\ \/ /\ UNCHANGED faults
            /\ \/ /\ p > wk[w].cursor
                  /\ wk' = [wk EXCEPT ![w].pc = "store", ![w].next = wk[w].cursor + 1, ![w].last = p]
               \/ /\ ~(p > wk[w].cursor)
                  /\ wk' = [wk EXCEPT ![w].pc = "finish", ![w].next = 1, ![w].last = 0]
         \/ Fault /\ To(w, "fail")
  BY <1>4 DEF Fetch
<1>6. faults' \in 0 .. MaxFaults
  BY <1>5, FaultTyped
<1>7. CASE To(w, "fail")
  BY <1>2, <1>5, <1>6, <1>7, StoredTyped, ToKeeps
<1>8. wk[w].cursor \in 0 .. MaxSeq /\ wk[w] \in Item /\ arrived \in Nat /\ Limit \in Nat \ {0} /\ MaxSeq \in Nat
  BY OfWorker, Typed, ArchiveAssumption DEF Item
<1>9. CASE /\ p > wk[w].cursor
           /\ wk' = [wk EXCEPT ![w].pc = "store", ![w].next = wk[w].cursor + 1, ![w].last = p]
  <2>1. PICK k \in 1 .. MaxSeq + 1 : k = wk[w].cursor + 1
    BY <1>8
  <2>2. PICK q \in Item : q = [wk[w] EXCEPT !.pc = "store", !.next = k, !.last = p]
    BY <1>8 DEF Item, PCs
  <2>3. q.pc = "store" /\ q.next = k /\ q.last = p /\ q.cursor = wk[w].cursor /\ q.run = wk[w].run
    BY <1>8, <2>2 DEF Item
  <2>4. wk' = [wk EXCEPT ![w] = q]
    BY <1>9, <2>1, <2>2, Typed
  <2>5. q.cursor < q.last /\ q.last <= arrived /\ (q.last - q.cursor < Limit => x.due <= q.last)
    BY <1>3, <1>4, <1>9, <2>3
  <2>6. q.cursor < q.next /\ q.next <= q.last /\ q.next - 1 = q.cursor
    BY <1>4, <1>8, <1>9, <2>1, <2>3
  <2>7. ItemOK(q, runs[q.run], arrived, stored')
    BY <1>1, <1>3, <1>5, <2>3, <2>5, <2>6 DEF ItemOK
  <2> QED
    BY <1>5, <1>6, <2>4, <2>7, StoredTyped, WorkerKeeps
<1>10. CASE /\ ~(p > wk[w].cursor)
            /\ wk' = [wk EXCEPT ![w].pc = "finish", ![w].next = 1, ![w].last = 0]
  <2>1. 1 \in 1 .. MaxSeq + 1 /\ 0 \in 0 .. MaxSeq
    BY <1>8
  <2>2. PICK q \in Item : q = [wk[w] EXCEPT !.pc = "finish", !.next = 1, !.last = 0]
    BY <1>8, <2>1 DEF Item, PCs
  <2>3. q.pc = "finish" /\ q.cursor = wk[w].cursor /\ q.run = wk[w].run
    BY <1>8, <2>2 DEF Item
  <2>4. wk' = [wk EXCEPT ![w] = q]
    BY <1>10, <2>2, Typed
  <2>5. x.due <= q.cursor
    BY <1>3, <1>4, <1>8, <1>10, <2>3
  <2>6. ItemOK(q, runs[q.run], arrived, stored')
    BY <1>1, <1>3, <1>5, <2>3, <2>5 DEF ItemOK
  <2> QED
    BY <1>5, <1>6, <2>4, <2>6, StoredTyped, WorkerKeeps
<1> QED
  BY <1>5, <1>7, <1>9, <1>10
LEMMA UpsertKeeps ==
  ASSUME ArchiveInv, NEW w \in Workers, UpsertArchiveMessage(w)
  PROVE  ArchiveInv'
<1>1. PICK s \in 1 .. MaxSeq + 1 : s = wk[w].next
  BY OfWorker DEF Item
<1>2. wk[w].pc = "store" /\ wk[w].pc \in Active
  BY DEF UpsertArchiveMessage, Active
<1>3. PICK x \in Run : x = runs[wk[w].run] /\ ItemOK(wk[w], x, arrived, stored)
  BY OfWorker
<1>4. /\ 1 .. wk[w].cursor \subseteq stored /\ x.status # "none"
      /\ wk[w].cursor < wk[w].last /\ wk[w].last <= arrived
      /\ wk[w].last - wk[w].cursor < Limit => x.due <= wk[w].last
      /\ wk[w].cursor < s /\ s <= wk[w].last /\ 1 .. (s - 1) \subseteq stored
  BY <1>1, <1>2, <1>3 DEF ItemOK
<1>5. /\ UNCHANGED <<arrived, known, runs, enq>>
      /\ \/ /\ stored' = stored \cup {s} /\ UNCHANGED faults
            /\ wk' = [wk EXCEPT ![w].next = s + 1,
                                ![w].pc = IF s < wk[w].last THEN "store" ELSE "save"]
         \/ /\ To(w, "fail")
            /\ stored' = stored \cup {s} \/ UNCHANGED stored
            /\ UNCHANGED faults \/ Fault
  BY <1>1, Zenon DEF UpsertArchiveMessage
<1>6. faults' \in 0 .. MaxFaults
  BY <1>5, FaultTyped
<1>7. wk[w].last \in 0 .. MaxSeq /\ wk[w].cursor \in 0 .. MaxSeq /\ wk[w] \in Item /\ MaxSeq \in Nat
  BY OfWorker, ArchiveAssumption DEF Item
<1>8. stored \subseteq stored' /\ stored' \subseteq 1 .. MaxSeq
  BY <1>4, <1>5, <1>7, Typed
<1>9. CASE To(w, "fail")
  BY <1>2, <1>5, <1>6, <1>8, <1>9, ToKeeps
<1>10. CASE /\ stored' = stored \cup {s}
            /\ wk' = [wk EXCEPT ![w].next = s + 1,
                                ![w].pc = IF s < wk[w].last THEN "store" ELSE "save"]
  <2>1. PICK k \in 1 .. MaxSeq + 1 : k = s + 1
    BY <1>4, <1>7
  <2>2. PICK pc \in {"store", "save"} : pc = IF s < wk[w].last THEN "store" ELSE "save"
    OBVIOUS
  <2>3. PICK q \in Item : q = [wk[w] EXCEPT !.next = k, !.pc = pc]
    BY <1>7 DEF Item, PCs
  <2>4. /\ q.next = k /\ q.pc = pc /\ q.cursor = wk[w].cursor /\ q.last = wk[w].last
        /\ q.run = wk[w].run
    BY <1>7, <2>3 DEF Item
  <2>5. wk' = [wk EXCEPT ![w] = q]
    BY <1>10, <2>1, <2>2, <2>3, Typed
  <2>6. 1 .. s \subseteq stored'
    BY <1>4, <1>10
  <2>7. pc = "store" => q.cursor < q.next /\ q.next <= q.last /\ 1 .. (q.next - 1) \subseteq stored'
    BY <1>4, <1>7, <2>1, <2>2, <2>4, <2>6
  <2>8. pc = "save" => 1 .. q.last \subseteq stored'
    <3>1. pc = "save" => q.last = s
      BY <1>4, <1>7, <2>2, <2>4
    <3> QED
      BY <2>6, <3>1
  <2>9. ItemOK(q, x, arrived, stored')
    BY <1>4, <1>8, <2>4, <2>7, <2>8 DEF ItemOK, Active
  <2>10. ItemOK(q, runs[q.run], arrived, stored')
    BY <1>3, <2>4, <2>9
  <2> QED
    BY <1>5, <1>6, <1>8, <2>5, <2>10, WorkerKeeps
<1> QED
  BY <1>5, <1>9, <1>10

\* A fenced row is running.
LEMMA SaveKeeps ==
  ASSUME ArchiveInv, NEW w \in Workers, SaveArchiveSyncCursor(w)
  PROVE  ArchiveInv'
<1>1. PICK r \in RunIds : r = wk[w].run
  BY OfWorker
<1>2. wk[w].pc = "save" /\ wk[w].pc \in Active
  BY DEF SaveArchiveSyncCursor, Active
<1>3. PICK n \in 0 .. MaxSeq : n = wk[w].last
  BY OfWorker DEF Item
<1>4. PICK x \in Run : x = [runs[r] EXCEPT !.cursor = n]
  <2>1. PICK old \in Run : old = runs[r]
    BY Typed
  <2>2. [old EXCEPT !.cursor = n] \in Run
    BY <2>1 DEF Run
  <2> QED
    BY <2>1, <2>2
<1>5. x.status = runs[r].status /\ x.cursor = n /\ x.due = runs[r].due
  BY <1>4, Typed DEF Run
<1>6. /\ ItemOK(wk[w], runs[r], arrived, stored) /\ RunOK(runs[r], arrived, stored)
      /\ runs[r].status # "none"
  BY <1>1, <1>2, OfWorker, OfActive
<1>7. /\ 1 .. wk[w].cursor \subseteq stored /\ 1 .. n \subseteq stored
      /\ n - wk[w].cursor < Limit => x.due <= n
  BY <1>2, <1>3, <1>5, <1>6 DEF ItemOK
<1>8. RunOK(x, arrived, stored')
  <2>1. UNCHANGED stored
    BY Zenon DEF SaveArchiveSyncCursor
  <2> QED
    BY <1>5, <1>6, <1>7, <2>1 DEF RunOK
<1>9. /\ UNCHANGED <<arrived, known, stored, enq>>
      /\ \/ /\ runs' = [runs EXCEPT ![r].cursor = n] /\ UNCHANGED faults
            /\ wk' = [wk EXCEPT ![w].pc = IF HasMore(w) THEN "beat" ELSE "finish",
                                ![w].cursor = n, ![w].next = 1, ![w].last = 0]
         \/ /\ To(w, "fail")
            /\ runs' = [runs EXCEPT ![r].cursor = n] \/ UNCHANGED runs
            /\ UNCHANGED faults \/ Fault
  BY <1>1, <1>3, Zenon DEF SaveArchiveSyncCursor
<1>10. faults' \in 0 .. MaxFaults
  BY <1>9, FaultTyped
<1>11. CASE To(w, "fail") /\ UNCHANGED runs
  BY <1>2, <1>9, <1>10, <1>11, StoredTyped, ToKeeps
<1>12. CASE /\ runs' = [runs EXCEPT ![r].cursor = n]
            /\ \/ To(w, "fail")
               \/ wk' = [wk EXCEPT ![w].pc = IF HasMore(w) THEN "beat" ELSE "finish",
                                   ![w].cursor = n, ![w].next = 1, ![w].last = 0]
  <2>1. runs' = [runs EXCEPT ![r] = x] /\ runs'[r] = x
    BY <1>4, <1>12, Typed
  <2>2. PICK q \in Item : wk' = [wk EXCEPT ![w] = q] /\ ItemOK(q, runs'[q.run], arrived, stored')
    <3>1. CASE To(w, "fail")
      <4>1. PICK q \in Item : /\ wk' = [wk EXCEPT ![w] = q] /\ q.run = r
                              /\ \A y, m, S : y.status # "none" /\ 1 .. wk[w].cursor \subseteq S
                                                => ItemOK(q, y, m, S)
        BY <1>1, <1>2, <3>1, ToSteps
      <4>2. ItemOK(q, x, arrived, stored')
        BY <1>5, <1>6, <1>7, <1>9, <4>1
      <4> QED
        BY <2>1, <4>1, <4>2
    <3>2. CASE wk' = [wk EXCEPT ![w].pc = IF HasMore(w) THEN "beat" ELSE "finish",
                                ![w].cursor = n, ![w].next = 1, ![w].last = 0]
      <4>1. PICK pc \in {"beat", "finish"} : pc = IF HasMore(w) THEN "beat" ELSE "finish"
        OBVIOUS
      <4>2. 1 \in 1 .. MaxSeq + 1 /\ 0 \in 0 .. MaxSeq
        BY ArchiveAssumption
      <4>3. PICK q \in Item : q = [wk[w] EXCEPT !.pc = pc, !.cursor = n, !.next = 1, !.last = 0]
        BY <4>2, OfWorker DEF Item, PCs
      <4>4. q.pc = pc /\ q.cursor = n /\ q.run = r
        BY <1>1, <4>3, OfWorker DEF Item
      <4>5. pc = "finish" => x.due <= n
        <5>1. wk[w].cursor \in 0 .. MaxSeq /\ Limit \in Nat
          BY OfWorker, ArchiveAssumption DEF Item
        <5> QED
          BY <1>3, <1>7, <4>1, <5>1 DEF HasMore
      <4>6. x.status # "none" /\ 1 .. n \subseteq stored'
        BY <1>5, <1>6, <1>7, <1>9
      <4>7. ItemOK(q, x, arrived, stored')
        BY <4>4, <4>5, <4>6 DEF ItemOK
      <4>8. wk' = [wk EXCEPT ![w] = q]
        BY <3>2, <4>1, <4>3, Typed
      <4> QED
        BY <2>1, <4>4, <4>7, <4>8
    <3> QED
      BY <1>12, <3>1, <3>2
  <2>3. runs[r].status # "none" => x.status # "none" /\ x.due = runs[r].due
    BY <1>5
  <2> QED
    BY <1>8, <1>9, <1>10, <2>1, <2>2, <2>3, StoredTyped, StepKeeps
<1> QED
  BY <1>9, <1>11, <1>12, Zenon
\* A run ends as succeeded only when the last page reached what it owes.
LEMMA FinishKeeps ==
  ASSUME ArchiveInv, NEW w \in Workers, finishArchiveSync(w)
  PROVE  ArchiveInv'
<1>1. PICK r \in RunIds : r = wk[w].run
  BY OfWorker
<1>2. wk[w].pc \in {"finish", "fail"} /\ wk[w].pc \in Active
  BY Zenon DEF finishArchiveSync, Active
<1>3. PICK n \in 0 .. MaxSeq : n = wk[w].cursor
  BY OfWorker DEF Item
<1>4. PICK status \in {"succeeded", "failed"} :
        status = IF wk[w].pc = "finish" THEN "succeeded" ELSE "failed"
  OBVIOUS
<1>5. PICK x \in Run : x = [runs[r] EXCEPT !.status = status, !.cursor = n, !.holder = NoWorker,
                                           !.expired = FALSE]
  <2>1. PICK old \in Run : old = runs[r]
    BY Typed
  <2>2. [old EXCEPT !.status = status, !.cursor = n, !.holder = NoWorker, !.expired = FALSE] \in Run
    BY <2>1 DEF Run
  <2> QED
    BY <2>1, <2>2
<1>6. x.status = status /\ x.cursor = n /\ x.due = runs[r].due
  BY <1>5, Typed DEF Run
<1>7. /\ UNCHANGED <<arrived, known, stored, enq>> /\ NextItem(w)
      /\ \/ UNCHANGED runs
         \/ runs' = [runs EXCEPT ![r].status = status, ![r].cursor = n, ![r].holder = NoWorker,
                                 ![r].expired = FALSE]
      /\ UNCHANGED faults \/ Fault
  BY <1>1, <1>3, <1>4, Zenon DEF finishArchiveSync
<1>8. faults' \in 0 .. MaxFaults
  BY <1>7, FaultTyped
<1>9. CASE UNCHANGED runs
  BY <1>7, <1>8, <1>9, RestKeeps
<1>10. CASE runs' = [runs EXCEPT ![r].status = status, ![r].cursor = n, ![r].holder = NoWorker,
                                 ![r].expired = FALSE]
  <2>1. runs' = [runs EXCEPT ![r] = x]
    BY <1>5, <1>10, Typed
  <2>2. 1 .. n \subseteq stored /\ (wk[w].pc = "finish" => runs[r].due <= n) /\ runs[r].due <= arrived
    BY <1>1, <1>3, OfWorker DEF ItemOK, RunOK
  <2>3. runs[r].due \in 0 .. MaxSeq
    BY Typed DEF Run
  <2>4. RunOK(x, arrived, stored)
    <3>1. status = "succeeded" => 1 .. x.due \subseteq stored
      BY <1>4, <1>6, <2>2, <2>3
    <3> QED
      BY <1>6, <2>2, <3>1 DEF RunOK
  <2>5. RunOK(x, arrived, stored')
    BY <1>7, <2>4
  <2>6. PICK q \in Item : wk' = [wk EXCEPT ![w] = q] /\ \A y, m, S : ItemOK(q, y, m, S)
    BY <1>7, NextItemSteps
  <2>7. ItemOK(q, runs'[q.run], arrived, stored')
    BY <2>6
  <2>8. runs[r].status # "none" => x.status # "none" /\ x.due = runs[r].due
    BY <1>6
  <2> QED
    BY <1>7, <1>8, <2>1, <2>5, <2>6, <2>7, <2>8, StoredTyped, StepKeeps
<1> QED
  BY <1>7, <1>9, <1>10

LEMMA WorkerStepKeeps ==
  ASSUME ArchiveInv, NEW w \in Workers, WorkerStep(w)
  PROVE  ArchiveInv'
  BY ScanKeeps, TakeKeeps, MarkKeeps, HeartbeatKeeps, FetchKeeps, UpsertKeeps, SaveKeeps,
     FinishKeeps DEF WorkerStep

LEMMA ArchiveNext == ArchiveInv /\ [Next]_vars => ArchiveInv'
<1> SUFFICES ASSUME ArchiveInv, [Next]_vars PROVE ArchiveInv'
  OBVIOUS
<1>1. CASE UNCHANGED vars
  BY <1>1 DEF vars, ArchiveInv, TypeInv, LedgerBacked, ItemsBacked, AskersBacked
<1>2. CASE Next
  BY <1>2, ArriveKeeps, LearnKeeps, LeaseKeeps, AskerStepKeeps, WorkerStepKeeps, CrashKeeps DEF Next
<1> QED
  BY <1>1, <1>2

LEMMA ArchiveSafe == Spec => []ArchiveInv
  BY ArchiveInit, ArchiveNext, PTL DEF Spec

\* The state always has its types.
THEOREM ArchiveTypeCorrect == Spec => []ArchiveTypeOK
<1>1. ArchiveInv => ArchiveTypeOK
  BY DEF ArchiveInv, TypeInv, ArchiveTypeOK, Run, Item, PCs, Asking
<1> QED
  BY <1>1, ArchiveSafe, PTL

\* No message is lost: all messages up to every cursor of the ledger are stored,
\* whatever failed, died, was taken over or ran beside another run.
THEOREM CursorsAreBacked == Spec => []NothingBelowCursorMissing
<1>1. ArchiveInv => NothingBelowCursorMissing
  BY DEF ArchiveInv, LedgerBacked, RunOK, NothingBelowCursorMissing, Used
<1> QED
  BY <1>1, ArchiveSafe, PTL

\* A run that says it succeeded stored everything WeCom held when it was asked
\* for.
THEOREM SuccessIsComplete == Spec => []SucceededIsComplete
<1>1. ArchiveInv => SucceededIsComplete
  BY DEF ArchiveInv, LedgerBacked, RunOK, SucceededIsComplete, Used
<1> QED
  BY <1>1, ArchiveSafe, PTL

--------------------------------------------------------------------------------

\* A step writes at most one row, and not one that succeeded.
Spares(r) ==
    /\ \A s \in RunIds : s # r => runs'[s] = runs[s]
    /\ runs[r].status = "succeeded" => runs'[r] = runs[r]

LEMMA WriteSpares ==
  ASSUME ArchiveInv, NEW r \in RunIds, NEW x, runs' = [runs EXCEPT ![r] = x],
         runs[r].status = "succeeded" => x = runs[r]
  PROVE  Spares(r)
  BY Typed DEF Spares

LEMMA RequeueSpares ==
  ASSUME ArchiveInv, NEW r \in RunIds, runs' = [runs EXCEPT ![r] = Requeued(runs[r])]
  PROVE  Spares(r)
<1>1. runs[r].status = "succeeded" => Requeued(runs[r]) = runs[r]
  BY DEF Requeued
<1> QED
  BY <1>1, WriteSpares

LEMMA AskerSpares ==
  ASSUME ArchiveInv, NEW e \in Enqueuers, EnqueueStep(e)
  PROVE  UNCHANGED runs \/ \E r \in RunIds : Spares(r)
<1>1. CASE CheckBusy(e) \/ ReadCursor(e) \/ Probe(e)
  BY <1>1, Zenon DEF CheckBusy, ReadCursor, Probe
<1>2. CASE EnqueueArchiveSync(e)
  <2>1. CASE \E r \in SameKey(e) : runs' = [runs EXCEPT ![r] = Requeued(@)]
    <3>1. PICK r \in RunIds : runs' = [runs EXCEPT ![r] = Requeued(runs[r])]
      BY <2>1 DEF SameKey, Used
    <3> QED
      BY <3>1, RequeueSpares
  <2>2. CASE MayAdd(e) /\ \E x : runs' = [runs EXCEPT ![Min(Free)] = x]
    <3>1. Free # {}
      <4>1. ASSUME Free = {} PROVE Cardinality(Free) = 0
        BY <4>1, FS_EmptySet
      <4> QED
        BY <2>2, <4>1, ArchiveAssumption DEF MayAdd
    <3>2. PICK r \in RunIds : r = Min(Free) /\ runs[r].status = "none"
      BY <3>1, FreeHasMin
    <3>3. PICK x : runs' = [runs EXCEPT ![r] = x]
      BY <2>2, <3>2
    <3> QED
      BY <3>2, <3>3, WriteSpares
  <2> QED
    BY <1>2, <2>1, <2>2, Zenon DEF EnqueueArchiveSync
<1> QED
  BY <1>1, <1>2 DEF EnqueueStep

\* Whatever a worker writes under its fence, the row is running.
LEMMA WorkerSpares ==
  ASSUME ArchiveInv, NEW w \in Workers, WorkerStep(w) \/ Crash(w)
  PROVE  UNCHANGED runs \/ \E r \in RunIds : Spares(r)
<1>1. PICK r \in RunIds : r = wk[w].run
  BY OfWorker
<1>2. CASE Scan(w) \/ Fetch(w) \/ UpsertArchiveMessage(w) \/ Crash(w)
  BY <1>2, Zenon DEF Scan, Fetch, UpsertArchiveMessage, Crash
<1>3. CASE Take(w)
  <2>1. PICK s \in RunIds : runs' = [runs EXCEPT ![s] = Requeued(runs[s])]
    <3>1. PICK s \in wk[w].todo : runs' = [runs EXCEPT ![s] = Requeued(runs[s])]
      BY <1>3, Zenon DEF Take
    <3> QED
      BY <3>1, OfWorker DEF Item
  <2> QED
    BY <2>1, RequeueSpares
<1>4. CASE MarkArchiveSyncRunning(w)
  <2>1. \/ UNCHANGED runs
        \/ /\ runs[r].status = "queued"
           /\ runs' = [runs EXCEPT ![r].status = "running", ![r].holder = w, ![r].expired = FALSE]
    BY <1>1, <1>4, Zenon DEF MarkArchiveSyncRunning
  <2> QED
    BY <2>1, Typed DEF Spares
<1>5. CASE HeartbeatArchiveSync(w)
  <2>1. \/ UNCHANGED runs
        \/ runs[r].status = "running" /\ runs' = [runs EXCEPT ![r].expired = FALSE]
    BY <1>1, <1>5, Zenon DEF HeartbeatArchiveSync, Fenced
  <2> QED
    BY <2>1, Typed DEF Spares
<1>6. CASE SaveArchiveSyncCursor(w)
  <2>1. \/ UNCHANGED runs
        \/ runs[r].status = "running" /\ runs' = [runs EXCEPT ![r].cursor = wk[w].last]
    BY <1>1, <1>6, Zenon DEF SaveArchiveSyncCursor, Fenced
  <2> QED
    BY <2>1, Typed DEF Spares
<1>7. CASE finishArchiveSync(w)
  <2>1. \/ UNCHANGED runs
        \/ /\ runs[r].status = "running"
           /\ \E status : runs' = [runs EXCEPT ![r].status = status, ![r].cursor = wk[w].cursor,
                                               ![r].holder = NoWorker, ![r].expired = FALSE]
    BY <1>1, <1>7, Zenon DEF finishArchiveSync, Fenced
  <2>2. CASE UNCHANGED runs
    BY <2>2
  <2>3. CASE runs[r].status = "running" /\ ~UNCHANGED runs
    <3>1. PICK status : runs' = [runs EXCEPT ![r].status = status, ![r].cursor = wk[w].cursor,
                                             ![r].holder = NoWorker, ![r].expired = FALSE]
      BY <2>1, <2>3, Zenon
    <3>2. PICK x : x = [runs[r] EXCEPT !.status = status, !.cursor = wk[w].cursor,
                                       !.holder = NoWorker, !.expired = FALSE]
      OBVIOUS
    <3>3. runs' = [runs EXCEPT ![r] = x]
      BY <3>1, <3>2, Typed
    <3>4. runs[r].status = "succeeded" => x = runs[r]
      BY <2>3
    <3> QED
      BY <3>3, <3>4, WriteSpares
  <2> QED
    BY <2>1, <2>2, <2>3, Zenon
<1> QED
  BY <1>2, <1>3, <1>4, <1>5, <1>6, <1>7 DEF WorkerStep

\* Once a run succeeded nothing reopens it or changes its cursor: a row is taken
\* up again only from `failed' or from a lease that ran out, and every write of a
\* run asks whether it is running still.
THEOREM SuccessIsFinal == Spec => SucceededIsFinal
<1>1. ASSUME ArchiveInv, [Next]_vars
      PROVE  \A r \in RunIds : runs[r].status = "succeeded" => runs'[r] = runs[r]
  <2>1. UNCHANGED runs \/ \E r \in RunIds : Spares(r)
    <3>1. CASE UNCHANGED vars
      BY <3>1 DEF vars
    <3>2. CASE Arrive \/ \E s \in 1 .. MaxSeq : Learn(s)
      BY <3>2, Zenon DEF Arrive, Learn
    <3>3. CASE \E r \in RunIds : LeaseRunsOut(r)
      <4>1. PICK r \in RunIds : /\ runs[r].status = "running"
                                /\ runs' = [runs EXCEPT ![r].expired = TRUE]
        BY <3>3, Zenon DEF LeaseRunsOut
      <4>2. Spares(r)
        BY <4>1, Typed, <1>1 DEF Spares
      <4> QED
        BY <4>2
    <3> QED
      BY <1>1, <3>1, <3>2, <3>3, AskerSpares, WorkerSpares DEF Next
  <2> QED
    BY <2>1 DEF Spares
<1> QED
  BY <1>1, ArchiveSafe, PTL DEF Spec, SucceededIsFinal

================================================================================
