--------------------------- MODULE ArchiveCronProofs ---------------------------
(***************************************************************************)
(* Proofs about the older archive cron, for any number of processes and    *)
(* any page limit.                                                         *)
(***************************************************************************)
EXTENDS ArchiveCron, SequenceTheorems, TLAPS

Pass == [pc : {"idle", "fetch", "store", "update", "insert"}, cursor : 0 .. MaxSeq,
         next : 1 .. MaxSeq + 1, last : 0 .. MaxSeq]

TypeInv ==
    /\ arrived \in 0 .. MaxSeq
    /\ stored \subseteq 1 .. MaxSeq
    /\ cursorRows \in Seq(1 .. MaxSeq) /\ Len(cursorRows) <= MaxRows
    /\ pass \in [Processes -> Pass]
    /\ faults \in 0 .. MaxFaults

\* All messages up to n are stored.
Backed(n) == 1 .. n \subseteq stored

\* Every cursor row, not only the newest, is backed by the tables.
RowsBacked == \A i \in 1 .. Len(cursorRows) : Backed(cursorRows[i])

\* A pass has stored all messages before the one it is at, and all up to the
\* cursor it is going to write.
PassBacked(q) ==
    /\ Backed(q.cursor)
    /\ q.pc = "store" => /\ q.cursor < q.next /\ q.next <= q.last /\ q.last <= arrived
                         /\ Backed(q.next - 1)
    /\ q.pc \in {"update", "insert"} => q.last > 0 /\ Backed(q.last)

PassesBacked == \A p \in Processes : PassBacked(pass[p])

CronInv == TypeInv /\ RowsBacked /\ PassesBacked

LEMMA MinOfTwo ==
  ASSUME NEW a \in Int, NEW b \in Int
  PROVE  Min({a, b}) \in {a, b} /\ Min({a, b}) <= a /\ Min({a, b}) <= b
<1>1. \E x \in {a, b} : \A y \in {a, b} : x =< y
  BY a <= b \/ b <= a
<1> QED
  BY <1>1 DEF Min

LEMMA NoPassBacked == NoPass \in Pass /\ PassBacked(NoPass)
  BY CronAssumption DEF NoPass, Pass, PassBacked, Backed

LEMMA CronInit == Init => CronInv
<1> SUFFICES ASSUME Init PROVE CronInv
  OBVIOUS
<1>1. TypeInv
  BY CronAssumption, NoPassBacked DEF Init, TypeInv
<1>2. RowsBacked
  BY DEF Init, RowsBacked
<1>3. PassesBacked
  BY NoPassBacked DEF Init, PassesBacked
<1> QED
  BY <1>1, <1>2, <1>3 DEF CronInv

\* What was backed stays backed: messages are never removed.
LEMMA BackedStays ==
  ASSUME stored \subseteq stored', arrived' = arrived,
         NEW q \in Pass, PassBacked(q)
  PROVE  PassBacked(q)'
  BY DEF PassBacked, Backed

\* A step that writes one pass: the other passes stay backed.
LEMMA PassStepKeeps ==
  ASSUME CronInv, NEW p \in Processes, NEW q \in Pass,
         pass' = [pass EXCEPT ![p] = q], PassBacked(q)',
         stored \subseteq stored', stored' \subseteq 1 .. MaxSeq,
         arrived' = arrived, faults' \in 0 .. MaxFaults,
         RowsBacked', cursorRows' \in Seq(1 .. MaxSeq), Len(cursorRows') <= MaxRows
  PROVE  CronInv'
<1>1. pass \in [Processes -> Pass] /\ PassesBacked
  BY DEF CronInv, TypeInv
<1>2. TypeInv'
  BY <1>1 DEF CronInv, TypeInv
<1>3. ASSUME NEW o \in Processes PROVE PassBacked(pass[o])'
  <2>1. PICK s \in Pass : s = pass[o]
    BY <1>1
  <2>2. PassBacked(s)'
    BY <1>1, <2>1, BackedStays DEF PassesBacked
  <2>3. pass'[o] = IF o = p THEN q ELSE s
    BY <1>1, <2>1
  <2> QED
    BY <2>2, <2>3 DEF PassBacked
<1> QED
  BY <1>2, <1>3 DEF CronInv, PassesBacked

LEMMA RowsStayBacked ==
  ASSUME CronInv, stored \subseteq stored', cursorRows' = cursorRows
  PROVE  RowsBacked' /\ cursorRows' \in Seq(1 .. MaxSeq) /\ Len(cursorRows') <= MaxRows
  BY DEF CronInv, TypeInv, RowsBacked, Backed

\* The end of a pass, for whatever reason, and whatever it leaves in the rows.
LEMMA EndKeeps ==
  ASSUME CronInv, NEW p \in Processes, End(p), UNCHANGED <<arrived, stored>>,
         faults' \in 0 .. MaxFaults,
         RowsBacked', cursorRows' \in Seq(1 .. MaxSeq), Len(cursorRows') <= MaxRows
  PROVE  CronInv'
<1>1. PassBacked(NoPass)'
  BY NoPassBacked DEF PassBacked, Backed
<1>2. stored \subseteq 1 .. MaxSeq
  BY DEF CronInv, TypeInv
<1> QED
  BY <1>1, <1>2, NoPassBacked, PassStepKeeps DEF End

LEMMA FaultTyped ==
  ASSUME CronInv
  PROVE  /\ faults \in 0 .. MaxFaults
         /\ Fault => faults' \in 0 .. MaxFaults
  BY CronAssumption DEF CronInv, TypeInv, Fault

LEMMA PassTypes ==
  ASSUME CronInv, NEW p \in Processes
  PROVE  /\ pass[p] \in Pass /\ PassBacked(pass[p])
         /\ pass[p].cursor \in Nat /\ pass[p].next \in Nat /\ pass[p].last \in Nat
         /\ pass[p].cursor <= MaxSeq /\ pass[p].last <= MaxSeq
         /\ arrived \in Nat /\ arrived <= MaxSeq /\ MaxSeq \in Nat
<1>1. pass[p] \in Pass /\ PassBacked(pass[p])
  BY DEF CronInv, TypeInv, PassesBacked
<1> QED
  BY <1>1, CronAssumption DEF Pass, CronInv, TypeInv

LEMMA ArriveKeeps == CronInv /\ Arrive => CronInv'
<1> SUFFICES ASSUME CronInv, Arrive PROVE CronInv'
  OBVIOUS
<1>1. UNCHANGED <<stored, cursorRows, pass, faults>> /\ arrived' = arrived + 1
  BY DEF Arrive
<1>2. TypeInv'
  BY CronAssumption DEF CronInv, TypeInv, Arrive
<1>3. RowsBacked'
  BY <1>1, RowsStayBacked
<1>4. ASSUME NEW p \in Processes PROVE PassBacked(pass[p])'
  BY <1>1, PassTypes DEF PassBacked, Backed
<1> QED
  BY <1>2, <1>3, <1>4 DEF CronInv, PassesBacked

LEMMA ReadCursorKeeps ==
  ASSUME CronInv, NEW p \in Processes, ReadCursor(p)
  PROVE  CronInv'
<1>1. PICK n \in 0 .. MaxSeq : n = WorkMessageArchiveCursor /\ Backed(n)
  <2>1. cursorRows \in Seq(1 .. MaxSeq) /\ RowsBacked
    BY DEF CronInv, TypeInv
  <2>2. CASE cursorRows = << >>
    BY <2>2, CronAssumption DEF WorkMessageArchiveCursor, Backed
  <2>3. CASE cursorRows # << >>
    <3>1. Len(cursorRows) \in 1 .. Len(cursorRows)
      BY <2>1, <2>3, EmptySeq
    <3>2. cursorRows[Len(cursorRows)] \in 1 .. MaxSeq
      BY <2>1, <3>1, ElementOfSeq
    <3> QED
      BY <2>1, <2>3, <3>1, <3>2 DEF WorkMessageArchiveCursor, RowsBacked
  <2> QED
    BY <2>2, <2>3
<1>2. UNCHANGED <<arrived, stored, cursorRows, faults>>
  BY DEF ReadCursor
<1>3. PICK q \in Pass : /\ pass' = [pass EXCEPT ![p] = q]
                        /\ q.pc = "fetch" /\ q.cursor = n
  <2>1. [pass[p] EXCEPT !.pc = "fetch", !.cursor = n] \in Pass
    BY PassTypes DEF Pass
  <2>2. pass' = [pass EXCEPT ![p] = [pass[p] EXCEPT !.pc = "fetch", !.cursor = n]]
    BY <1>1 DEF ReadCursor, CronInv, TypeInv
  <2> QED
    BY <2>1, <2>2, PassTypes DEF Pass
<1>4. PassBacked(q)'
  BY <1>1, <1>2, <1>3 DEF PassBacked, Backed
<1>5. stored' \subseteq 1 .. MaxSeq /\ faults' \in 0 .. MaxFaults
  BY <1>2 DEF CronInv, TypeInv
<1> QED
  BY <1>2, <1>3, <1>4, <1>5, RowsStayBacked, PassStepKeeps

LEMMA FetchKeeps ==
  ASSUME CronInv, NEW p \in Processes, FetchWorkMessageArchive(p)
  PROVE  CronInv'
<1>1. UNCHANGED <<arrived, stored, cursorRows>> /\ faults' \in 0 .. MaxFaults
  BY FaultTyped DEF FetchWorkMessageArchive
<1>2. CASE End(p)
  BY <1>1, <1>2, RowsStayBacked, EndKeeps
<1>3. PICK last \in Int : /\ last = PageEnd(pass[p].cursor)
                          /\ last <= arrived
  <2>1. PICK b \in Int : b = pass[p].cursor + Limit
    BY PassTypes, CronAssumption
  <2>2. arrived \in Int
    BY PassTypes
  <2>3. PageEnd(pass[p].cursor) \in {arrived, b} /\ PageEnd(pass[p].cursor) <= arrived
    BY <2>1, <2>2, MinOfTwo, Zenon DEF PageEnd
  <2> QED
    BY <2>1, <2>2, <2>3
<1>4. CASE /\ last > pass[p].cursor
           /\ pass' = [pass EXCEPT ![p].pc = "store", ![p].next = pass[p].cursor + 1,
                                   ![p].last = last]
  <2>1. PICK q \in Pass : /\ pass' = [pass EXCEPT ![p] = q]
                          /\ q.pc = "store" /\ q.cursor = pass[p].cursor
                          /\ q.next = pass[p].cursor + 1 /\ q.last = last
    <3>1. PICK m \in 1 .. MaxSeq + 1, l \in 0 .. MaxSeq : m = pass[p].cursor + 1 /\ l = last
      BY <1>3, <1>4, PassTypes
    <3>2. pass' = [pass EXCEPT ![p] =
            [pass[p] EXCEPT !.pc = "store", !.next = pass[p].cursor + 1, !.last = last]]
      BY <1>4 DEF CronInv, TypeInv
    <3>3. PICK r \in Pass : r = [pass[p] EXCEPT !.pc = "store", !.next = m, !.last = l]
      BY PassTypes DEF Pass
    <3>4. r.pc = "store" /\ r.cursor = pass[p].cursor /\ r.next = m /\ r.last = l
      BY <3>3, PassTypes DEF Pass
    <3> QED
      BY <3>1, <3>2, <3>3, <3>4
  <2>2. PassBacked(q)'
    BY <1>1, <1>3, <1>4, <2>1, PassTypes DEF PassBacked, Backed
  <2>3. stored' \subseteq 1 .. MaxSeq
    BY <1>1 DEF CronInv, TypeInv
  <2> QED
    BY <1>1, <2>1, <2>2, <2>3, RowsStayBacked, PassStepKeeps
<1> QED
  BY <1>2, <1>3, <1>4 DEF FetchWorkMessageArchive

\* A pass stops after storing all messages before s.
LEMMA StopKeeps ==
  ASSUME CronInv, NEW p \in Processes, NEW s \in 1 .. MaxSeq + 1, StopAt(p, s),
         arrived' = arrived, cursorRows' = cursorRows, faults' \in 0 .. MaxFaults,
         stored \subseteq stored', stored' \subseteq 1 .. MaxSeq, Backed(s - 1)'
  PROVE  CronInv'
<1>1. PICK q \in Pass : pass' = [pass EXCEPT ![p] = q] /\ PassBacked(q)'
  <2>1. CASE s - 1 > pass[p].cursor
    <3>1. PICK q \in Pass : /\ q = [pass[p] EXCEPT !.pc = "update", !.last = s - 1, !.next = 1]
                            /\ q.pc = "update" /\ q.cursor = pass[p].cursor
                            /\ q.last = s - 1
      <4>1. PICK m \in 1 .. MaxSeq + 1, l \in 0 .. MaxSeq : m = 1 /\ l = s - 1
        BY PassTypes
      <4>2. [pass[p] EXCEPT !.pc = "update", !.last = s - 1, !.next = 1]
              = [pass[p] EXCEPT !.pc = "update", !.next = m, !.last = l]
        BY <4>1, PassTypes DEF Pass
      <4>3. PICK r \in Pass : r = [pass[p] EXCEPT !.pc = "update", !.next = m, !.last = l]
        BY PassTypes DEF Pass
      <4>4. r.pc = "update" /\ r.cursor = pass[p].cursor /\ r.next = m /\ r.last = l
        BY <4>3, PassTypes DEF Pass
      <4> QED
        BY <4>1, <4>2, <4>3, <4>4
    <3>2. PassBacked(q)'
      BY <2>1, <3>1, PassTypes DEF PassBacked, Backed
    <3>3. pass' = [pass EXCEPT ![p] = q]
      BY <2>1, <3>1 DEF StopAt, CronInv, TypeInv
    <3> QED
      BY <3>2, <3>3
  <2>2. CASE ~(s - 1 > pass[p].cursor)
    <3>1. pass' = [pass EXCEPT ![p] = NoPass]
      BY <2>2 DEF StopAt, CronInv, TypeInv
    <3>2. PassBacked(NoPass)'
      BY NoPassBacked DEF PassBacked, Backed
    <3> QED
      BY <3>1, <3>2, NoPassBacked
  <2> QED
    BY <2>1, <2>2
<1> QED
  BY <1>1, RowsStayBacked, PassStepKeeps

LEMMA UpsertKeeps ==
  ASSUME CronInv, NEW p \in Processes, UpsertWorkMessageArchive(p)
  PROVE  CronInv'
<1>1. PICK s \in 1 .. MaxSeq : s = pass[p].next
  BY PassTypes DEF UpsertWorkMessageArchive, PassBacked
<1>2. /\ UNCHANGED <<arrived, cursorRows>> /\ faults' \in 0 .. MaxFaults
      /\ stored \subseteq stored' /\ stored' \subseteq 1 .. MaxSeq
  BY <1>1, FaultTyped DEF UpsertWorkMessageArchive, CronInv, TypeInv
<1>3. /\ Backed(s - 1)' /\ (stored' = stored \cup {s} => Backed(s)')
      /\ pass[p].cursor < s /\ s <= pass[p].last /\ pass[p].last <= arrived
  BY <1>1, <1>2, PassTypes DEF UpsertWorkMessageArchive, PassBacked, Backed
<1>4. CASE StopAt(p, s)
  <2>1. s \in 1 .. MaxSeq + 1
    BY CronAssumption
  <2> QED
    BY <1>2, <1>3, <1>4, <2>1, StopKeeps
<1>5. CASE stored' = stored \cup {s} /\ StopAt(p, s + 1)
  <2>1. s + 1 \in 1 .. MaxSeq + 1 /\ (s + 1) - 1 = s
    BY CronAssumption
  <2>2. Backed((s + 1) - 1)'
    BY <1>3, <1>5, <2>1 DEF Backed
  <2> QED
    BY <1>2, <1>5, <2>1, <2>2, StopKeeps
<1>6. CASE /\ stored' = stored \cup {s} /\ s < pass[p].last
           /\ pass' = [pass EXCEPT ![p].next = s + 1]
  <2>1. PICK q \in Pass : /\ pass' = [pass EXCEPT ![p] = q]
                          /\ q.pc = "store" /\ q.cursor = pass[p].cursor
                          /\ q.next = s + 1 /\ q.last = pass[p].last
    <3>1. [pass[p] EXCEPT !.next = s + 1] \in Pass
      BY CronAssumption, PassTypes DEF Pass
    <3>2. pass' = [pass EXCEPT ![p] = [pass[p] EXCEPT !.next = s + 1]]
      BY <1>6 DEF CronInv, TypeInv
    <3>3. pass[p].pc = "store"
      BY DEF UpsertWorkMessageArchive
    <3> QED
      BY <3>1, <3>2, <3>3, PassTypes DEF Pass
  <2>2. PassBacked(q)'
    BY <1>2, <1>3, <1>6, <2>1, PassTypes DEF PassBacked, Backed
  <2> QED
    BY <1>2, <2>1, <2>2, RowsStayBacked, PassStepKeeps
<1> QED
  BY <1>1, <1>4, <1>5, <1>6 DEF UpsertWorkMessageArchive

LEMMA UpdateKeeps ==
  ASSUME CronInv, NEW p \in Processes, UpdateCursor(p)
  PROVE  CronInv'
<1>1. /\ UNCHANGED <<arrived, stored>> /\ faults' \in 0 .. MaxFaults
      /\ stored' \subseteq 1 .. MaxSeq
  BY FaultTyped DEF UpdateCursor, CronInv, TypeInv
<1>2. pass[p].last \in 1 .. MaxSeq /\ Backed(pass[p].last)
  BY PassTypes DEF UpdateCursor, PassBacked
<1>3. CASE End(p) /\ cursorRows' = cursorRows
  BY <1>1, <1>3, RowsStayBacked, EndKeeps
<1>4. CASE /\ Len(cursorRows) > 0 /\ End(p)
           /\ cursorRows' = [cursorRows EXCEPT ![Len(cursorRows)] = pass[p].last]
  <2>1. cursorRows \in Seq(1 .. MaxSeq) /\ Len(cursorRows) \in 1 .. Len(cursorRows)
    BY <1>4, LenProperties DEF CronInv, TypeInv
  <2>2. /\ cursorRows' \in Seq(1 .. MaxSeq) /\ Len(cursorRows') = Len(cursorRows)
        /\ \A i \in 1 .. Len(cursorRows) :
              cursorRows'[i] = IF i = Len(cursorRows) THEN pass[p].last ELSE cursorRows[i]
    BY <1>2, <1>4, <2>1, ExceptSeq
  <2>3. RowsBacked'
    BY <1>1, <1>2, <2>2 DEF CronInv, RowsBacked, Backed
  <2> QED
    BY <1>1, <1>4, <2>2, <2>3, EndKeeps DEF CronInv, TypeInv
<1>5. CASE pass' = [pass EXCEPT ![p].pc = "insert"] /\ cursorRows' = cursorRows
  <2>1. PICK q \in Pass : /\ pass' = [pass EXCEPT ![p] = q]
                          /\ q.pc = "insert" /\ q.cursor = pass[p].cursor
                          /\ q.last = pass[p].last
    <3>1. [pass[p] EXCEPT !.pc = "insert"] \in Pass
      BY PassTypes DEF Pass
    <3>2. pass' = [pass EXCEPT ![p] = [pass[p] EXCEPT !.pc = "insert"]]
      BY <1>5 DEF CronInv, TypeInv
    <3> QED
      BY <3>1, <3>2, PassTypes DEF Pass
  <2>2. PassBacked(q)'
    BY <1>1, <1>2, <2>1, PassTypes DEF PassBacked, Backed
  <2> QED
    BY <1>1, <1>5, <2>1, <2>2, RowsStayBacked, PassStepKeeps
<1> QED
  BY <1>3, <1>4, <1>5 DEF UpdateCursor

LEMMA InsertKeeps ==
  ASSUME CronInv, NEW p \in Processes, InsertCursor(p)
  PROVE  CronInv'
<1>1. UNCHANGED <<arrived, stored>> /\ faults' \in 0 .. MaxFaults /\ End(p)
  BY FaultTyped DEF InsertCursor
<1>2. CASE cursorRows' = cursorRows
  BY <1>1, <1>2, RowsStayBacked, EndKeeps
<1>3. CASE /\ Len(cursorRows) < MaxRows
           /\ cursorRows' = Append(cursorRows, pass[p].last)
  <2>1. pass[p].last \in 1 .. MaxSeq /\ Backed(pass[p].last)
    <3>1. pass[p].pc = "insert"
      BY Zenon DEF InsertCursor
    <3>2. pass[p].last > 0 /\ Backed(pass[p].last)
      BY <3>1, PassTypes DEF PassBacked
    <3>3. pass[p].last \in Nat /\ pass[p].last <= MaxSeq /\ MaxSeq \in Nat
      BY PassTypes
    <3> QED
      BY <3>2, <3>3
  <2>2. cursorRows \in Seq(1 .. MaxSeq) /\ Len(cursorRows) \in Nat
    BY LenProperties DEF CronInv, TypeInv
  <2>3. /\ cursorRows' \in Seq(1 .. MaxSeq) /\ Len(cursorRows') = Len(cursorRows) + 1
        /\ \A i \in 1 .. Len(cursorRows) : cursorRows'[i] = cursorRows[i]
        /\ cursorRows'[Len(cursorRows) + 1] = pass[p].last
    BY <1>3, <2>1, <2>2, AppendProperties
  <2>4. RowsBacked'
    <3>1. ASSUME NEW i \in 1 .. Len(cursorRows) + 1 PROVE 1 .. cursorRows'[i] \subseteq stored'
      <4>1. CASE i \in 1 .. Len(cursorRows)
        BY <1>1, <2>3, <4>1 DEF CronInv, RowsBacked, Backed
      <4>2. CASE i = Len(cursorRows) + 1
        BY <1>1, <2>1, <2>3, <4>2 DEF Backed
      <4> QED
        BY <2>2, <4>1, <4>2
    <3> QED
      BY <2>3, <3>1 DEF RowsBacked, Backed
  <2>5. Len(cursorRows') <= MaxRows
    BY <1>3, <2>2, <2>3, CronAssumption
  <2> QED
    BY <1>1, <2>3, <2>4, <2>5, EndKeeps
<1> QED
  BY <1>2, <1>3 DEF InsertCursor

LEMMA CrashKeeps ==
  ASSUME CronInv, NEW p \in Processes, Crash(p)
  PROVE  CronInv'
<1>1. /\ UNCHANGED <<arrived, stored, cursorRows>> /\ faults' \in 0 .. MaxFaults
      /\ End(p)
  BY FaultTyped DEF Crash
<1> QED
  BY <1>1, RowsStayBacked, EndKeeps

LEMMA CronNext == CronInv /\ [Next]_vars => CronInv'
<1>1. ASSUME CronInv, UNCHANGED vars PROVE CronInv'
  <2>1. TypeInv' /\ RowsBacked'
    BY <1>1 DEF vars, CronInv, TypeInv, RowsBacked, Backed
  <2>2. PassesBacked'
    BY <1>1 DEF vars, CronInv, PassesBacked, PassBacked, Backed
  <2> QED
    BY <2>1, <2>2 DEF CronInv
<1> QED
  BY <1>1, ArriveKeeps, ReadCursorKeeps, FetchKeeps, UpsertKeeps, UpdateKeeps,
     InsertKeeps, CrashKeeps DEF Next, PassStep

LEMMA CronSafe == Spec => []CronInv
  BY CronInit, CronNext, PTL DEF Spec

\* Type correctness: no cursor row and no pass is ahead of the messages that
\* exist.
THEOREM CronTypeCorrect == Spec => []CronTypeOK
<1>1. CronInv => CronTypeOK
  <2> SUFFICES ASSUME CronInv PROVE CronTypeOK
    OBVIOUS
  <2>1. \A i \in 1 .. Len(cursorRows) : cursorRows[i] \in 1 .. MaxSeq
    BY ElementOfSeq DEF CronInv, TypeInv
  <2> QED
    BY <2>1 DEF CronInv, TypeInv, CronTypeOK, Pass
<1> QED
  BY <1>1, CronSafe, PTL

\* No pass begins behind a message that was not stored: every cursor that any
\* process writes, however late, is backed by the tables, so that overwriting a
\* newer cursor only repeats work.
THEOREM CronSkipsNothing == Spec => []NoMessageSkipped
<1>1. CronInv => NoMessageSkipped
  <2> SUFFICES ASSUME CronInv PROVE NoMessageSkipped
    OBVIOUS
  <2>1. CASE cursorRows = << >>
    BY <2>1 DEF NoMessageSkipped, WorkMessageArchiveCursor
  <2>2. CASE cursorRows # << >>
    <3>1. Len(cursorRows) \in 1 .. Len(cursorRows)
      BY <2>2, EmptySeq DEF CronInv, TypeInv
    <3> QED
      BY <2>2, <3>1 DEF CronInv, RowsBacked, Backed, NoMessageSkipped, WorkMessageArchiveCursor
  <2> QED
    BY <2>1, <2>2
<1> QED
  BY <1>1, CronSafe, PTL

================================================================================
