---------------------------- MODULE ArchiveCron ----------------------------
(***************************************************************************)
(* The older archive synchronisation, run by a timer and by the archive    *)
(* callback.  It keeps no ledger: it reads the corporation's cursor row,   *)
(* fetches a page, stores the messages until one fails, and writes the     *)
(* cursor of the last one stored.  A mutex keeps the passes of one process *)
(* apart, nothing those of two processes, and the cursor is overwritten    *)
(* with no look at its value: an update of the newest row, and an insert   *)
(* when that changed nothing.                                              *)
(***************************************************************************)
EXTENDS Integers, Sequences, FiniteSetsExt

CONSTANTS
    Processes,   \* processes, one pass at a time each
    Limit,       \* messages of a page
    MaxSeq,      \* bound: messages that arrive
    MaxRows,     \* bound: cursor rows
    MaxFaults    \* bound: crashes, failed calls and lost replies

ASSUME CronAssumption ==
    Limit \in Nat \ {0} /\ MaxSeq \in Nat /\ MaxRows \in Nat \ {0} /\ MaxFaults \in Nat

VARIABLES
    arrived,     \* WeCom holds the messages 1 .. arrived
    stored,      \* the messages in the archive tables
    cursorRows,  \* the corporation's rows of mc_work_message_id, oldest first
    pass,        \* what each process is doing
    faults

vars == <<arrived, stored, cursorRows, pass, faults>>

NoPass == [pc |-> "idle", cursor |-> 0, next |-> 1, last |-> 0]

Init ==
    /\ arrived = 0
    /\ stored = {}
    /\ cursorRows = << >>
    /\ pass = [p \in Processes |-> NoPass]
    /\ faults = 0

Fault == faults < MaxFaults /\ faults' = faults + 1
End(p) == pass' = [pass EXCEPT ![p] = NoPass]

Arrive ==
    /\ arrived < MaxSeq
    /\ arrived' = arrived + 1
    /\ UNCHANGED <<stored, cursorRows, pass, faults>>

\* WorkMessageArchiveCursor: the newest row's value, zero without one.
WorkMessageArchiveCursor == IF cursorRows = << >> THEN 0 ELSE cursorRows[Len(cursorRows)]

\* syncCorp reads the cursor and fetches the page after it.
ReadCursor(p) ==
    /\ pass[p].pc = "idle"
    /\ pass' = [pass EXCEPT ![p].pc = "fetch", ![p].cursor = WorkMessageArchiveCursor]
    /\ UNCHANGED <<arrived, stored, cursorRows, faults>>

\* The last message of the page the bridge hands out.
PageEnd(from) == Min({arrived, from + Limit})

FetchWorkMessageArchive(p) ==
    LET from == pass[p].cursor
        last == PageEnd(from)
    IN  /\ pass[p].pc = "fetch"
        /\ \/ /\ last > from
              /\ pass' = [pass EXCEPT ![p].pc = "store", ![p].next = from + 1, ![p].last = last]
              /\ UNCHANGED faults
           \/ last <= from /\ End(p) /\ UNCHANGED faults
           \/ Fault /\ End(p)
        /\ UNCHANGED <<arrived, stored, cursorRows>>

\* The pass is over, or its cursor is to be written, when message s is not
\* stored.
StopAt(p, s) ==
    pass' = [pass EXCEPT ![p] = IF s - 1 > @.cursor THEN [@ EXCEPT !.pc = "update", !.last = s - 1, !.next = 1]
                                                   ELSE NoPass]

\* Faulty variant (UpsertWorkMessageArchive): a message that fails is passed over.
UpsertOrContinue(p) ==
    LET s == pass[p].next
        goOn == pass' = [pass EXCEPT ![p].next = s + 1, ![p].pc = IF s < pass[p].last THEN "store" ELSE "update"]
    IN  /\ pass[p].pc = "store"
        /\ \/ stored' = stored \cup {s} /\ goOn /\ UNCHANGED faults
           \/ Fault /\ goOn /\ UNCHANGED stored
        /\ UNCHANGED <<arrived, cursorRows>>

\* UpsertWorkMessageArchive for one message; the first failure ends the loop,
\* also when only the reply is lost.
UpsertWorkMessageArchive(p) ==
    LET s == pass[p].next
    IN  /\ pass[p].pc = "store"
        /\ \/ /\ stored' = stored \cup {s}
              /\ IF s < pass[p].last THEN pass' = [pass EXCEPT ![p].next = s + 1] ELSE StopAt(p, s + 1)
              /\ UNCHANGED faults
           \/ Fault /\ (stored' = stored \cup {s} \/ UNCHANGED stored) /\ StopAt(p, s)
        /\ UNCHANGED <<arrived, cursorRows>>

\* UpdateWorkMessageArchiveCursor, its update: the newest row takes the value.
\* A row that has the value, and today's second, counts as unchanged.
UpdateCursor(p) ==
    LET n == Len(cursorRows)
        write == cursorRows' = [cursorRows EXCEPT ![n] = pass[p].last]
    IN  /\ pass[p].pc = "update"
        /\ \/ n > 0 /\ write /\ End(p) /\ UNCHANGED faults
           \/ /\ (IF n = 0 THEN TRUE ELSE cursorRows[n] = pass[p].last)
              /\ n < MaxRows
              /\ pass' = [pass EXCEPT ![p].pc = "insert"]
              /\ UNCHANGED <<cursorRows, faults>>
           \/ Fault /\ End(p) /\ UNCHANGED cursorRows
        /\ UNCHANGED <<arrived, stored>>

\* Its insert, when the update found no row to change.
InsertCursor(p) ==
    /\ pass[p].pc = "insert"
    /\ \/ Len(cursorRows) < MaxRows /\ cursorRows' = Append(cursorRows, pass[p].last) /\ UNCHANGED faults
       \/ Len(cursorRows) >= MaxRows /\ UNCHANGED <<cursorRows, faults>>
       \/ Fault /\ UNCHANGED cursorRows
    /\ End(p)
    /\ UNCHANGED <<arrived, stored>>

Crash(p) ==
    /\ pass[p].pc # "idle"
    /\ Fault
    /\ End(p)
    /\ UNCHANGED <<arrived, stored, cursorRows>>

PassStep(p) ==
    \/ ReadCursor(p) \/ FetchWorkMessageArchive(p) \/ UpsertWorkMessageArchive(p)
    \/ UpdateCursor(p) \/ InsertCursor(p)

Next == Arrive \/ \E p \in Processes : PassStep(p) \/ Crash(p)

Spec == Init /\ [][Next]_vars

-----------------------------------------------------------------------------
\* The state has its types; no cursor passes the last message.
CronTypeOK ==
    /\ arrived \in 0 .. MaxSeq /\ stored \subseteq 1 .. MaxSeq
    /\ Len(cursorRows) <= MaxRows /\ \A i \in 1 .. Len(cursorRows) : cursorRows[i] \in 1 .. MaxSeq
    /\ pass \in [Processes -> [pc : {"idle", "fetch", "store", "update", "insert"}, cursor : 0 .. MaxSeq,
                               next : 1 .. MaxSeq + 1, last : 0 .. MaxSeq]]
    /\ faults \in 0 .. MaxFaults

\* Passes of two processes may take the cursor back and may leave two cursor
\* rows, but no pass ever begins behind a message that was not stored.
NoMessageSkipped == 1 .. WorkMessageArchiveCursor \subseteq stored

=============================================================================
