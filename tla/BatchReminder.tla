--------------------------- MODULE BatchReminder ---------------------------
(***************************************************************************)
(* POST contactMessageBatchSend/remind asks the employees of a batch, one  *)
(* agent message each, to confirm a group send.  Each request names an     *)
(* idempotency key; the first request of a key creates an operation row in *)
(* `submitting` with a five minute lease, sends the messages one by one,   *)
(* and records the totals.  A request may be repeated at any time, and the *)
(* process may die, or the client go away, between any two messages.       *)
(*                                                                         *)
(* The key of a request with a requestId contains neither the batch nor    *)
(* the employee, so Recipients per key rests on an assumption: a request   *)
(* that repeats a key repeats the request, batch and employee included.    *)
(***************************************************************************)
EXTENDS Naturals, FiniteSets

CONSTANTS
    Keys,        \* idempotency keys
    Requests,    \* HTTP requests
    KeyOf,       \* the key a request names
    Recipients,  \* the employees to remind
    NoRequest,   \* the empty lease token
    MaxFaults    \* bound on crashes, lost answers and overrun leases

ASSUME ReminderAssumption ==
    /\ KeyOf \in [Requests -> Keys]
    /\ NoRequest \notin Requests
    /\ IsFiniteSet(Recipients) /\ Recipients # {}
    /\ MaxFaults \in Nat

VARIABLES
    attempt,   \* the operation row of each key
    req,       \* what each request is doing
    reached,   \* per key and employee, how many reminders arrived
    faults

vars == <<attempt, req, reached, faults>>

Closed == {"succeeded", "partial_failed", "failed"}
Answers == {"none", "ok", "reconcile", "partial"}

Init ==
    /\ attempt = [k \in Keys |-> [status |-> "absent", token |-> NoRequest, live |-> FALSE]]
    /\ req = [r \in Requests |-> [pc |-> "start", left |-> {}, failed |-> 0, answer |-> "none"]]
    /\ reached = [k \in Keys |-> [e \in Recipients |-> 0]]
    /\ faults = 0

Fault == faults < MaxFaults /\ faults' = faults + 1

Answer(r, a) == req' = [req EXCEPT ![r].pc = "done", ![r].answer = a]

\* Faulty variant (MayAttempt): an attempt whose lease ran out is taken over.
MayAttemptAgain(k) ==
    \/ attempt[k].status = "absent"
    \/ attempt[k].status = "submitting" /\ ~attempt[k].live

\* createContactBatchReminderAttemptTx: only the request whose insert made the
\* row sends; the lease's end changes nothing.
MayAttempt(k) == attempt[k].status = "absent"

\* PrepareContactBatchDurableReminder.
Prepare(r) ==
    LET k == KeyOf[r]
    IN  /\ req[r].pc = "start"
        /\ \/ /\ MayAttempt(k)
              /\ attempt' = [attempt EXCEPT ![k] = [status |-> "submitting", token |-> r, live |-> TRUE]]
              /\ req' = [req EXCEPT ![r].pc = "send", ![r].left = Recipients]
           \/ /\ ~MayAttempt(k)
              /\ Answer(r, IF attempt[k].status = "succeeded" THEN "ok" ELSE "reconcile")
              /\ UNCHANGED attempt
        /\ UNCHANGED <<reached, faults>>

\* SendAgentTextMessageWithDuplicateCheck: it arrives, or fails, or arrives
\* and the answer is lost; a failure is counted and the loop goes on.
Send(r, e) ==
    LET k == KeyOf[r]
        arrives == reached' = [reached EXCEPT ![k][e] = @ + 1]
    IN  /\ req[r].pc = "send"
        /\ e \in req[r].left
        /\ \/ /\ arrives
              /\ req' = [req EXCEPT ![r].left = @ \ {e}]
              /\ UNCHANGED faults
           \/ /\ Fault
              /\ arrives \/ UNCHANGED reached
              /\ req' = [req EXCEPT ![r].left = @ \ {e}, ![r].failed = @ + 1]
        /\ UNCHANGED attempt

Outcome(n) ==
    CASE n = 0                       -> "succeeded"
      [] n < Cardinality(Recipients) -> "partial_failed"
      [] OTHER                       -> "failed"

\* RecordContactBatchDurableReminder: refused once the lease has run out.
Record(r) ==
    LET k == KeyOf[r]
    IN  /\ req[r].pc = "send"
        /\ req[r].left = {}
        /\ \/ /\ attempt[k].token = r
              /\ attempt[k].live
              /\ attempt' = [attempt EXCEPT ![k] = [status |-> Outcome(req[r].failed), token |-> NoRequest, live |-> FALSE]]
              /\ Answer(r, IF req[r].failed = 0 THEN "ok" ELSE "partial")
           \/ /\ ~(attempt[k].token = r /\ attempt[k].live)
              /\ Answer(r, "reconcile")
              /\ UNCHANGED attempt
        /\ UNCHANGED <<reached, faults>>

\* The process dies with the request in it; nobody gets an answer.
Crash(r) ==
    /\ req[r].pc = "send"
    /\ Fault
    /\ Answer(r, "none")
    /\ UNCHANGED <<attempt, reached>>

LeaseRunsOut(k) ==
    /\ attempt[k].live
    /\ attempt' = [attempt EXCEPT ![k].live = FALSE]
    /\ UNCHANGED <<req, reached, faults>>

Next ==
    \/ \E r \in Requests : Prepare(r) \/ Record(r) \/ Crash(r) \/ \E e \in Recipients : Send(r, e)
    \/ \E k \in Keys : LeaseRunsOut(k)

Spec == Init /\ [][Next]_vars

-----------------------------------------------------------------------------

\* The state has its types, and a token is there exactly as long as the
\* attempt is open.
ReminderTypeOK ==
    /\ attempt \in [Keys -> [status : {"absent", "submitting"} \cup Closed,
                             token : Requests \cup {NoRequest}, live : BOOLEAN]]
    /\ \A k \in Keys : attempt[k].status = "submitting" <=> attempt[k].token # NoRequest
    /\ \A r \in Requests : /\ req[r].pc \in {"start", "send", "done"}
                           /\ req[r].left \subseteq Recipients
                           /\ req[r].failed \in 0 .. Cardinality(Recipients)
                           /\ req[r].answer \in Answers
    /\ faults \in 0 .. MaxFaults

\* However often a request is repeated, an employee gets one reminder per key:
\* an attempt that was cut off waits for reconciliation and is never resent.
\* Whoever is told that the reminder went out is told the truth.
RemindedOnce ==
    \A r \in Requests, e \in Recipients :
        /\ reached[KeyOf[r]][e] <= 1
        /\ req[r].answer = "ok" => reached[KeyOf[r]][e] = 1
-----------------------------------------------------------------------------
(* What a key promises about a reminder, as OneDelivery states it.           *)

Messages == Keys \X Recipients

\* A partial failure is recorded of the whole attempt: it says of no employee in
\* particular whether the reminder arrived.
Verdict(status) ==
    CASE status = "succeeded"                  -> "sent"
      [] status \in {"partial_failed", "failed"} -> "failed"
      [] OTHER                                 -> "open"

Delivery == INSTANCE OneDelivery WITH
    handed  <- [m \in Messages |-> reached[m[1]][m[2]]],
    verdict <- [m \in Messages |-> Verdict(attempt[m[1]].status)]

\* Repeated requests, crashes between two messages, lost answers and overrun
\* leases never remind an employee twice under a key; the row is concluded once
\* for all its employees, as succeeded only when each of them was reminded.
ImplementsDelivery == Delivery!DeliverySpec
=============================================================================
