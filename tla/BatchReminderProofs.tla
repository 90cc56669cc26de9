-------------------------- MODULE BatchReminderProofs --------------------------
(***************************************************************************)
(* Proofs about the employee reminders, for all keys, requests and batches *)
(* of recipients.                                                          *)
(***************************************************************************)
EXTENDS BatchReminder, FiniteSetTheorems, TLAPS

\* What is true of every request and every attempt row taken alone.
Req == [pc : {"start", "send", "done"}, left : SUBSET Recipients, failed : Nat,
        answer : Answers]

Attempt == [status : {"absent", "submitting"} \cup Closed,
            token : Requests \cup {NoRequest}, live : BOOLEAN]

TypeInv ==
    /\ attempt \in [Keys -> Attempt]
    /\ req \in [Requests -> Req]
    /\ reached \in [Keys -> [Recipients -> Nat]]
    /\ faults \in 0 .. MaxFaults

\* An attempt is open exactly while it has a token.
TokenWhileOpen ==
    \A k \in Keys : attempt[k].status = "submitting" <=> attempt[k].token # NoRequest

\* A failed message is one recipient less to send to.
FailuresFit ==
    \A r \in Requests :
        /\ req[r].pc = "start" => req[r].failed = 0
        /\ req[r].failed + Cardinality(req[r].left) <= Cardinality(Recipients)

\* Nothing happens under a key before its row is there.
NothingBeforeAttempt ==
    \A k \in Keys : attempt[k].status = "absent" =>
        /\ \A e \in Recipients : reached[k][e] = 0
        /\ \A r \in Requests : KeyOf[r] = k => req[r].pc # "send"

\* The request that sends owns the attempt, has sent nothing to those who are
\* left, and without a failure has reached all the others.
SenderOwns ==
    \A r \in Requests : req[r].pc = "send" =>
        /\ attempt[KeyOf[r]].token = r
        /\ \A e \in req[r].left : reached[KeyOf[r]][e] = 0
        /\ req[r].failed = 0 =>
             \A e \in Recipients \ req[r].left : reached[KeyOf[r]][e] = 1

AtMostOne == \A k \in Keys, e \in Recipients : reached[k][e] <= 1

\* What the row and the answers say of the recipients is true.
SuccessIsTrue ==
    /\ \A k \in Keys : attempt[k].status = "succeeded" =>
         \A e \in Recipients : reached[k][e] = 1
    /\ \A r \in Requests : req[r].answer = "ok" =>
         \A e \in Recipients : reached[KeyOf[r]][e] = 1

ReminderInv ==
    /\ TypeInv
    /\ TokenWhileOpen
    /\ FailuresFit
    /\ NothingBeforeAttempt
    /\ SenderOwns
    /\ AtMostOne
    /\ SuccessIsTrue

LEMMA ReminderInit == Init => ReminderInv
<1> SUFFICES ASSUME Init PROVE ReminderInv
  OBVIOUS
<1>1. TypeInv
  BY ReminderAssumption DEF Init, TypeInv, Req, Attempt, Answers
<1>2. FailuresFit
  <2>1. \A r \in Requests : req[r].left = {} /\ req[r].failed = 0
    BY DEF Init
  <2>2. Cardinality({}) = 0 /\ Cardinality(Recipients) \in Nat
    BY ReminderAssumption, FS_EmptySet, FS_CardinalityType
  <2>3. \A r \in Requests : Cardinality(req[r].left) = 0
    BY <2>1, <2>2, Zenon
  <2> QED
    BY <2>1, <2>2, <2>3 DEF FailuresFit
<1>3. /\ TokenWhileOpen /\ NothingBeforeAttempt /\ SenderOwns /\ AtMostOne
      /\ SuccessIsTrue
  BY ReminderAssumption
  DEF Init, TokenWhileOpen, NothingBeforeAttempt, SenderOwns, AtMostOne, SuccessIsTrue
<1> QED
  BY <1>1, <1>2, <1>3 DEF ReminderInv

\* What is written of one request, and of one attempt row.
ReqBecomes(r, pc, left, failed, answer) ==
    /\ req' \in [Requests -> Req]
    /\ req'[r].pc = pc /\ req'[r].left = left
    /\ req'[r].failed = failed /\ req'[r].answer = answer
    /\ \A q \in Requests : q # r => req'[q] = req[q]

AttemptBecomes(k, status, token) ==
    /\ attempt' \in [Keys -> Attempt]
    /\ attempt'[k].status = status /\ attempt'[k].token = token
    /\ \A j \in Keys : j # k => attempt'[j] = attempt[j]

LEMMA AnswerWrites ==
  ASSUME TypeInv, NEW r \in Requests, NEW a \in Answers, Answer(r, a)
  PROVE  ReqBecomes(r, "done", req[r].left, req[r].failed, a)
  BY DEF TypeInv, Req, Answer, ReqBecomes

\* A request's answer ends its sending.
LEMMA AnswerKeeps ==
  ASSUME ReminderInv, NEW r \in Requests, NEW a \in Answers, Answer(r, a),
         UNCHANGED <<attempt, reached>>, faults' \in 0 .. MaxFaults,
         a = "ok" => \A e \in Recipients : reached[KeyOf[r]][e] = 1
  PROVE  ReminderInv'
<1>1. ReqBecomes(r, "done", req[r].left, req[r].failed, a)
  BY AnswerWrites DEF ReminderInv
<1>2. TypeInv' /\ FailuresFit'
  BY <1>1 DEF ReminderInv, TypeInv, FailuresFit, ReqBecomes
<1>3. TokenWhileOpen' /\ AtMostOne'
  BY DEF ReminderInv, TokenWhileOpen, AtMostOne
<1>4. NothingBeforeAttempt' /\ SenderOwns'
  BY <1>1 DEF ReminderInv, NothingBeforeAttempt, SenderOwns, ReqBecomes
<1>5. SuccessIsTrue'
  BY <1>1 DEF ReminderInv, SuccessIsTrue, ReqBecomes
<1> QED
  BY <1>2, <1>3, <1>4, <1>5 DEF ReminderInv

LEMMA PrepareKeeps ==
  ASSUME ReminderInv, NEW r \in Requests, Prepare(r)
  PROVE  ReminderInv'
<1>1. PICK k \in Keys : k = KeyOf[r]
  BY ReminderAssumption
<1>2. UNCHANGED <<reached, faults>> /\ req[r].pc = "start"
  BY DEF Prepare
<1>3. TypeInv /\ faults' \in 0 .. MaxFaults
  BY <1>2 DEF ReminderInv, TypeInv
<1>4. CASE /\ attempt[k].status = "absent"
           /\ attempt' = [attempt EXCEPT ![k] =
                            [status |-> "submitting", token |-> r, live |-> TRUE]]
           /\ req' = [req EXCEPT ![r].pc = "send", ![r].left = Recipients]
  <2>1. ReqBecomes(r, "send", Recipients, req[r].failed, req[r].answer)
    <3>1. PICK q \in Req : q = [req[r] EXCEPT !.pc = "send", !.left = Recipients]
      BY <1>3 DEF TypeInv, Req
    <3>2. /\ q.pc = "send" /\ q.left = Recipients
          /\ q.failed = req[r].failed /\ q.answer = req[r].answer
      BY <1>3, <3>1 DEF TypeInv, Req
    <3>3. req' = [req EXCEPT ![r] = q]
      BY <1>3, <1>4, <3>1 DEF TypeInv
    <3> QED
      BY <1>3, <3>2, <3>3 DEF TypeInv, ReqBecomes
  <2>2. AttemptBecomes(k, "submitting", r)
    BY <1>3, <1>4 DEF TypeInv, AttemptBecomes, Attempt
  <2>3. TypeInv'
    BY <1>2, <1>3, <2>1, <2>2 DEF TypeInv, ReqBecomes, AttemptBecomes
  <2>4. TokenWhileOpen'
    BY <2>2, ReminderAssumption DEF ReminderInv, TokenWhileOpen, AttemptBecomes
  <2>5. FailuresFit'
    <3>1. req[r].failed = 0 /\ Cardinality(Recipients) \in Nat
      BY <1>2, ReminderAssumption, FS_CardinalityType DEF ReminderInv, FailuresFit
    <3> QED
      BY <2>1, <3>1 DEF ReminderInv, FailuresFit, ReqBecomes
  <2>6. NothingBeforeAttempt'
    BY <1>1, <1>2, <2>1, <2>2
    DEF ReminderInv, NothingBeforeAttempt, ReqBecomes, AttemptBecomes
  <2>7. SenderOwns'
    <3>1. ASSUME NEW q \in Requests, q # r, req[q].pc = "send" PROVE KeyOf[q] # k
      BY <1>4, <3>1 DEF ReminderInv, NothingBeforeAttempt
    <3>2. \A e \in Recipients : reached[k][e] = 0
      BY <1>4 DEF ReminderInv, NothingBeforeAttempt
    <3>3. \A q \in Requests : KeyOf[q] \in Keys
      BY ReminderAssumption
    <3> QED
      BY <1>1, <1>2, <2>1, <2>2, <3>1, <3>2, <3>3
      DEF ReminderInv, SenderOwns, ReqBecomes, AttemptBecomes
  <2>8. AtMostOne' /\ SuccessIsTrue'
    BY <1>2, <2>1, <2>2
    DEF ReminderInv, AtMostOne, SuccessIsTrue, ReqBecomes, AttemptBecomes
  <2> QED
    BY <2>3, <2>4, <2>5, <2>6, <2>7, <2>8 DEF ReminderInv
<1>5. ASSUME NEW a \in Answers, Answer(r, a), UNCHANGED attempt,
             a = "ok" => attempt[k].status = "succeeded"
      PROVE  ReminderInv'
  <2>1. a = "ok" => \A e \in Recipients : reached[KeyOf[r]][e] = 1
    BY <1>1, <1>5 DEF ReminderInv, SuccessIsTrue
  <2> QED
    BY <1>2, <1>3, <1>5, <2>1, AnswerKeeps
<1> QED
  BY <1>1, <1>4, <1>5 DEF Prepare, MayAttempt, Answers

LEMMA SendKeeps ==
  ASSUME ReminderInv, NEW r \in Requests, NEW e \in Recipients, Send(r, e)
  PROVE  ReminderInv'
<1>1. PICK k \in Keys : k = KeyOf[r]
  BY ReminderAssumption
<1>2. /\ attempt' = attempt /\ req[r].pc = "send" /\ e \in req[r].left
      /\ faults' \in 0 .. MaxFaults
  BY ReminderAssumption DEF Send, Fault, ReminderInv, TypeInv
<1>3. /\ reached[k][e] = 0 /\ attempt[k].token = r
      /\ attempt[k].status = "submitting"
  BY <1>1, <1>2, ReminderAssumption DEF ReminderInv, SenderOwns, TokenWhileOpen
<1>4. PICK n \in {0, 1} :
        /\ ReqBecomes(r, "send", req[r].left \ {e}, req[r].failed + n, req[r].answer)
        /\ reached' \in [Keys -> [Recipients -> Nat]]
        /\ reached'[k][e] \in {0, 1} /\ (n = 0 => reached'[k][e] = 1)
        /\ \A j \in Keys, d \in Recipients :
              j # k \/ d # e => reached'[j][d] = reached[j][d]
  <2>1. req \in [Requests -> Req] /\ reached \in [Keys -> [Recipients -> Nat]]
    BY DEF ReminderInv, TypeInv
  <2>2. CASE reached' = [reached EXCEPT ![k][e] = @ + 1] /\ req' = [req EXCEPT ![r].left = @ \ {e}]
    <3>1. ReqBecomes(r, "send", req[r].left \ {e}, req[r].failed + 0, req[r].answer)
      BY <1>2, <2>1, <2>2 DEF ReqBecomes, Req
    <3>2. /\ reached' \in [Keys -> [Recipients -> Nat]]
          /\ reached'[k][e] = 1
          /\ \A j \in Keys, d \in Recipients : j # k \/ d # e => reached'[j][d] = reached[j][d]
      BY <1>3, <2>1, <2>2
    <3> QED
      BY <3>1, <3>2
  <2>3. CASE /\ reached' = [reached EXCEPT ![k][e] = @ + 1] \/ reached' = reached
             /\ req' = [req EXCEPT ![r].left = @ \ {e}, ![r].failed = @ + 1]
    <3>1. ReqBecomes(r, "send", req[r].left \ {e}, req[r].failed + 1, req[r].answer)
      BY <1>2, <2>1, <2>3 DEF ReqBecomes, Req
    <3>2. /\ reached' \in [Keys -> [Recipients -> Nat]]
          /\ reached'[k][e] \in {0, 1}
          /\ \A j \in Keys, d \in Recipients : j # k \/ d # e => reached'[j][d] = reached[j][d]
      <4>1. CASE reached' = [reached EXCEPT ![k][e] = @ + 1]
        BY <1>3, <2>1, <4>1
      <4>2. CASE reached' = reached
        BY <1>3, <2>1, <4>2
      <4> QED
        BY <2>3, <4>1, <4>2
    <3> QED
      BY <3>1, <3>2
  <2> QED
    BY <1>1, <2>2, <2>3 DEF Send
<1>5. TypeInv'
  BY <1>2, <1>4 DEF ReminderInv, TypeInv, ReqBecomes
<1>6. TokenWhileOpen'
  BY <1>2 DEF ReminderInv, TokenWhileOpen
<1>7. FailuresFit'
  <2>1. IsFiniteSet(req[r].left)
    BY ReminderAssumption, FS_Subset DEF ReminderInv, TypeInv, Req
  <2>2. /\ Cardinality(req[r].left) \in Nat
        /\ Cardinality(req[r].left \ {e}) = Cardinality(req[r].left) - 1
    BY <1>2, <2>1, FS_RemoveElement, FS_CardinalityType
  <2>3. Cardinality(Recipients) \in Nat /\ req[r].failed \in Nat
    BY ReminderAssumption, FS_CardinalityType DEF ReminderInv, TypeInv, Req
  <2>4. req[r].failed + Cardinality(req[r].left) <= Cardinality(Recipients)
    BY DEF ReminderInv, FailuresFit
  <2>5. /\ req'[r].pc = "send" /\ req'[r].failed = req[r].failed + n
        /\ Cardinality(req'[r].left) = Cardinality(req[r].left) - 1
    BY <1>4, <2>2 DEF ReqBecomes
  <2>6. req'[r].failed + Cardinality(req'[r].left) <= Cardinality(Recipients)
    BY <2>2, <2>3, <2>4, <2>5
  <2> QED
    BY <1>4, <2>5, <2>6 DEF ReminderInv, FailuresFit, ReqBecomes
<1>8. NothingBeforeAttempt'
  <2>1. ASSUME NEW j \in Keys, attempt[j].status = "absent"
        PROVE  /\ \A d \in Recipients : reached'[j][d] = 0
               /\ \A q \in Requests : KeyOf[q] = j => req'[q].pc # "send"
    <3>1. j # k
      BY <1>3, <2>1
    <3>2. /\ \A d \in Recipients : reached[j][d] = 0
          /\ \A q \in Requests : KeyOf[q] = j => req[q].pc # "send"
      BY <2>1 DEF ReminderInv, NothingBeforeAttempt
    <3>3. \A q \in Requests : KeyOf[q] = j => req'[q] = req[q]
      BY <1>1, <1>4, <3>1 DEF ReqBecomes
    <3> QED
      BY <1>4, <3>1, <3>2, <3>3
  <2> QED
    BY <1>2, <2>1, Zenon DEF NothingBeforeAttempt
<1>9. SenderOwns'
  <2>1. ASSUME NEW q \in Requests, q # r, req[q].pc = "send" PROVE KeyOf[q] \in Keys \ {k}
    BY <1>3, <2>1, ReminderAssumption DEF ReminderInv, SenderOwns
  <2>2. ASSUME NEW q \in Requests, q # r, req'[q].pc = "send"
        PROVE  /\ attempt'[KeyOf[q]].token = q
               /\ \A d \in req'[q].left : reached'[KeyOf[q]][d] = 0
               /\ req'[q].failed = 0 =>
                    \A d \in Recipients \ req'[q].left : reached'[KeyOf[q]][d] = 1
    <3>1. req'[q] = req[q] /\ KeyOf[q] \in Keys \ {k}
      BY <1>4, <2>1, <2>2 DEF ReqBecomes
    <3>2. req[q].left \subseteq Recipients
      BY DEF ReminderInv, TypeInv, Req
    <3> QED
      BY <1>2, <1>4, <2>2, <3>1, <3>2 DEF ReminderInv, SenderOwns
  <2>3. /\ attempt'[k].token = r
        /\ \A d \in req'[r].left : reached'[k][d] = 0
        /\ req'[r].failed = 0 =>
             \A d \in Recipients \ req'[r].left : reached'[k][d] = 1
    <3>1. req[r].left \subseteq Recipients /\ req[r].failed \in Nat
      BY DEF ReminderInv, TypeInv, Req
    <3> QED
      BY <1>1, <1>2, <1>3, <1>4, <3>1 DEF ReminderInv, SenderOwns, ReqBecomes
  <2> QED
    BY <1>1, <2>2, <2>3 DEF SenderOwns
<1>10. AtMostOne'
  BY <1>4 DEF ReminderInv, AtMostOne
<1>11. SuccessIsTrue'
  <2>1. \A q \in Requests : KeyOf[q] \in Keys
    BY ReminderAssumption
  <2>2. \A j \in Keys :
          (\A d \in Recipients : reached[j][d] = 1) => \A d \in Recipients : reached'[j][d] = 1
    BY <1>3, <1>4
  <2>3. \A q \in Requests : req'[q].answer = req[q].answer
    BY <1>4 DEF ReqBecomes
  <2> QED
    BY <1>2, <2>1, <2>2, <2>3 DEF ReminderInv, SuccessIsTrue
<1> QED
  BY <1>5, <1>6, <1>7, <1>8, <1>9, <1>10, <1>11 DEF ReminderInv

LEMMA RecordKeeps ==
  ASSUME ReminderInv, NEW r \in Requests, Record(r)
  PROVE  ReminderInv'
<1>1. PICK k \in Keys : k = KeyOf[r]
  BY ReminderAssumption
<1>2. /\ UNCHANGED <<reached, faults>> /\ req[r].pc = "send" /\ req[r].left = {}
      /\ faults' \in 0 .. MaxFaults
  BY DEF Record, ReminderInv, TypeInv
<1>3. req[r].failed = 0 => \A e \in Recipients : reached[k][e] = 1
  BY <1>1, <1>2 DEF ReminderInv, SenderOwns
<1>4. CASE Answer(r, "reconcile") /\ UNCHANGED attempt
  BY <1>2, <1>4, AnswerKeeps DEF Answers
<1>5. CASE /\ attempt[k].token = r
           /\ attempt' = [attempt EXCEPT ![k] =
                [status |-> Outcome(req[r].failed), token |-> NoRequest, live |-> FALSE]]
           /\ Answer(r, IF req[r].failed = 0 THEN "ok" ELSE "partial")
  <2>0. /\ Outcome(req[r].failed) \in Closed
        /\ Outcome(req[r].failed) = "succeeded" => req[r].failed = 0
    BY DEF Outcome, Closed
  <2>1. AttemptBecomes(k, Outcome(req[r].failed), NoRequest)
    <3>1. [status |-> Outcome(req[r].failed), token |-> NoRequest, live |-> FALSE] \in Attempt
      BY <2>0 DEF Attempt
    <3> QED
      BY <1>5, <3>1 DEF ReminderInv, TypeInv, AttemptBecomes
  <2>2. PICK a \in Answers : /\ Answer(r, a)
                             /\ a = "ok" => req[r].failed = 0
    BY <1>5 DEF Answers
  <2>3. ReqBecomes(r, "done", req[r].left, req[r].failed, a)
    BY <2>2, AnswerWrites DEF ReminderInv
  <2>4. TypeInv' /\ FailuresFit'
    BY <1>2, <2>1, <2>3
    DEF ReminderInv, TypeInv, FailuresFit, ReqBecomes, AttemptBecomes
  <2>5. TokenWhileOpen' /\ AtMostOne'
    BY <1>2, <2>0, <2>1 DEF ReminderInv, TokenWhileOpen, AtMostOne, AttemptBecomes, Closed
  <2>6. NothingBeforeAttempt'
    BY <1>2, <2>0, <2>1, <2>3
    DEF ReminderInv, NothingBeforeAttempt, AttemptBecomes, ReqBecomes, Closed
  <2>7. SenderOwns'
    <3>1. ASSUME NEW q \in Requests, q # r, req[q].pc = "send" PROVE KeyOf[q] \in Keys \ {k}
      BY <1>5, <3>1, ReminderAssumption DEF ReminderInv, SenderOwns
    <3> QED
      BY <1>2, <2>1, <2>3, <3>1 DEF ReminderInv, SenderOwns, AttemptBecomes, ReqBecomes
  <2>8. SuccessIsTrue'
    BY <1>1, <1>2, <1>3, <2>0, <2>1, <2>2, <2>3
    DEF ReminderInv, SuccessIsTrue, AttemptBecomes, ReqBecomes
  <2> QED
    BY <2>4, <2>5, <2>6, <2>7, <2>8 DEF ReminderInv
<1> QED
  BY <1>1, <1>4, <1>5 DEF Record

LEMMA CrashKeeps ==
  ASSUME ReminderInv, NEW r \in Requests, Crash(r)
  PROVE  ReminderInv'
<1>1. Answer(r, "none") /\ UNCHANGED <<attempt, reached>> /\ faults' \in 0 .. MaxFaults
  BY ReminderAssumption DEF Crash, Fault, ReminderInv, TypeInv
<1> QED
  BY <1>1, AnswerKeeps DEF Answers

LEMMA LeaseKeeps ==
  ASSUME ReminderInv, NEW k \in Keys, LeaseRunsOut(k)
  PROVE  ReminderInv'
<1>1. UNCHANGED <<req, reached, faults>>
  BY DEF LeaseRunsOut
<1>2. /\ attempt' \in [Keys -> Attempt]
      /\ \A j \in Keys : /\ attempt'[j].status = attempt[j].status
                         /\ attempt'[j].token = attempt[j].token
  BY DEF LeaseRunsOut, ReminderInv, TypeInv, Attempt
<1>3. TypeInv' /\ TokenWhileOpen' /\ FailuresFit'
  BY <1>1, <1>2 DEF ReminderInv, TypeInv, TokenWhileOpen, FailuresFit
<1>4. NothingBeforeAttempt' /\ AtMostOne' /\ SuccessIsTrue'
  BY <1>1, <1>2 DEF ReminderInv, NothingBeforeAttempt, AtMostOne, SuccessIsTrue
<1>5. SenderOwns'
  BY <1>1, <1>2, ReminderAssumption DEF ReminderInv, SenderOwns
<1> QED
  BY <1>3, <1>4, <1>5 DEF ReminderInv

LEMMA ReminderNext == ReminderInv /\ [Next]_vars => ReminderInv'
<1>1. ASSUME ReminderInv, UNCHANGED vars PROVE ReminderInv'
  BY <1>1
  DEF vars, ReminderInv, TypeInv, TokenWhileOpen, FailuresFit, NothingBeforeAttempt,
      SenderOwns, AtMostOne, SuccessIsTrue
<1> QED
  BY <1>1, PrepareKeeps, SendKeeps, RecordKeeps, CrashKeeps, LeaseKeeps DEF Next

LEMMA ReminderSafe == Spec => []ReminderInv
  BY ReminderInit, ReminderNext, PTL DEF Spec

\* Type correctness of the attempt rows and the requests, the count of failed
\* messages included: it never exceeds the recipients, so the outcome recorded
\* from it is one of the three verdicts for the right reason.
THEOREM ReminderTypeCorrect == Spec => []ReminderTypeOK
<1>1. ReminderInv => ReminderTypeOK
  <2> SUFFICES ASSUME ReminderInv PROVE ReminderTypeOK
    OBVIOUS
  <2>1. ASSUME NEW r \in Requests
        PROVE  /\ req[r].pc \in {"start", "send", "done"} /\ req[r].left \subseteq Recipients
               /\ req[r].failed \in 0 .. Cardinality(Recipients)
               /\ req[r].answer \in Answers
    <3>1. req[r] \in Req
      BY DEF ReminderInv, TypeInv
    <3>2. Cardinality(req[r].left) \in Nat /\ Cardinality(Recipients) \in Nat
      BY <3>1, ReminderAssumption, FS_Subset, FS_CardinalityType DEF Req
    <3> QED
      BY <3>1, <3>2 DEF Req, ReminderInv, FailuresFit
  <2> QED
    BY <2>1 DEF ReminderInv, TypeInv, Attempt, TokenWhileOpen, ReminderTypeOK
<1> QED
  BY <1>1, ReminderSafe, PTL

\* An employee gets one reminder per key, and who is told it went out is told
\* the truth: only the request whose insert made the row sends, and it sends to
\* nobody it has reached.
THEOREM RemindersGoOutOnce == Spec => []RemindedOnce
<1>1. ReminderInv => RemindedOnce
  BY ReminderAssumption DEF ReminderInv, AtMostOne, SuccessIsTrue, RemindedOnce
<1> QED
  BY <1>1, ReminderSafe, PTL

--------------------------------------------------------------------------------
(* A key implements OneDelivery.                                           *)

\* What the refinement mapping makes of a state.
Reminded == [m \in Messages |-> reached[m[1]][m[2]]]

Verdicts == [m \in Messages |-> Verdict(attempt[m[1]].status)]

LEMMA MappedStep ==
  Delivery!DeliveryNext \/ UNCHANGED <<Reminded, Verdicts>>
    => [Delivery!DeliveryNext]_(Delivery!deliveryVars)
  BY Zenon DEF Delivery!deliveryVars, Reminded, Verdicts

LEMMA MessageIs ==
  ASSUME NEW m \in Messages
  PROVE  \E k \in Keys, e \in Recipients : m = <<k, e>> /\ m[1] = k /\ m[2] = e
  BY DEF Messages

\* A reminder arrives under a key whose attempt is open.
LEMMA ReminderArrives ==
  ASSUME NEW k \in Keys, NEW e \in Recipients, attempt' = attempt,
         reached[k][e] = 0, reached'[k][e] = 1, attempt[k].status = "submitting",
         \A j \in Keys, d \in Recipients : j # k \/ d # e => reached'[j][d] = reached[j][d]
  PROVE  [Delivery!DeliveryNext]_(Delivery!deliveryVars)
<1>0. PICK m \in Messages : m = <<k, e>>
  BY DEF Messages
<1>1. m = <<k, e>> /\ m[1] = k /\ m[2] = e
  BY <1>0
<1>2. Reminded[m] = 0 /\ Reminded'[m] = 1
  BY <1>1 DEF Reminded
<1>3. ASSUME NEW o \in Messages, o # m PROVE Reminded'[o] = Reminded[o]
  <2>1. PICK j \in Keys, d \in Recipients : o = <<j, d>> /\ o[1] = j /\ o[2] = d
    BY MessageIs
  <2>2. j # k \/ d # e
    BY <1>1, <1>3, <2>1
  <2> QED
    BY <2>1, <2>2 DEF Reminded
<1>4. Reminded' = [Reminded EXCEPT ![m] = 1]
  BY <1>2, <1>3 DEF Reminded
<1>5. Verdicts' = Verdicts
  BY DEF Verdicts
<1>6. Verdicts[m] \in {"open", "failed"}
  BY <1>1 DEF Verdicts, Verdict
<1>7. Delivery!HandOver(m)
  BY <1>2, <1>4, <1>5, <1>6, Zenon DEF Delivery!HandOver, Reminded, Verdicts
<1> QED
  BY <1>7, MappedStep DEF Delivery!DeliveryNext

\* An open attempt is concluded for all its employees.
LEMMA AttemptConcluded ==
  ASSUME TypeInv, NEW k \in Keys, NEW status \in Closed, reached' = reached,
         attempt[k].status = "submitting",
         AttemptBecomes(k, status, NoRequest),
         status = "succeeded" => \A e \in Recipients : reached[k][e] = 1
  PROVE  [Delivery!DeliveryNext]_(Delivery!deliveryVars)
<1> DEFINE S == {m \in Messages : m[1] = k}
<1>1. PICK v \in {"sent", "failed"} : v = Verdict(status) /\ (v = "sent" => status = "succeeded")
  BY DEF Verdict, Closed
<1>2. ASSUME NEW m \in Messages
      PROVE  Verdict(attempt'[m[1]].status) =
                IF m \in S THEN v ELSE Verdict(attempt[m[1]].status)
  <2>1. m[1] \in Keys
    BY MessageIs
  <2>2. CASE m[1] = k
    BY <1>1, <2>2 DEF AttemptBecomes
  <2>3. CASE m[1] # k
    BY <2>1, <2>3 DEF AttemptBecomes
  <2> QED
    BY <2>2, <2>3
<1>3. S \in SUBSET Messages
  OBVIOUS
<1>4. \A m \in S : Verdicts[m] = "open"
  BY DEF Verdicts, Verdict
<1>5. v = "sent" => \A m \in S : Reminded[m] = 1
  <2>1. ASSUME v = "sent", NEW m \in S PROVE reached[m[1]][m[2]] = 1
    BY <1>1, <2>1, MessageIs
  <2> QED
    BY <2>1 DEF Reminded
<1>6. Verdicts' = [m \in Messages |-> IF m \in S THEN v ELSE Verdicts[m]]
  BY <1>2 DEF Verdicts
<1>7. Reminded' = Reminded /\ v # "cancelled"
  BY <1>1 DEF Reminded
<1> HIDE DEF S
<1>8. Delivery!Conclude(S, v)
  BY <1>4, <1>5, <1>6, <1>7, Zenon DEF Delivery!Conclude, Reminded, Verdicts
<1>9. v \in {"sent", "cancelled", "failed"}
  OBVIOUS
<1> QED
  BY <1>3, <1>8, <1>9, MappedStep DEF Delivery!DeliveryNext

LEMMA NothingDelivered ==
  ASSUME reached' = reached, \A k \in Keys : Verdict(attempt'[k].status) = Verdict(attempt[k].status)
  PROVE  [Delivery!DeliveryNext]_(Delivery!deliveryVars)
<1>1. Reminded' = Reminded
  BY DEF Reminded
<1>2. Verdicts' = Verdicts
  BY MessageIs DEF Verdicts
<1> QED
  BY <1>1, <1>2, MappedStep

LEMMA PrepareDelivers ==
  ASSUME ReminderInv, NEW r \in Requests, Prepare(r)
  PROVE  [Delivery!DeliveryNext]_(Delivery!deliveryVars)
<1>1. PICK k \in Keys : k = KeyOf[r]
  BY ReminderAssumption
<1>2. reached' = reached
  BY DEF Prepare
<1>3. CASE attempt' = attempt
  BY <1>2, <1>3, NothingDelivered
<1>4. CASE /\ attempt[k].status = "absent"
           /\ attempt' = [attempt EXCEPT ![k] =
                            [status |-> "submitting", token |-> r, live |-> TRUE]]
  <2>1. ASSUME NEW j \in Keys PROVE Verdict(attempt'[j].status) = Verdict(attempt[j].status)
    BY <1>4 DEF ReminderInv, TypeInv, Verdict
  <2> QED
    BY <1>2, <2>1, NothingDelivered
<1> QED
  BY <1>1, <1>3, <1>4 DEF Prepare, MayAttempt

LEMMA SendDelivers ==
  ASSUME ReminderInv, NEW r \in Requests, NEW e \in Recipients, Send(r, e)
  PROVE  [Delivery!DeliveryNext]_(Delivery!deliveryVars)
<1>1. PICK k \in Keys : k = KeyOf[r]
  BY ReminderAssumption
<1>2. attempt' = attempt /\ req[r].pc = "send" /\ e \in req[r].left
  BY DEF Send
<1>3. /\ reached[k][e] = 0 /\ attempt[k].token = r
      /\ attempt[k].status = "submitting"
  BY <1>1, <1>2, ReminderAssumption DEF ReminderInv, SenderOwns, TokenWhileOpen
<1>4. reached' = reached \/ reached' = [reached EXCEPT ![k][e] = @ + 1]
  BY <1>1, Zenon DEF Send
<1>5. CASE reached' = reached
  BY <1>2, <1>5, NothingDelivered
<1>6. CASE reached' = [reached EXCEPT ![k][e] = @ + 1]
  <2>1. /\ reached'[k][e] = 1
        /\ \A j \in Keys, d \in Recipients : j # k \/ d # e => reached'[j][d] = reached[j][d]
    BY <1>3, <1>6 DEF ReminderInv, TypeInv
  <2> QED
    BY <1>2, <1>3, <2>1, ReminderArrives
<1> QED
  BY <1>4, <1>5, <1>6

LEMMA RecordDelivers ==
  ASSUME ReminderInv, NEW r \in Requests, Record(r)
  PROVE  [Delivery!DeliveryNext]_(Delivery!deliveryVars)
<1>1. PICK k \in Keys : k = KeyOf[r]
  BY ReminderAssumption
<1>2. reached' = reached /\ req[r].pc = "send" /\ req[r].left = {}
  BY DEF Record
<1>3. CASE attempt' = attempt
  BY <1>2, <1>3, NothingDelivered
<1>4. CASE attempt' = [attempt EXCEPT ![k] =
                [status |-> Outcome(req[r].failed), token |-> NoRequest, live |-> FALSE]]
  <2>1. PICK s \in Closed : s = Outcome(req[r].failed) /\ (s = "succeeded" => req[r].failed = 0)
    BY DEF Outcome, Closed
  <2>2. AttemptBecomes(k, s, NoRequest)
    <3>1. [status |-> s, token |-> NoRequest, live |-> FALSE] \in Attempt
      BY DEF Attempt
    <3> QED
      BY <1>4, <2>1, <3>1 DEF ReminderInv, TypeInv, AttemptBecomes
  <2>3. s = "succeeded" => \A e \in Recipients : reached[k][e] = 1
    BY <1>1, <1>2, <2>1 DEF ReminderInv, SenderOwns
  <2>4. attempt[k].status = "submitting"
    BY <1>1, <1>2, ReminderAssumption DEF ReminderInv, SenderOwns, TokenWhileOpen
  <2> QED
    BY <1>2, <2>2, <2>3, <2>4, AttemptConcluded DEF ReminderInv
<1> QED
  BY <1>1, <1>3, <1>4, Zenon DEF Record

LEMMA ReminderDelivers ==
  ReminderInv /\ [Next]_vars => [Delivery!DeliveryNext]_(Delivery!deliveryVars)
<1> SUFFICES ASSUME ReminderInv, [Next]_vars
             PROVE  [Delivery!DeliveryNext]_(Delivery!deliveryVars)
  OBVIOUS
<1>1. ASSUME NEW r \in Requests, Crash(r)
      PROVE  [Delivery!DeliveryNext]_(Delivery!deliveryVars)
  BY <1>1, NothingDelivered DEF Crash
<1>2. ASSUME NEW k \in Keys, LeaseRunsOut(k)
      PROVE  [Delivery!DeliveryNext]_(Delivery!deliveryVars)
  <2>1. reached' = reached /\ \A j \in Keys : attempt'[j].status = attempt[j].status
    BY <1>2 DEF LeaseRunsOut, ReminderInv, TypeInv, Attempt
  <2> QED
    BY <2>1, NothingDelivered
<1>3. CASE UNCHANGED vars
  BY <1>3, NothingDelivered DEF vars
<1> QED
  BY <1>1, <1>2, <1>3, PrepareDelivers, SendDelivers, RecordDelivers, Zenon DEF Next

\* Refinement: repeated requests, crashes and lost answers implement one
\* hand-over per key and employee and one final verdict per key.
THEOREM RemindersImplementDelivery == Spec => ImplementsDelivery
<1>1. Init => Delivery!DeliveryInit
  <2> SUFFICES ASSUME Init PROVE Delivery!DeliveryInit
    OBVIOUS
  <2>1. \A k \in Keys, e \in Recipients : attempt[k].status = "absent" /\ reached[k][e] = 0
    BY DEF Init
  <2>2. \A m \in Messages : reached[m[1]][m[2]] = 0 /\ Verdict(attempt[m[1]].status) = "open"
    BY <2>1, MessageIs DEF Verdict
  <2> QED
    BY <2>2 DEF Delivery!DeliveryInit
<1> QED
  BY <1>1, ReminderSafe, ReminderDelivers, PTL
  DEF Spec, ImplementsDelivery, Delivery!DeliverySpec

================================================================================
