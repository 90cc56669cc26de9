-------------------------- MODULE LegacyCutoverProofs --------------------------
(***************************************************************************)
(* Proofs about the cutover from Redis, for any number of starts of the    *)
(* command, Redis instances, backlogs and late pushes.                     *)
(***************************************************************************)
EXTENDS LegacyCutover, SequenceTheorems, WellFoundedInduction, TLAPS

Marker == [status: {"pending", "running", "failed", "completed"},
           src: Sources \cup {None}, owner: Runners \cup {None}, count: Nat]

PCs == {"start", "checked", "over", "dead"} \cup Importing

\* The command that imports has the marker; what it holds is an event, which is
\* in the inbox once it is accepted; at the end its source is empty.
RunnerSound(r) ==
    /\ runner[r].pc \in Importing => Owns(r)
    /\ runner[r].pc \in {"held", "accepted"} => runner[r].item \in Event
    /\ runner[r].pc = "accepted" => inbox[runner[r].item.key] = runner[r].item.payload
    /\ runner[r].pc = "finish" => IsEmpty(redis[runner[r].src])

RunnersSound == \A r \in Runners : RunnerSound(r)

CutoverInv == CutoverTypeOK /\ RunnersSound /\ RemovedIsStored /\ CompletedIsDrained

--------------------------------------------------------------------------------
(* The sequence operators the model uses.                                        *)

LEMMA NatMin ==
  ASSUME NEW S \in SUBSET Nat, S # {}
  PROVE  Min(S) \in S
<1>1. PICK R : R = {ss \in Nat \X Nat : ss[1] < ss[2]}
  OBVIOUS
<1>2. IsWellFoundedOn(R, Nat)
  BY <1>1, NatLessThanWellFounded, Zenon DEF OpToRel
<1>3. S \subseteq Nat
  OBVIOUS
<1>4. PICK x \in S : \A y \in S : ~(<<y, x>> \in R)
  BY <1>2, <1>3, WFMin, Zenon
<1>5. \A y \in S : x =< y
  <2> SUFFICES ASSUME NEW y \in S PROVE x =< y
    OBVIOUS
  <2>1. x \in Nat /\ y \in Nat /\ ~(<<y, x>> \in R)
    BY <1>4
  <2>2. y < x => <<y, x>> \in R
    BY <1>1, <2>1
  <2> QED
    BY <2>1, <2>2
<1>6. \E z \in S : \A y \in S : z =< y
  BY <1>5
<1> QED
  BY <1>6 DEF Min

LEMMA RemoveFirstTyped ==
  ASSUME NEW S, NEW s \in Seq(S), NEW e, Contains(s, e)
  PROVE  RemoveFirst(s, e) \in Seq(S)
<1> DEFINE I == {i \in 1 .. Len(s) : s[i] = e}
<1>1. PICK k \in 1 .. Len(s) : k = Min(I)
  <2>1. I \in SUBSET Nat /\ I # {} /\ I \subseteq 1 .. Len(s)
    BY LenProperties DEF Contains
  <2> QED
    BY <2>1, NatMin
<1>2. Len(s) \in Nat /\ \A i \in 1 .. Len(s) : s[i] \in S
  BY LenProperties, ElementOfSeq
<1>3. SubSeq(s, 1, k - 1) \in Seq(S)
  BY <1>2, SubSeqProperties
<1>4. SubSeq(s, k + 1, Len(s)) \in Seq(S)
  BY <1>2, SubSeqProperties
<1>5. RemoveAt(s, k) \in Seq(S)
  BY <1>3, <1>4, ConcatProperties DEF RemoveAt
<1>6. RemoveFirst(s, e) = RemoveAt(s, k)
  BY <1>1 DEF RemoveFirst, SelectInSeq, Contains
<1> QED
  BY <1>5, <1>6

LEMMA HeadTailTyped ==
  ASSUME NEW S, NEW s \in Seq(S), s # << >>
  PROVE  Head(s) \in S /\ Tail(s) \in Seq(S) /\ <<Head(s)>> \in Seq(S)
  BY HeadTailProperties

--------------------------------------------------------------------------------
(* Steps of one command.                                                         *)

LEMMA Typed ==
  ASSUME CutoverInv
  PROVE  /\ redis \in [Sources -> Lists]
         /\ marker \in Marker
         /\ inbox \in [Keys -> Payloads \cup {None}]
         /\ runner \in [Runners -> Runner]
         /\ removed \in [Sources -> Seq(Event)]
         /\ stragglers \in 0 .. MaxStragglers
  BY DEF CutoverInv, CutoverTypeOK, Marker

\* The next place of a command, the rest of it as it was.
LEMMA GotoIs ==
  ASSUME CutoverInv, NEW r \in Runners, NEW pc \in PCs, Goto(r, pc)
  PROVE  \E q \in Runner : /\ runner' = [runner EXCEPT ![r] = q] /\ q.pc = pc
                           /\ q.src = runner[r].src /\ q.item = runner[r].item
                           /\ q.imported = runner[r].imported
<1>1. runner[r] \in Runner
  BY Typed
<1>2. PICK q \in Runner : q = [runner[r] EXCEPT !.pc = pc]
  BY <1>1 DEF Runner, PCs
<1>3. q.pc = pc /\ q.src = runner[r].src /\ q.item = runner[r].item /\ q.imported = runner[r].imported
  BY <1>1, <1>2 DEF Runner
<1>4. runner' = [runner EXCEPT ![r] = q]
  BY <1>2, Typed DEF Goto
<1> QED
  BY <1>3, <1>4

\* What holds of a command it holds also when another one takes a step that
\* leaves it the marker, the stored payloads and an empty source.
LEMMA OtherSound ==
  ASSUME CutoverInv, NEW o \in Runners, runner'[o] = runner[o],
         runner[o].pc \in Importing => marker' = marker,
         runner[o].pc = "finish" => redis' = redis,
         \A k \in Keys : inbox[k] # None => inbox'[k] = inbox[k]
  PROVE  RunnerSound(o)'
<1>1. RunnerSound(o) /\ runner[o] \in Runner
  BY Typed DEF CutoverInv, RunnersSound
<1>2. runner[o].pc \in Importing => Owns(o)'
  BY <1>1 DEF RunnerSound, Owns
<1>3. runner[o].pc \in {"held", "accepted"} => runner[o].item \in Event
  BY <1>1 DEF RunnerSound
<1>4. runner[o].pc = "accepted" => inbox'[runner[o].item.key] = runner[o].item.payload
  BY <1>1, <1>3, CutoverConstants DEF RunnerSound, Event
<1>5. runner[o].pc = "finish" => IsEmpty(redis'[runner[o].src])
  BY <1>1 DEF RunnerSound
<1> QED
  BY <1>2, <1>3, <1>4, <1>5 DEF RunnerSound, IsEmpty

LEMMA RemovedStays ==
  ASSUME CutoverInv, removed' = removed,
         marker.src # None => marker'.src = marker.src,
         \A k \in Keys : inbox[k] # None => inbox'[k] = inbox[k]
  PROVE  RemovedIsStored' /\ removed' \in [Sources -> Seq(Event)]
<1>1. ASSUME NEW s \in Sources, NEW i \in DOMAIN removed[s]
      PROVE  marker'.src = s /\ inbox'[removed[s][i].key] = removed[s][i].payload
  <2>1. removed[s][i] \in Event
    BY Typed, ElementOfSeq, LenProperties
  <2>2. marker.src = s /\ inbox[removed[s][i].key] = removed[s][i].payload
    BY DEF CutoverInv, RemovedIsStored
  <2> QED
    BY <2>1, <2>2, CutoverConstants DEF Event
<1> QED
  BY <1>1, Typed DEF RemovedIsStored

\* A step of a command that leaves the marker alone.
LEMMA QuietKeeps ==
  ASSUME CutoverInv, NEW r \in Runners, NEW q \in Runner,
         runner' = [runner EXCEPT ![r] = q], q.src = runner[r].src,
         UNCHANGED <<marker, stragglers>>,
         redis' \in [Sources -> Lists], redis' # redis => runner[r].pc \in Importing,
         inbox' \in [Keys -> Payloads \cup {None}],
         \A k \in Keys : inbox[k] # None => inbox'[k] = inbox[k],
         RemovedIsStored', removed' \in [Sources -> Seq(Event)],
         q.pc \in Importing => runner[r].pc \in Importing,
         q.pc \in {"held", "accepted"} => q.item \in Event,
         q.pc = "accepted" => inbox'[q.item.key] = q.item.payload,
         q.pc = "finish" => IsEmpty(redis'[q.src])
  PROVE  CutoverInv'
<1>1. CutoverTypeOK'
  BY Typed DEF CutoverTypeOK, Marker
<1>2. runner'[r] = q /\ \A o \in Runners \ {r} : runner'[o] = runner[o]
  BY Typed
<1>3. \A o \in Runners : runner[o].pc \in Importing => Owns(o)
  BY DEF CutoverInv, RunnersSound, RunnerSound
<1>4. RunnerSound(r)'
  <2>1. q.pc \in Importing => Owns(r)'
    BY <1>2, <1>3 DEF Owns
  <2> QED
    BY <1>2, <2>1 DEF RunnerSound, IsEmpty
<1>5. ASSUME NEW o \in Runners \ {r} PROVE RunnerSound(o)'
  <2>1. runner[o].pc = "finish" => redis' = redis
    BY <1>3 DEF Owns, Importing
  <2> QED
    BY <1>2, <2>1, OtherSound
<1>6. CompletedIsDrained'
  <2>1. marker.status = "completed" => redis' = redis
    BY <1>3 DEF Owns
  <2> QED
    BY <2>1 DEF CutoverInv, CompletedIsDrained, IsEmpty
<1> QED
  BY <1>1, <1>4, <1>5, <1>6 DEF CutoverInv, RunnersSound

\* A step that writes nothing but where the command is.
LEMMA GotoKeeps ==
  ASSUME CutoverInv, NEW r \in Runners, NEW pc \in PCs, Goto(r, pc),
         UNCHANGED <<redis, marker, inbox, removed, stragglers>>,
         pc \in Importing => runner[r].pc \in Importing,
         pc \notin {"held", "accepted"},
         pc = "finish" => IsEmpty(redis[runner[r].src])
  PROVE  CutoverInv'
<1>1. PICK q \in Runner : /\ runner' = [runner EXCEPT ![r] = q] /\ q.pc = pc
                          /\ q.src = runner[r].src
  BY GotoIs
<1>2. q.pc = "finish" => IsEmpty(redis'[q.src])
  BY <1>1
<1> QED
  BY <1>1, <1>2, RemovedStays, QuietKeeps, Typed

\* A step of the only command that may write the marker.
LEMMA MarkerKeeps ==
  ASSUME CutoverInv, NEW r \in Runners, NEW q \in Runner,
         runner' = [runner EXCEPT ![r] = q], q.src = runner[r].src,
         UNCHANGED <<redis, inbox, removed, stragglers>>,
         NEW m \in Marker,
         marker' = m,
         \A o \in Runners \ {r} : runner[o].pc \notin Importing,
         q.pc \in Importing => m.status = "running" /\ m.src = q.src /\ m.owner = r,
         q.pc \notin {"held", "accepted", "finish"},
         marker.src # None => m.src = marker.src,
         m.status = "completed" => IsEmpty(redis[m.src])
  PROVE  CutoverInv'
<1>1. RemovedIsStored' /\ removed' \in [Sources -> Seq(Event)]
  BY RemovedStays
<1>2. CutoverTypeOK'
  BY Typed, <1>1 DEF CutoverTypeOK, Marker
<1>3. runner'[r] = q /\ \A o \in Runners \ {r} : runner'[o] = runner[o]
  BY Typed
<1>4. RunnerSound(r)'
  BY <1>3 DEF RunnerSound, Owns
<1>5. ASSUME NEW o \in Runners \ {r} PROVE RunnerSound(o)'
  BY <1>3, OtherSound
<1>6. CompletedIsDrained'
  BY DEF CompletedIsDrained, IsEmpty
<1> QED
  BY <1>1, <1>2, <1>4, <1>5, <1>6 DEF CutoverInv, RunnersSound

LEMMA CutoverInit == Init => CutoverInv
<1> SUFFICES ASSUME Init PROVE CutoverInv
  OBVIOUS
<1>1. CutoverTypeOK
  BY CutoverConstants, BacklogsAreLists, EmptySeq DEF Init, CutoverTypeOK, Runner
<1>2. RunnersSound
  BY DEF Init, RunnersSound, RunnerSound, Importing
<1>3. RemovedIsStored
  BY DEF Init, RemovedIsStored
<1>4. CompletedIsDrained
  BY DEF Init, CompletedIsDrained
<1> QED
  BY <1>1, <1>2, <1>3, <1>4 DEF CutoverInv

LEMMA ReadMarkerKeeps ==
  ASSUME CutoverInv, NEW r \in Runners, ReadMarker(r)
  PROVE  CutoverInv'
<1>1. PICK pc \in {"checked", "over"} : Goto(r, pc)
  BY DEF ReadMarker
<1>2. pc \in PCs /\ pc \notin Importing /\ pc \notin {"held", "accepted", "finish"}
  BY DEF PCs, Importing
<1>3. UNCHANGED <<redis, marker, inbox, removed, stragglers>>
  BY Zenon DEF ReadMarker
<1> QED
  BY <1>1, <1>2, <1>3, GotoKeeps

LEMMA BeginKeeps ==
  ASSUME CutoverInv, NEW r \in Runners, Begin(r)
  PROVE  CutoverInv'
<1>1. UNCHANGED <<redis, inbox, removed, stragglers>>
  BY Zenon DEF Begin
<1>2. CASE ~MayBegin(r)
  <2>1. Goto(r, "over") /\ UNCHANGED marker
    BY <1>2 DEF Begin
  <2>2. "over" \in PCs /\ "over" \notin Importing
    BY DEF PCs, Importing
  <2> QED
    BY <1>1, <2>1, <2>2, GotoKeeps
<1>3. CASE MayBegin(r)
  <2>1. PICK pc \in {"begun", "dead"} : Goto(r, pc)
    BY <1>3 DEF Begin
  <2>2. pc \in PCs
    BY DEF PCs, Importing
  <2>3. PICK q \in Runner : /\ runner' = [runner EXCEPT ![r] = q] /\ q.pc = pc
                            /\ q.src = runner[r].src
    BY <2>1, <2>2, GotoIs
  <2>4. PICK m \in Marker :
          marker' = m /\ m.status = "running" /\ m.src = runner[r].src /\ m.owner = r
    <3>1. marker' = [marker EXCEPT !.status = "running", !.src = runner[r].src, !.owner = r]
      BY <1>3, Zenon DEF Begin
    <3>2. marker \in Marker /\ runner[r].src \in Sources
      BY Typed DEF Runner
    <3>3. /\ marker' \in Marker /\ marker'.status = "running"
          /\ marker'.src = runner[r].src /\ marker'.owner = r
      BY <3>1, <3>2 DEF Marker
    <3> QED
      BY <3>3
  <2>5. marker.status \in {"pending", "failed"} /\ marker.src \in {None, runner[r].src}
    BY <1>3 DEF MayBegin
  <2>6. \A o \in Runners : runner[o].pc \notin Importing
    BY <2>5 DEF CutoverInv, RunnersSound, RunnerSound, Owns
  <2>7. /\ q.pc \notin {"held", "accepted", "finish"} /\ m.status # "completed"
        /\ marker.src # None => m.src = marker.src
        /\ \A o \in Runners \ {r} : runner[o].pc \notin Importing
    BY <2>1, <2>3, <2>4, <2>5, <2>6
  <2> QED
    BY <1>1, <2>3, <2>4, <2>7, MarkerKeeps
<1> QED
  BY <1>2, <1>3

LEMMA PreflightKeeps ==
  ASSUME CutoverInv, NEW r \in Runners, Preflight(r)
  PROVE  CutoverInv'
<1>1. PICK pc \in {"loop", "failing"} : Goto(r, pc)
  BY DEF Preflight
<1>2. pc \in PCs /\ pc \notin {"held", "accepted", "finish"} /\ runner[r].pc \in Importing
  BY DEF PCs, Importing, Preflight
<1>3. UNCHANGED <<redis, marker, inbox, removed, stragglers>>
  BY Zenon DEF Preflight
<1> QED
  BY <1>1, <1>2, <1>3, GotoKeeps
LEMMA NextLegacyKeeps ==
  ASSUME CutoverInv, NEW r \in Runners, NextLegacy(r)
  PROVE  CutoverInv'
<1>1. UNCHANGED <<marker, inbox, removed, stragglers>>
  BY Zenon DEF NextLegacy
<1>2. PICK s \in Sources : s = runner[r].src
  BY Typed DEF Runner
<1>3. PICK lists \in Lists : lists = redis[s]
  BY Typed
<1>4. /\ lists.pending \in Seq(Event) /\ lists.processing \in Seq(Event)
      /\ lists.dead \in Seq(Event)
  BY DEF Lists
<1>5. PICK moved \in Lists : moved = IF lists.processing = <<>> /\ lists.pending # <<>>
              THEN [lists EXCEPT !.processing = <<Head(lists.pending)>>, !.pending = Tail(@)]
              ELSE lists
  <2>1. CASE lists.processing = <<>> /\ lists.pending # <<>>
    <3>1. PICK h \in Seq(Event), l \in Seq(Event) : h = <<Head(lists.pending)>> /\ l = Tail(lists.pending)
      BY <1>4, <2>1, HeadTailTyped
    <3>2. [lists EXCEPT !.processing = h, !.pending = l] \in Lists
      BY DEF Lists
    <3> QED
      BY <2>1, <3>1, <3>2
  <2> QED
    BY <2>1
<1>6. /\ redis' = [redis EXCEPT ![s] = moved]
      /\ \/ moved.processing = <<>> /\ Goto(r, "check")
         \/ /\ moved.processing # <<>>
            /\ runner' = [runner EXCEPT
                  ![r].item = Head(moved.processing),
                  ![r].pc = IF Head(moved.processing).readable THEN "held" ELSE "failing"]
  BY <1>2, <1>3, <1>5, Zenon DEF NextLegacy
<1>7. redis' \in [Sources -> Lists]
  BY <1>6, Typed
<1>8. runner[r].pc = "loop"
  BY Zenon DEF NextLegacy
<1>9. RemovedIsStored' /\ removed' \in [Sources -> Seq(Event)]
  BY <1>1, RemovedStays
<1>10. runner[r].pc \in Importing
  BY <1>8 DEF Importing
<1>11. CASE Goto(r, "check")
  <2>1. "check" \in PCs /\ "check" \notin {"held", "accepted", "finish"}
    BY DEF PCs, Importing
  <2>2. PICK q \in Runner : /\ runner' = [runner EXCEPT ![r] = q] /\ q.pc = "check"
                            /\ q.src = runner[r].src
    BY <1>11, <2>1, GotoIs
  <2> QED
    BY <1>1, <1>7, <1>9, <1>10, <2>1, <2>2, Typed, QuietKeeps
<1>12. CASE /\ moved.processing # <<>>
            /\ runner' = [runner EXCEPT
                  ![r].item = Head(moved.processing),
                  ![r].pc = IF Head(moved.processing).readable THEN "held" ELSE "failing"]
  <2>1. PICK e \in Event : e = Head(moved.processing)
    BY <1>12, HeadTailTyped DEF Lists
  <2>2. PICK pc \in {"held", "failing"} : pc = IF e.readable THEN "held" ELSE "failing"
    OBVIOUS
  <2>3. runner[r] \in Runner
    BY Typed
  <2>4. PICK q \in Runner : q = [runner[r] EXCEPT !.item = e, !.pc = pc]
    BY <2>3 DEF Runner, Importing
  <2>5. q.pc = pc /\ q.src = runner[r].src /\ q.item = e
    BY <2>3, <2>4 DEF Runner
  <2>6. runner' = [runner EXCEPT ![r] = q]
    BY <1>12, <2>1, <2>2, <2>4, Typed
  <2> QED
    BY <1>1, <1>7, <1>9, <1>10, <2>5, <2>6, Typed, QuietKeeps
<1> QED
  BY <1>6, <1>11, <1>12

LEMMA AcceptKeeps ==
  ASSUME CutoverInv, NEW r \in Runners, Accept(r)
  PROVE  CutoverInv'
<1>1. UNCHANGED <<redis, marker, removed, stragglers>> /\ runner[r].pc = "held"
  BY Zenon DEF Accept
<1>2. PICK e \in Event : e = runner[r].item
  BY <1>1 DEF CutoverInv, RunnersSound, RunnerSound
<1>3. e.key \in Keys /\ e.payload \in Payloads
  BY DEF Event
<1>4. /\ inbox' = IF inbox[e.key] = None THEN [inbox EXCEPT ![e.key] = e.payload] ELSE inbox
      /\ Goto(r, IF inbox[e.key] \in {None, e.payload} THEN "accepted" ELSE "failing")
  BY <1>2, Zenon DEF Accept
<1>5. /\ inbox' \in [Keys -> Payloads \cup {None}]
      /\ \A k \in Keys : inbox[k] # None => inbox'[k] = inbox[k]
      /\ inbox[e.key] \in {None, e.payload} => inbox'[e.key] = e.payload
  BY <1>3, <1>4, Typed
<1>6. PICK pc \in {"accepted", "failing"} :
         Goto(r, pc) /\ (pc = "accepted" => inbox'[e.key] = e.payload)
  <2>1. CASE inbox[e.key] \in {None, e.payload}
    <3>1. Goto(r, "accepted")
      BY <1>4, <2>1
    <3> QED
      BY <1>5, <2>1, <3>1
  <2>2. CASE inbox[e.key] \notin {None, e.payload}
    <3>1. Goto(r, "failing")
      BY <1>4, <2>2
    <3> QED
      BY <3>1
  <2> QED
    BY <2>1, <2>2
<1>7. pc \in PCs /\ runner[r].pc \in Importing
  BY <1>1 DEF PCs, Importing
<1>8. PICK q \in Runner : /\ runner' = [runner EXCEPT ![r] = q] /\ q.pc = pc
                          /\ q.src = runner[r].src /\ q.item = runner[r].item
  BY <1>6, <1>7, GotoIs
<1>9. RemovedIsStored' /\ removed' \in [Sources -> Seq(Event)]
  BY <1>1, <1>5, RemovedStays
<1>10. q.item \in Event /\ (q.pc = "accepted" => inbox'[q.item.key] = q.item.payload)
  BY <1>2, <1>6, <1>8
<1> QED
  BY <1>1, <1>5, <1>6, <1>7, <1>8, <1>9, <1>10, Typed, QuietKeeps

LEMMA AckKeeps ==
  ASSUME CutoverInv, NEW r \in Runners, Ack(r)
  PROVE  CutoverInv'
<1>1. UNCHANGED <<marker, inbox, stragglers>> /\ runner[r].pc = "accepted"
  BY Zenon DEF Ack
<1>2. PICK e \in Event : e = runner[r].item
  BY <1>1 DEF CutoverInv, RunnersSound, RunnerSound
<1>3. PICK s \in Sources : s = runner[r].src
  BY Typed DEF Runner
<1>4. marker.src = s /\ inbox[e.key] = e.payload
  BY <1>1, <1>2, <1>3 DEF CutoverInv, RunnersSound, RunnerSound, Owns, Importing
<1>5. runner[r].pc \in Importing
  BY <1>1 DEF Importing
<1>6. CASE ~Contains(redis[s].processing, e)
  <2>1. Goto(r, "failing") /\ UNCHANGED <<redis, removed>>
    BY <1>2, <1>3, <1>6, Zenon DEF Ack
  <2>2. "failing" \in PCs /\ "failing" \notin {"held", "accepted", "finish"}
    BY DEF PCs, Importing
  <2> QED
    BY <1>1, <1>5, <2>1, <2>2, GotoKeeps
<1>7. CASE Contains(redis[s].processing, e)
  <2>1. /\ redis' = [redis EXCEPT ![s].processing = RemoveFirst(@, e)]
        /\ removed' = [removed EXCEPT ![s] = Append(@, e)]
        /\ \/ runner' = [runner EXCEPT ![r].pc = "loop", ![r].imported = @ + 1]
           \/ Goto(r, "failing")
    BY <1>2, <1>3, <1>7, Zenon DEF Ack
  <2>2. PICK lists \in Lists : lists = redis[s]
    BY Typed
  <2>3. PICK rest \in Seq(Event) : rest = RemoveFirst(lists.processing, e)
    <3>1. lists.processing \in Seq(Event)
      BY DEF Lists
    <3> QED
      BY <1>7, <2>2, <3>1, RemoveFirstTyped
  <2>4. PICK left \in Lists : left = [lists EXCEPT !.processing = rest]
    BY DEF Lists
  <2>5. redis' \in [Sources -> Lists]
    <3>1. redis' = [redis EXCEPT ![s] = left]
      BY <2>1, <2>2, <2>3, <2>4, Typed
    <3> QED
      BY <3>1, Typed
  <2>6. RemovedIsStored' /\ removed' \in [Sources -> Seq(Event)]
    <3>1. PICK old \in Seq(Event) : old = removed[s]
      BY Typed
    <3>2. PICK new \in Seq(Event) : new = Append(old, e)
      BY AppendProperties
    <3>3. removed' = [removed EXCEPT ![s] = new]
      BY <2>1, <3>1, <3>2
    <3>4. removed' \in [Sources -> Seq(Event)]
      BY <3>3, Typed
    <3>5. ASSUME NEW o \in Sources, NEW i \in DOMAIN removed'[o]
          PROVE  marker.src = o /\ inbox[removed'[o][i].key] = removed'[o][i].payload
      <4>1. CASE o # s
        BY <3>3, <3>5, <4>1, Typed DEF CutoverInv, RemovedIsStored
      <4>2. CASE o = s
        <5>1. removed'[o] = new
          BY <3>3, <4>2, Typed
        <5>2. i \in 1 .. Len(old) + 1 /\ Len(old) \in Nat
          BY <3>2, <3>5, <5>1, AppendProperties, LenProperties
        <5>3. CASE i \in 1 .. Len(old)
          <6>1. new[i] = old[i] /\ i \in DOMAIN removed[s]
            BY <3>1, <3>2, <5>3, AppendProperties, LenProperties
          <6> QED
            BY <3>1, <4>2, <5>1, <6>1 DEF CutoverInv, RemovedIsStored
        <5>4. CASE i = Len(old) + 1
          <6>1. new[i] = e
            BY <3>2, <5>4, AppendProperties
          <6> QED
            BY <1>4, <4>2, <5>1, <6>1
        <5> QED
          BY <5>2, <5>3, <5>4
      <4> QED
        BY <4>1, <4>2
    <3> QED
      BY <1>1, <3>4, <3>5 DEF RemovedIsStored
  <2>7. PICK q \in Runner : /\ runner' = [runner EXCEPT ![r] = q] /\ q.pc \in {"loop", "failing"}
                            /\ q.src = runner[r].src
    <3>1. runner[r] \in Runner
      BY Typed
    <3>2. CASE Goto(r, "failing")
      <4>1. "failing" \in PCs
        BY DEF PCs, Importing
      <4> QED
        BY <3>2, <4>1, GotoIs
    <3>3. CASE runner' = [runner EXCEPT ![r].pc = "loop", ![r].imported = @ + 1]
      <4>1. PICK n \in Nat : n = runner[r].imported + 1
        BY <3>1 DEF Runner
      <4>2. PICK q \in Runner : q = [runner[r] EXCEPT !.pc = "loop", !.imported = n]
        BY <3>1 DEF Runner, Importing
      <4>3. q.pc = "loop" /\ q.src = runner[r].src
        BY <3>1, <4>2 DEF Runner
      <4>4. runner' = [runner EXCEPT ![r] = q]
        BY <3>3, <4>1, <4>2, Typed
      <4> QED
        BY <4>3, <4>4
    <3> QED
      BY <2>1, <3>2, <3>3
  <2> QED
    BY <1>1, <1>5, <2>5, <2>6, <2>7, Typed, QuietKeeps
<1> QED
  BY <1>6, <1>7

LEMMA FinalCheckKeeps ==
  ASSUME CutoverInv, NEW r \in Runners, FinalCheck(r)
  PROVE  CutoverInv'
<1>1. PICK pc \in {"finish", "failing"} :
         Goto(r, pc) /\ (pc = "finish" => IsEmpty(redis[runner[r].src]))
  BY DEF FinalCheck
<1>2. pc \in PCs /\ runner[r].pc \in Importing
  BY DEF PCs, Importing, FinalCheck
<1>3. UNCHANGED <<redis, marker, inbox, removed, stragglers>>
  BY Zenon DEF FinalCheck
<1> QED
  BY <1>1, <1>2, <1>3, GotoKeeps

LEMMA ImportErrorKeeps ==
  ASSUME CutoverInv, NEW r \in Runners, ImportError(r)
  PROVE  CutoverInv'
<1>1. "failing" \in PCs /\ runner[r].pc \in Importing
  BY DEF PCs, Importing, ImportError
<1>2. UNCHANGED <<redis, marker, inbox, removed, stragglers>> /\ Goto(r, "failing")
  BY Zenon DEF ImportError
<1> QED
  BY <1>1, <1>2, GotoKeeps

LEMMA DieKeeps ==
  ASSUME CutoverInv, NEW r \in Runners, Die(r)
  PROVE  CutoverInv'
<1>1. "dead" \in PCs /\ "dead" \notin Importing
  BY DEF PCs, Importing
<1>2. UNCHANGED <<redis, marker, inbox, removed, stragglers>> /\ Goto(r, "dead")
  BY Zenon DEF Die
<1> QED
  BY <1>1, <1>2, GotoKeeps

LEMMA VerdictKeeps ==
  ASSUME CutoverInv, NEW r \in Runners, Complete(r) \/ FailCutover(r)
  PROVE  CutoverInv'
<1>1. UNCHANGED <<redis, inbox, removed, stragglers>> /\ Goto(r, "over")
  BY Zenon DEF Complete, FailCutover
<1>2. "over" \in PCs /\ "over" \notin Importing /\ "over" \notin {"held", "accepted", "finish"}
  BY DEF PCs, Importing
<1>3. runner[r].pc \in Importing /\ Owns(r)
  BY DEF Complete, FailCutover, CutoverInv, RunnersSound, RunnerSound, Importing
<1>4. \A o \in Runners \ {r} : runner[o].pc \notin Importing
  BY <1>3 DEF CutoverInv, RunnersSound, RunnerSound, Owns
<1>5. PICK q \in Runner : /\ runner' = [runner EXCEPT ![r] = q] /\ q.pc = "over"
                          /\ q.src = runner[r].src
  BY <1>1, <1>2, GotoIs
<1>6. PICK n \in Nat : n = marker.count + runner[r].imported
  BY Typed DEF Runner, Marker
<1>7. PICK m \in Marker :
         /\ marker' = m /\ m.src = marker.src
         /\ m.status = "completed" => runner[r].pc = "finish"
  <2>1. CASE Complete(r)
    <3>1. marker' = [marker EXCEPT !.status = "completed", !.count = n] /\ runner[r].pc = "finish"
      BY <1>3, <1>6, <2>1, Typed DEF Complete
    <3>2. PICK m \in Marker : m = [marker EXCEPT !.status = "completed", !.count = n]
      BY Typed DEF Marker
    <3>3. m.src = marker.src /\ m.status = "completed"
      BY <3>2, Typed DEF Marker
    <3> QED
      BY <3>1, <3>2, <3>3
  <2>2. CASE FailCutover(r)
    <3>1. marker' = [marker EXCEPT !.status = "failed", !.owner = None, !.count = n]
      BY <1>3, <1>6, <2>2, Typed DEF FailCutover
    <3>2. PICK m \in Marker : m = [marker EXCEPT !.status = "failed", !.owner = None, !.count = n]
      BY Typed DEF Marker
    <3>3. m.src = marker.src /\ m.status = "failed"
      BY <3>2, Typed DEF Marker
    <3> QED
      BY <3>1, <3>2, <3>3
  <2> QED
    BY <2>1, <2>2
<1>8. m.status = "completed" => IsEmpty(redis[m.src])
  BY <1>3, <1>7 DEF Owns, CutoverInv, RunnersSound, RunnerSound
<1> QED
  BY <1>1, <1>2, <1>4, <1>5, <1>7, <1>8, MarkerKeeps

LEMMA DeliverKeeps ==
  ASSUME CutoverInv, NEW k \in Keys, NEW p \in Payloads, Deliver(k, p)
  PROVE  CutoverInv'
<1>1. /\ UNCHANGED <<redis, marker, runner, removed, stragglers>>
      /\ inbox[k] = None /\ inbox' = [inbox EXCEPT ![k] = p]
  BY Zenon DEF Deliver
<1>2. /\ inbox' \in [Keys -> Payloads \cup {None}]
      /\ \A o \in Keys : inbox[o] # None => inbox'[o] = inbox[o]
  BY <1>1, Typed
<1>3. CutoverTypeOK'
  BY <1>1, <1>2, Typed DEF CutoverTypeOK, Marker
<1>4. RunnersSound'
  BY <1>1, <1>2, OtherSound DEF RunnersSound
<1>5. RemovedIsStored'
  BY <1>1, <1>2, RemovedStays
<1>6. CompletedIsDrained'
  BY <1>1 DEF CutoverInv, CompletedIsDrained, IsEmpty
<1> QED
  BY <1>3, <1>4, <1>5, <1>6 DEF CutoverInv

LEMMA StraggleKeeps ==
  ASSUME CutoverInv, NEW s \in Sources, NEW e \in Event, Straggle(s, e)
  PROVE  CutoverInv'
<1>1. /\ UNCHANGED <<marker, inbox, runner, removed>>
      /\ stragglers < MaxStragglers /\ stragglers' = stragglers + 1
      /\ marker.status # "completed" /\ \A r \in Runners : runner[r].pc # "finish"
      /\ redis' = [redis EXCEPT ![s].pending = Append(@, e)]
  BY Zenon DEF Straggle
<1>2. redis' \in [Sources -> Lists]
  <2>1. PICK lists \in Lists : lists = redis[s]
    BY Typed
  <2>2. PICK more \in Seq(Event) : more = Append(lists.pending, e)
    BY AppendProperties DEF Lists
  <2>3. PICK new \in Lists : new = [lists EXCEPT !.pending = more]
    BY DEF Lists
  <2>4. redis' = [redis EXCEPT ![s] = new]
    BY <1>1, <2>1, <2>2, <2>3, Typed
  <2> QED
    BY <2>4, Typed
<1>3. CutoverTypeOK'
  <2>1. stragglers' \in 0 .. MaxStragglers
    BY <1>1, Typed, CutoverConstants
  <2> QED
    BY <1>1, <1>2, <2>1, Typed DEF CutoverTypeOK, Marker
<1>4. RunnersSound'
  BY <1>1, OtherSound DEF RunnersSound
<1>5. RemovedIsStored'
  BY <1>1, RemovedStays
<1>6. CompletedIsDrained'
  BY <1>1 DEF CompletedIsDrained
<1> QED
  BY <1>3, <1>4, <1>5, <1>6 DEF CutoverInv

LEMMA CutoverNext == CutoverInv /\ [Next]_vars => CutoverInv'
<1> SUFFICES ASSUME CutoverInv, [Next]_vars PROVE CutoverInv'
  OBVIOUS
<1>1. ASSUME NEW r \in Runners, RunnerStep(r) PROVE CutoverInv'
  BY <1>1, ReadMarkerKeeps, BeginKeeps, PreflightKeeps, NextLegacyKeeps, AcceptKeeps, AckKeeps,
     FinalCheckKeeps, VerdictKeeps DEF RunnerStep
<1>2. ASSUME NEW r \in Runners, ImportError(r) \/ Die(r) PROVE CutoverInv'
  BY <1>2, ImportErrorKeeps, DieKeeps
<1>3. CASE UNCHANGED vars
  <2>1. UNCHANGED <<redis, marker, inbox, runner, removed, stragglers>>
    BY <1>3 DEF vars
  <2>2. CutoverTypeOK' /\ RunnersSound'
    BY <2>1, Typed, OtherSound DEF CutoverTypeOK, RunnersSound, Marker
  <2>3. RemovedIsStored'
    BY <2>1, RemovedStays
  <2>4. CompletedIsDrained'
    BY <2>1 DEF CutoverInv, CompletedIsDrained, IsEmpty
  <2> QED
    BY <2>2, <2>3, <2>4 DEF CutoverInv
<1> QED
  BY <1>1, <1>2, <1>3, DeliverKeeps, StraggleKeeps DEF Next

LEMMA CutoverSafe == Spec => []CutoverInv
  BY CutoverInit, CutoverNext, PTL DEF Spec

--------------------------------------------------------------------------------
(* The results.                                                                  *)

\* The state always has its types.
THEOREM CutoverTypeCorrect == Spec => []CutoverTypeOK
<1>1. CutoverInv => CutoverTypeOK
  BY DEF CutoverInv
<1> QED
  BY <1>1, CutoverSafe, PTL

\* Two starts of the command never import at the same time: a start that goes
\* beyond BeginWeWorkCallbackLegacyCutover owns the running marker, and the
\* marker has one owner until that start gives its verdict.
THEOREM OneStartImports == Spec => []OneImporter
<1>1. CutoverInv => OneImporter
  BY DEF CutoverInv, RunnersSound, RunnerSound, Owns, OneImporter
<1> QED
  BY <1>1, CutoverSafe, PTL

\* Every event that LREM took out of Redis is in the inbox with its own payload,
\* and all of them came from the source the marker names.
THEOREM NothingIsLostOnTheWay == Spec => []RemovedIsStored
<1>1. CutoverInv => RemovedIsStored
  BY DEF CutoverInv
<1> QED
  BY <1>1, CutoverSafe, PTL

\* A cutover is completed only with the three lists of its source empty.
THEOREM CompletionMeansDrained == Spec => []CompletedIsDrained
<1>1. CutoverInv => CompletedIsDrained
  BY DEF CutoverInv
<1> QED
  BY <1>1, CutoverSafe, PTL

================================================================================
