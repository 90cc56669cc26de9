---------------------------- MODULE LegacyCutover ----------------------------
(***************************************************************************)
(* The one-time cutover of the WeCom callbacks from the legacy Redis lists *)
(* to the MySQL inbox (cmd/mochat-callback-legacy-cutover).  An operator   *)
(* starts the command, perhaps twice at the same time, perhaps against the *)
(* wrong Redis; each start draws its own owner token, so a runner of the   *)
(* model is one start and its name is the token.  The command can die or   *)
(* run into its timeout at any point.                                      *)
(*                                                                         *)
(* The inbox is reduced to what AcceptWeWorkCallback does: one payload per *)
(* event key, never replaced (CallbackInbox has the rest).                 *)
(***************************************************************************)
EXTENDS Naturals, Sequences, FiniteSets, SequencesExt

CONSTANTS Runners,
          Sources,         \* Redis instances the command may be pointed at
          Keys,            \* event keys
          Payloads,        \* payload fingerprints
          Backlogs,        \* what a source may hold when legacy traffic stops
          None,            \* no source, owner or payload
          MaxStragglers    \* bound: pushes of a legacy producer left running

\* An event of which `readable' is false cannot be decoded or has no tenant.
Event == [key: Keys, payload: Payloads, readable: BOOLEAN]

ASSUME CutoverConstants ==
    /\ None \notin Runners \cup Sources \cup Payloads \cup Event
    /\ MaxStragglers \in Nat

Lists == [pending: Seq(Event), processing: Seq(Event), dead: Seq(Event)]

ASSUME BacklogsAreLists == Backlogs \subseteq Lists

VARIABLES redis,       \* the three legacy lists of each source
          marker,      \* the row of mochat_go_wework_callback_cutovers
          inbox,       \* the payload stored under each event key
          runner,      \* each start of the command
          removed,     \* history: events acknowledged in Redis, per source
          stragglers   \* bound: late pushes so far

vars == <<redis, marker, inbox, runner, removed, stragglers>>

Importing == {"begun", "loop", "held", "accepted", "check", "finish", "failing"}

Runner == [pc: {"start", "checked", "over", "dead"} \cup Importing,
           src: Sources, item: Event \cup {None}, imported: Nat]

CutoverTypeOK ==
    /\ redis \in [Sources -> Lists]
    /\ marker \in [status: {"pending", "running", "failed", "completed"},
                   src: Sources \cup {None}, owner: Runners \cup {None}, count: Nat]
    /\ inbox \in [Keys -> Payloads \cup {None}]
    /\ runner \in [Runners -> Runner]
    /\ removed \in [Sources -> Seq(Event)]
    /\ stragglers \in 0..MaxStragglers

Init ==
    /\ redis \in [Sources -> Backlogs]
    /\ marker = [status |-> "pending", src |-> None, owner |-> None, count |-> 0]
    /\ inbox = [k \in Keys |-> None]
    /\ runner \in [Runners -> [pc: {"start"}, src: Sources, item: {None}, imported: {0}]]
    /\ removed = [s \in Sources |-> <<>>]
    /\ stragglers = 0

-----------------------------------------------------------------------------
Goto(r, pc) == runner' = [runner EXCEPT ![r].pc = pc]

IsEmpty(lists) == lists.pending = <<>> /\ lists.processing = <<>> /\ lists.dead = <<>>

\* The command reads the marker and gives up on another source's cutover or a
\* completed one.
ReadMarker(r) ==
    /\ runner[r].pc = "start"
    /\ Goto(r, IF marker.src \in {None, runner[r].src} /\ marker.status # "completed"
               THEN "checked" ELSE "over")
    /\ UNCHANGED <<redis, marker, inbox, removed, stragglers>>

\* Faulty variant (MayBegin): the marker is taken over from a running owner.
MayBeginRunning(r) ==
    /\ marker.status # "completed"
    /\ marker.src \in {None, runner[r].src}

\* The WHERE clause of BeginWeWorkCallbackLegacyCutover.
MayBegin(r) ==
    /\ marker.status \in {"pending", "failed"}
    /\ marker.src \in {None, runner[r].src}

\* Without a matching row the command ends; it also ends when the update was
\* committed and its reply is lost.
Begin(r) ==
    /\ runner[r].pc = "checked"
    /\ IF MayBegin(r)
       THEN /\ marker' = [marker EXCEPT !.status = "running", !.src = runner[r].src, !.owner = r]
            /\ Goto(r, "begun") \/ Goto(r, "dead")
       ELSE Goto(r, "over") /\ UNCHANGED marker
    /\ UNCHANGED <<redis, inbox, removed, stragglers>>

\* The preflight refuses a source with dead letters.
Preflight(r) ==
    /\ runner[r].pc = "begun"
    /\ Goto(r, IF redis[runner[r].src].dead = <<>> THEN "loop" ELSE "failing")
    /\ UNCHANGED <<redis, marker, inbox, removed, stragglers>>

\* NextLegacyWeWorkCallback: the head of the processing list, or else the oldest
\* pending event, which is moved there first.
NextLegacy(r) ==
    LET s == runner[r].src
        lists == redis[s]
        moved == IF lists.processing = <<>> /\ lists.pending # <<>>
                 THEN [lists EXCEPT !.processing = <<Head(lists.pending)>>, !.pending = Tail(@)]
                 ELSE lists IN
    /\ runner[r].pc = "loop"
    /\ redis' = [redis EXCEPT ![s] = moved]
    /\ \/ moved.processing = <<>> /\ Goto(r, "check")
       \/ /\ moved.processing # <<>>
          /\ runner' = [runner EXCEPT
                ![r].item = Head(moved.processing),
                ![r].pc = IF Head(moved.processing).readable THEN "held" ELSE "failing"]
    /\ UNCHANGED <<marker, inbox, removed, stragglers>>

\* Faulty variant (Accept): a conflicting payload counts as a duplicate.
AcceptConflict(r) ==
    LET e == runner[r].item IN
    /\ runner[r].pc = "held"
    /\ inbox' = IF inbox[e.key] = None THEN [inbox EXCEPT ![e.key] = e.payload] ELSE inbox
    /\ Goto(r, "accepted")
    /\ UNCHANGED <<redis, marker, removed, stragglers>>

\* AcceptWeWorkCallback: insert, or compare with the payload that is stored.
Accept(r) ==
    LET e == runner[r].item IN
    /\ runner[r].pc = "held"
    /\ inbox' = IF inbox[e.key] = None THEN [inbox EXCEPT ![e.key] = e.payload] ELSE inbox
    /\ Goto(r, IF inbox[e.key] \in {None, e.payload} THEN "accepted" ELSE "failing")
    /\ UNCHANGED <<redis, marker, removed, stragglers>>

\* LREM takes one copy of the event out of the processing list and it is counted;
\* when the reply is lost it is gone and not counted.
Ack(r) ==
    LET s == runner[r].src
        e == runner[r].item IN
    /\ runner[r].pc = "accepted"
    /\ IF Contains(redis[s].processing, e)
       THEN /\ redis' = [redis EXCEPT ![s].processing = RemoveFirst(@, e)]
            /\ removed' = [removed EXCEPT ![s] = Append(@, e)]
            /\ \/ runner' = [runner EXCEPT ![r].pc = "loop", ![r].imported = @ + 1]
               \/ Goto(r, "failing")
       ELSE Goto(r, "failing") /\ UNCHANGED <<redis, removed>>
    /\ UNCHANGED <<marker, inbox, stragglers>>

\* Faulty variant (FinalCheck): the lists are not looked at again.
FinalCheckSkipped(r) ==
    /\ runner[r].pc = "check"
    /\ Goto(r, "finish")
    /\ UNCHANGED <<redis, marker, inbox, removed, stragglers>>

FinalCheck(r) ==
    /\ runner[r].pc = "check"
    /\ Goto(r, IF IsEmpty(redis[runner[r].src]) THEN "finish" ELSE "failing")
    /\ UNCHANGED <<redis, marker, inbox, removed, stragglers>>

\* Redis or MySQL answers with an error.
ImportError(r) ==
    /\ runner[r].pc \in {"begun", "loop", "held", "accepted", "check"}
    /\ Goto(r, "failing")
    /\ UNCHANGED <<redis, marker, inbox, removed, stragglers>>

\* The WHERE clause of the two verdicts.
Owns(r) == marker.status = "running" /\ marker.src = runner[r].src /\ marker.owner = r

\* CompleteWeWorkCallbackLegacyCutover.
Complete(r) ==
    /\ runner[r].pc = "finish"
    /\ marker' = IF Owns(r)
                 THEN [marker EXCEPT !.status = "completed", !.count = @ + runner[r].imported]
                 ELSE marker
    /\ Goto(r, "over")
    /\ UNCHANGED <<redis, inbox, removed, stragglers>>

\* Faulty variant (FailCutover): a failure before the first event is only printed.
FailCutoverIfImported(r) ==
    /\ runner[r].pc = "failing"
    /\ marker' = IF Owns(r) /\ runner[r].imported > 0
                 THEN [marker EXCEPT !.status = "failed", !.owner = None,
                                     !.count = @ + runner[r].imported]
                 ELSE marker
    /\ Goto(r, "over")
    /\ UNCHANGED <<redis, inbox, removed, stragglers>>

\* FailWeWorkCallbackLegacyCutover, which frees the marker for another start.
FailCutover(r) ==
    /\ runner[r].pc = "failing"
    /\ marker' = IF Owns(r)
                 THEN [marker EXCEPT !.status = "failed", !.owner = None,
                                     !.count = @ + runner[r].imported]
                 ELSE marker
    /\ Goto(r, "over")
    /\ UNCHANGED <<redis, inbox, removed, stragglers>>

\* The process dies.  A timeout has the same effect: the context that is over
\* also refuses the statement that would record the failure.
Die(r) ==
    /\ runner[r].pc \notin {"over", "dead"}
    /\ Goto(r, "dead")
    /\ UNCHANGED <<redis, marker, inbox, removed, stragglers>>

-----------------------------------------------------------------------------
\* WeCom delivers an event to the new handler meanwhile.
Deliver(k, p) ==
    /\ inbox[k] = None
    /\ inbox' = [inbox EXCEPT ![k] = p]
    /\ UNCHANGED <<redis, marker, runner, removed, stragglers>>

\* A legacy producer that was not stopped pushes another event; it is assumed to
\* be gone when the command makes its final check.
Straggle(s, e) ==
    /\ stragglers < MaxStragglers
    /\ marker.status # "completed" /\ \A r \in Runners : runner[r].pc # "finish"
    /\ redis' = [redis EXCEPT ![s].pending = Append(@, e)]
    /\ stragglers' = stragglers + 1
    /\ UNCHANGED <<marker, inbox, runner, removed>>

RunnerStep(r) ==
    \/ ReadMarker(r) \/ Begin(r) \/ Preflight(r) \/ NextLegacy(r) \/ Accept(r)
    \/ Ack(r) \/ FinalCheck(r) \/ Complete(r) \/ FailCutover(r)

Next ==
    \/ \E r \in Runners : RunnerStep(r) \/ ImportError(r) \/ Die(r)
    \/ \E k \in Keys, p \in Payloads : Deliver(k, p)
    \/ \E s \in Sources, e \in Event : Straggle(s, e)

Spec == Init /\ [][Next]_vars

\* A command that was started goes on until it ends.
FairSpec == Spec /\ \A r \in Runners : WF_vars(RunnerStep(r))

-----------------------------------------------------------------------------
\* Only the Redis instance the first start was bound to is drained, and whatever
\* was removed from it is in the inbox with its own payload, however often the
\* command failed, died or met an event WeCom had delivered again.
RemovedIsStored ==
    \A s \in Sources : \A i \in DOMAIN removed[s] :
        marker.src = s /\ inbox[removed[s][i].key] = removed[s][i].payload

\* At most one command imports at a time; a marker whose owner died is not taken
\* over by the next start.
OneImporter ==
    \A q, r \in Runners : runner[q].pc \in Importing /\ runner[r].pc \in Importing => q = r

\* A completed cutover left nothing behind in its source: not in the lists it
\* reads, nor what a legacy producer pushed before the final check.
CompletedIsDrained == marker.status = "completed" => IsEmpty(redis[marker.src])

\* A cutover does not stay running, except when its command died: that is the
\* only case an operator has to repair by hand.
RunningEnds ==
    marker.status = "running" ~>
        \/ marker.status \in {"failed", "completed"}
        \/ marker.owner # None /\ runner[marker.owner].pc = "dead"

=============================================================================
