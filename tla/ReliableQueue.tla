--------------------------- MODULE ReliableQueue ---------------------------
(***************************************************************************)
(* The Redis work queues of internal/store/redis.go and the worker loops   *)
(* that drain them.  Ten queues share this code; they differ in one thing: *)
(* the employee-apply queue stores a ticket in its idempotency claim       *)
(* (Ticketed = TRUE), the other nine store "1".                            *)
(*                                                                         *)
(* An item is a string in a Redis list.  Redis removes it by value (LREM), *)
(* so an item that was rewritten with a new attempt number or a new        *)
(* processing mark is no longer the item a slow worker holds.  The string  *)
(* is modelled by the fields that make it unique: the number of the        *)
(* enqueue that created it, its attempts and whether it is marked.  LREM   *)
(* with count 1 is RemoveFirst.                                            *)
(***************************************************************************)
EXTENDS Integers, Sequences, FiniteSets, SequencesExt

CONSTANTS Keys,          \* idempotency keys
          NoKey,         \* the absent key of an item pushed without envelope
          Workers,
          Kinds,         \* which kinds of items producers push
          MaxItems,      \* bound: items ever enqueued
          MaxAttempts,
          StaleAfter,    \* ticks until a marked item counts as abandoned
          ClaimTTL,      \* ticks an idempotency claim lives
          MaxLosses,     \* bound: crashes and lost Redis replies
          Ticketed

ASSUME QueueConstants ==
    /\ NoKey \notin Keys
    /\ Kinds \subseteq {"event", "mistyped", "garbage"}
    /\ MaxItems \in Nat /\ MaxLosses \in Nat
    /\ MaxAttempts \in Nat \ {0}
    /\ StaleAfter \in Nat \ {0} /\ ClaimTTL \in Nat \ {0}
    /\ Ticketed \in BOOLEAN

VARIABLES source,      \* the list workers take from
          processing,  \* the list of items some worker took
          dead,        \* the dead letter list
          acked,       \* history: numbers of acknowledged items
          claim,       \* idempotency claims: number of the enqueue, time left
          issued,      \* items enqueued so far (the Redis INCR of the tickets)
          fresh,       \* per item: ticks until its processing mark is stale
          worker,      \* each worker loop
          losses       \* bound: crashes and lost replies so far

queueVars == <<source, processing, dead, acked, claim, issued, fresh, worker, losses>>

Numbers == 1..MaxItems

Item == [n: Numbers, key: Keys \cup {NoKey}, kind: {"event", "mistyped", "garbage"},
         att: 0..MaxAttempts, marked: BOOLEAN]

\* "taken": BLMOVE returned; "busy": the item is marked and Process runs;
\* "scan": recovery works through its LRANGE snapshot.
WorkerLoop == [pc: {"idle"}]
                \cup [pc: {"taken", "busy"}, item: Item]
                \cup [pc: {"scan"}, snapshot: Seq(Item)]

QueueTypeOK ==
    /\ source \in Seq(Item) /\ processing \in Seq(Item) /\ dead \in Seq(Item)
    /\ acked \subseteq Numbers
    /\ claim \in [Keys -> [n: 0..MaxItems, ttl: 0..ClaimTTL]]
    /\ issued \in 0..MaxItems
    /\ fresh \in [Numbers -> 0..StaleAfter]
    /\ worker \in [Workers -> WorkerLoop]
    /\ losses \in 0..MaxLosses

Idle == [pc |-> "idle"]

QueueInit ==
    /\ source = <<>> /\ processing = <<>> /\ dead = <<>>
    /\ acked = {}
    /\ claim = [k \in Keys |-> [n |-> 0, ttl |-> 0]]
    /\ issued = 0
    /\ fresh = [n \in Numbers |-> 0]
    /\ worker = [w \in Workers |-> Idle]
    /\ losses = 0

In(item, list) == \E i \in DOMAIN list : list[i] = item

NewItem(k, kind) == [n |-> issued + 1, key |-> k, kind |-> kind, att |-> 0, marked |-> FALSE]

\* The enqueue script: SET NX of the claim and RPUSH in one step.  With the
\* claim taken nothing changes, so only the enqueue that inserts is an action.
Enqueue(k) ==
    /\ issued < MaxItems
    /\ claim[k].ttl = 0
    /\ claim' = [claim EXCEPT ![k] = [n |-> issued + 1, ttl |-> ClaimTTL]]
    /\ source' = Append(source, NewItem(k, "event"))
    /\ issued' = issued + 1
    /\ UNCHANGED <<processing, dead, acked, fresh, worker, losses>>

\* A producer of another version pushes a bare payload without an envelope.
Push(kind) ==
    /\ issued < MaxItems
    /\ source' = Append(source, NewItem(NoKey, kind))
    /\ issued' = issued + 1
    /\ UNCHANGED <<processing, dead, acked, claim, fresh, worker, losses>>

\* BLMOVE of the oldest item to the end of the processing list.
Take(w) ==
    /\ worker[w] = Idle
    /\ source # <<>>
    /\ source' = Tail(source)
    /\ processing' = Append(processing, Head(source))
    /\ worker' = [worker EXCEPT ![w] = [pc |-> "taken", item |-> Head(source)]]
    /\ UNCHANGED <<dead, acked, claim, issued, fresh, losses>>

\* Faulty variant (Released): the claim is deleted whoever holds it.
ReleasedByAnyone(item) ==
    IF item.key \in Keys THEN [claim EXCEPT ![item.key].ttl = 0] ELSE claim

\* Faulty variant (Released): settled items leave their claim behind.
ReleasedNever(item) == claim

\* BLMOVE times out on an empty source and the loop goes round.
Poll(w) ==
    /\ worker[w] = Idle
    /\ source = <<>>
    /\ UNCHANGED queueVars

\* The claim after an item is settled: it is released only by its own ticket,
\* and queues without tickets never release it.
Released(item) ==
    IF Ticketed /\ item.key \in Keys /\ claim[item.key].n = item.n
    THEN [claim EXCEPT ![item.key].ttl = 0]
    ELSE claim

\* Faulty variant (Rewritten): the attempt is not counted.
RewrittenAlike(item) == [item EXCEPT !.marked = FALSE]

Rewritten(item) == [item EXCEPT !.att = @ + 1, !.marked = FALSE]

\* Faulty variant (Requeue): the rewritten item is pushed even though the old
\* one was no longer in the processing list.
RequeueUnchecked(item) ==
    LET next == Rewritten(item) IN
    /\ processing' = RemoveFirst(processing, item)
    /\ IF next.att >= MaxAttempts
       THEN dead' = Append(dead, next) /\ claim' = Released(item) /\ UNCHANGED source
       ELSE source' = Append(source, next) /\ UNCHANGED <<dead, claim>>

\* LREM of the item and RPUSH of its rewritten form: back to the source, or to
\* the dead letters once the attempts are used up.  Nothing moves when the item
\* is not in the processing list any more.
Requeue(item) ==
    LET next == Rewritten(item) IN
    IF In(item, processing)
    THEN /\ processing' = RemoveFirst(processing, item)
         /\ IF next.att >= MaxAttempts
            THEN dead' = Append(dead, next) /\ claim' = Released(item) /\ UNCHANGED source
            ELSE source' = Append(source, next) /\ UNCHANGED <<dead, claim>>
    ELSE UNCHANGED <<source, processing, dead, claim>>

\* moveMalformedQueueItem: the raw string goes to the dead letters at once.
BuryMalformed(item) ==
    IF In(item, processing)
    THEN /\ processing' = RemoveFirst(processing, item)
         /\ dead' = Append(dead, [item EXCEPT !.att = 1])
         /\ claim' = Released(item)
         /\ UNCHANGED source
    ELSE UNCHANGED <<source, processing, dead, claim>>

\* The rest of Dequeue: an item that cannot be decoded is buried; otherwise its
\* processing mark is written.  The mark fails when recovery moved the item
\* meanwhile, and the worker goes on to the next item.
Mark(w) ==
    LET item == worker[w].item
        marked == [item EXCEPT !.marked = TRUE] IN
    /\ worker[w].pc = "taken"
    /\ IF item.kind # "event"
       THEN /\ BuryMalformed(item)
            /\ worker' = [worker EXCEPT ![w] = Idle]
            /\ UNCHANGED fresh
       ELSE IF In(item, processing)
            THEN /\ processing' = Append(RemoveFirst(processing, item), marked)
                 /\ fresh' = [fresh EXCEPT ![item.n] = StaleAfter]
                 /\ worker' = [worker EXCEPT ![w] = [pc |-> "busy", item |-> marked]]
                 /\ UNCHANGED <<source, dead, claim>>
            ELSE /\ worker' = [worker EXCEPT ![w] = Idle]
                 /\ UNCHANGED <<source, processing, dead, claim, fresh>>
    /\ UNCHANGED <<acked, issued, losses>>

\* Process succeeded: the acknowledgement removes the item, if it is still this
\* worker's, and the employee queue releases its claim in the same script.
Ack(w) ==
    LET item == worker[w].item IN
    /\ worker[w].pc = "busy"
    /\ IF In(item, processing)
       THEN /\ processing' = RemoveFirst(processing, item)
            /\ acked' = acked \cup {item.n}
            /\ claim' = Released(item)
       ELSE UNCHANGED <<processing, acked, claim>>
    /\ worker' = [worker EXCEPT ![w] = Idle]
    /\ UNCHANGED <<source, dead, issued, fresh, losses>>

\* Process failed: retryReliableQueueItem.
Retry(w) ==
    /\ worker[w].pc = "busy"
    /\ Requeue(worker[w].item)
    /\ worker' = [worker EXCEPT ![w] = Idle]
    /\ UNCHANGED <<acked, issued, fresh, losses>>

\* Faulty variant (Abandoned): items whose mark was never written are skipped.
AbandonedIfMarked(item) == item.marked /\ fresh[item.n] = 0

\* An item without a mark counts as abandoned from the start.
Abandoned(item) == ~item.marked \/ fresh[item.n] = 0

\* The LRANGE of recoverReliableQueueProcessing, at the top of the worker loop.
StartRecovery(w) ==
    LET snapshot == SelectSeq(processing, Abandoned) IN
    /\ worker[w] = Idle
    /\ snapshot # <<>>
    /\ worker' = [worker EXCEPT ![w] = [pc |-> "scan", snapshot |-> snapshot]]
    /\ UNCHANGED <<source, processing, dead, acked, claim, issued, fresh, losses>>

\* One item of the snapshot.  When it has moved since, recovery gives up.
RecoverItem(w) ==
    LET item == Head(worker[w].snapshot)
        rest == Tail(worker[w].snapshot) IN
    /\ worker[w].pc = "scan"
    /\ IF item.kind = "garbage" THEN BuryMalformed(item) ELSE Requeue(item)
    /\ worker' = [worker EXCEPT ![w] =
                    IF rest # <<>> /\ In(item, processing)
                    THEN [pc |-> "scan", snapshot |-> rest] ELSE Idle]
    /\ UNCHANGED <<acked, issued, fresh, losses>>

\* The process dies, or Redis executed the last command and the reply is lost.
Lose(w) ==
    /\ worker[w] # Idle
    /\ losses < MaxLosses
    /\ worker' = [worker EXCEPT ![w] = Idle]
    /\ losses' = losses + 1
    /\ UNCHANGED <<source, processing, dead, acked, claim, issued, fresh>>

Lower(t) == IF t > 0 THEN t - 1 ELSE 0

\* Time passes for the claims' expiry and for the processing marks.
Tick ==
    /\ \/ \E k \in Keys : claim[k].ttl > 0
       \/ \E n \in Numbers : fresh[n] > 0
    /\ claim' = [k \in Keys |-> [claim[k] EXCEPT !.ttl = Lower(@)]]
    /\ fresh' = [n \in Numbers |-> Lower(fresh[n])]
    /\ UNCHANGED <<source, processing, dead, acked, issued, worker, losses>>

LoopStep(w) ==
    \/ Take(w) \/ Mark(w) \/ Ack(w) \/ Retry(w)
    \/ StartRecovery(w) \/ RecoverItem(w)

QueueNext ==
    \/ \E k \in Keys : "event" \in Kinds /\ Enqueue(k)
    \/ \E kind \in Kinds \ {"event"} : Push(kind)
    \/ \E w \in Workers : LoopStep(w) \/ Poll(w) \/ Lose(w)
    \/ Tick

QueueSpec == QueueInit /\ [][QueueNext]_queueVars

\* Clocks advance and the worker loops run; producers and losses owe nothing.
QueueFairSpec ==
    /\ QueueSpec
    /\ WF_queueVars(Tick)
    /\ \A w \in Workers : WF_queueVars(LoopStep(w))

-----------------------------------------------------------------------------
Copies(n, list) == Cardinality({i \in DOMAIN list : list[i].n = n})

\* Nothing enqueued is lost and nothing is duplicated: with crashes, lost
\* replies and recovery racing live workers, every item is in exactly one of
\* the source, processing and dead letter lists, or was acknowledged once.
NothingLostOrDoubled ==
    \A n \in 1..issued :
        Copies(n, source) + Copies(n, processing) + Copies(n, dead)
            + (IF n \in acked THEN 1 ELSE 0) = 1

\* At most one worker holds the copy of an item that is in the processing list,
\* so an item recovered from a slow worker can only be settled by its new owner.
OneHolder ==
    \A v, w \in Workers :
        /\ worker[v].pc = "busy" /\ worker[w].pc = "busy"
        /\ worker[v].item.n = worker[w].item.n
        /\ In(worker[v].item, processing) /\ In(worker[w].item, processing)
        => v = w

\* With tickets an idempotency claim never blocks producers for a job that is
\* over: the item that took the claim is still waiting or being processed.
ClaimIsLive ==
    Ticketed => \A k \in Keys :
        claim[k].ttl > 0 =>
            Copies(claim[k].n, source) + Copies(claim[k].n, processing) = 1

\* A claim is freed by its expiry or in the step that settles its own item; the
\* acknowledgement of an older job cannot free the claim of a newer one.
ClaimFreedByOwner ==
    [][\A k \in Keys : claim[k].ttl > 0 /\ claim'[k].ttl = 0 =>
          \/ claim[k].ttl = 1
          \/ claim[k].n \in acked' \ acked
          \/ Copies(claim[k].n, dead) < Copies(claim[k].n, dead')]_queueVars

\* Every enqueued item is acknowledged or becomes a dead letter.
ItemsSettle ==
    \A n \in Numbers : n <= issued ~> (n \in acked \/ Copies(n, dead) = 1)

-----------------------------------------------------------------------------
(* What the queue promises about an item, as EventLifecycle states it.  The  *)
(* lists tell where an item is in its life; one that is nowhere, or in two   *)
(* places, is at no stage of it.                                             *)
ItemStage(n) ==
    LET waiting == Copies(n, source) + Copies(n, processing)
        buried == Copies(n, dead)
    IN  CASE n > issued -> "absent"
          [] n <= issued /\ waiting = 1 /\ buried = 0 /\ n \notin acked -> "open"
          [] n <= issued /\ waiting = 0 /\ buried = 1 /\ n \notin acked -> "dead"
          [] n <= issued /\ waiting = 0 /\ buried = 0 /\ n \in acked -> "completed"
          [] OTHER -> "broken"

Lifecycle == INSTANCE EventLifecycle WITH
    Events <- Numbers, stage <- [n \in Numbers |-> ItemStage(n)]

\* Crashes, lost replies, slow workers and recoveries that race them never lose
\* or double an item: it waits, or is worked on, in one place until it is either
\* acknowledged or a dead letter, and that is final.
ImplementsLifecycle == Lifecycle!VerdictSpec

=============================================================================
