-------------------------- MODULE CallbackSideEffects --------------------------
(***************************************************************************)
(* What the callback worker does with an add_external_contact event of a   *)
(* fission ("task treasure") campaign, on top of the durable inbox: it     *)
(* syncs the contact, counts the invitation, and when the invitation       *)
(* completes the parent's task sends an employee reminder and a customer   *)
(* push through WeCom, on whose deduplication the worker does not rely.    *)
(*                                                                         *)
(* Each send has a durable intent (mochat_go_wework_callback_side_effects) *)
(* written in the transaction that counts the invitation.  The intent      *)
(* becomes `unknown' before WeCom is called and `sent' after WeCom         *)
(* answered; an `unknown' intent is never retried by the worker, only an   *)
(* operator with evidence may resolve it, after a quarantine.              *)
(*                                                                         *)
(* All the events modelled invite a new friend for the same parent.  The   *)
(* campaign is read anew by every execution, and its editor may change it  *)
(* any number of times, in either direction, between two reads.            *)
(***************************************************************************)
EXTENDS CallbackInbox, FiniteSets

CONSTANTS
    NumActions,       \* fission.employee_reminder is 1, fission.customer_push is 2
    Requests,         \* Idempotency-Keys of operator commands
    Quarantine,       \* reconcile_after - unknown_at, in ticks
    RequestLife,      \* external: how long WeCom may still accept a request
                      \* after the client that sent it gave up, in ticks
    Payloads,         \* contents a message may have
    Nothing,          \* the payload of a message that is not due
    Campaigns         \* what the campaign may look like

Actions == 1 .. NumActions

\* What Process reads of the campaign: whether its row and the parent's are found,
\* whether the employee who received the event is in the directory, the
\* invitations that complete the task (0 for none), the new-friend rule, and
\* what each message would say.  A message has Nothing to say when it is
\* switched off, when the campaign has no end in the future, when no employee
\* serves it, or when its content is empty; each of them is decided alone.
Campaign == [found : BOOLEAN, staffed : BOOLEAN, total : Nat, newOnly : BOOLEAN,
             push : [Actions -> Payloads \cup {Nothing}]]

ASSUME SideEffectConstants ==
    /\ NumActions \in Nat
    /\ Quarantine \in Nat
    /\ RequestLife \in Nat
    /\ Quarantine >= ProcessingTimeout + RequestLife
    /\ Nothing \notin Payloads
    /\ Campaigns \subseteq Campaign

VARIABLES
    run,          \* where each worker is inside Process
    intent,       \* the side effect ledger
    provider,     \* external: how often WeCom accepted each message
    flight,       \* external: ticks a request without an answer stays alive
    contacts,     \* events whose contact is in mc_work_contact
    children,     \* events whose contact is a child of the parent
    inviteCount,  \* the parent's invite_count
    activity,     \* the campaign as it is now
    cmd,          \* operator commands, as prepared from the detail page
    receipts,     \* commands that were committed
    okDue         \* history: the messages that were due in the execution okFence
                  \* remembers, per event

effectVars == <<run, intent, provider, flight, contacts, children, inviteCount,
                activity, cmd, receipts, okDue>>
vars == <<inboxVars, effectVars>>
businessVars == <<contacts, children, inviteCount>>
operatorVars == <<cmd, receipts>>
externalVars == <<provider, flight, activity>>

--------------------------------------------------------------------------------
(* Types *)

RunState == [at : {"none", "contact", "fission", "action", "sending", "sealing",
                   "welcome"},
             isNew : BOOLEAN, k : Nat, err : BOOLEAN, due : SUBSET Actions]

\* `hash' stands for payload_hash.
Intent == [status : {"none", "pending", "unknown", "sent"}, version : Nat,
           hash : Payloads \cup {Nothing}, quar : Nat]

Command == [event : Events, action : Actions, version : Nat, fence : Nat,
            decision : {"confirm_sent", "confirm_not_sent_and_retry"}]
NoCommand == [decision |-> "none"]

EffectTypeOK ==
    /\ run \in [Workers -> RunState]
    /\ intent \in [Events -> [Actions -> Intent]]
    /\ provider \in [Events -> [Actions -> Nat]]
    /\ flight \in [Events -> [Actions -> Nat]]
    /\ contacts \subseteq Events
    /\ children \subseteq Events
    /\ inviteCount \in Nat
    /\ activity \in Campaigns
    /\ cmd \in [Requests -> Command \cup {NoCommand}]
    /\ receipts \subseteq Requests
    /\ okDue \in [Events -> SUBSET Actions]

NotRunning == [at |-> "none", isNew |-> FALSE, k |-> 1, err |-> FALSE, due |-> {}]

EffectInit ==
    /\ run = [w \in Workers |-> NotRunning]
    /\ intent = [e \in Events |-> [a \in Actions |->
                  [status |-> "none", version |-> 1, hash |-> Nothing, quar |-> 0]]]
    /\ provider = [e \in Events |-> [a \in Actions |-> 0]]
    /\ flight = [e \in Events |-> [a \in Actions |-> 0]]
    /\ contacts = {} /\ children = {} /\ inviteCount = 0
    /\ activity \in Campaigns /\ activity.found
    /\ cmd = [r \in Requests |-> NoCommand]
    /\ receipts = {}
    /\ okDue = [e \in Events |-> {}]

Init == InboxInit /\ EffectInit

--------------------------------------------------------------------------------
(* The inbox's own steps *)

EndRun(w) == run' = [run EXCEPT ![w] = NotRunning]

\* Steps of the inbox and of handleClaim that do not touch the effects.
InboxStep(w) ==
    /\ Claim(w) \/ Complete(w) \/ Fail(w) \/ Defer(w)
    /\ UNCHANGED effectVars

StartProcess(w) ==
    /\ Validate(w)
    /\ run' = IF HoldsLease(w) THEN [run EXCEPT ![w].at = "contact"] ELSE run
    /\ UNCHANGED <<intent, businessVars, operatorVars, externalVars, okDue>>

\* Process returns with this outcome.
Return(w, outcome) ==
    /\ ProcessReturns(w, outcome) /\ EndRun(w)
    /\ okDue' = IF okFence' = okFence THEN okDue
                ELSE [okDue EXCEPT ![worker[w].event] = run[w].due]

Deliveries ==
    /\ \E e \in Events, f \in Fingerprints : Deliver(e, f)
    /\ UNCHANGED effectVars

--------------------------------------------------------------------------------
(* syncContactFromEvent *)

\* SyncWorkContactForEmployee commits the contact and reports whether it was new.
SyncContact(w) ==
    LET e == worker[w].event IN
    /\ run[w].at = "contact" /\ worker[w].ctx > 0 /\ activity.staffed
    /\ run' = [run EXCEPT ![w].at = "fission", ![w].isNew = (e \notin contacts)]
    /\ contacts' = contacts \cup {e}
    /\ UNCHANGED <<inboxVars, intent, children, inviteCount, operatorVars, externalVars,
                   okDue>>

\* The employee is not in the directory any more: the event is dropped.
IgnoreEvent(w) ==
    /\ run[w].at = "contact" /\ worker[w].ctx > 0 /\ ~activity.staffed
    /\ Return(w, "ok")
    /\ UNCHANGED <<intent, businessVars, operatorVars, externalVars>>

\* A store or WeCom error, or a queue that is down, before the invitation is
\* counted: the contact may be committed already.
SyncFails(w) ==
    /\ run[w].at \in {"contact", "fission"}
    /\ Return(w, "failed") \/ (run[w].at = "fission" /\ Return(w, "deferred"))
    /\ UNCHANGED <<intent, businessVars, operatorVars, externalVars>>

\* Faulty variant (InvitesNow): a refreshed child counts again.
InvitesAlways(w) ==
    IF activity.newOnly => run[w].isNew THEN inviteCount + 1 ELSE inviteCount

\* HandleWorkFissionAddContact: one transaction creates or refreshes the child,
\* moves the parent's counter and inserts the intents.  There is no lease check.
InvitesNow(w) ==
    LET e == worker[w].event IN
    IF e \notin children /\ (activity.newOnly => run[w].isNew)
    THEN inviteCount + 1 ELSE inviteCount

\* workFissionEmployeeReminder and workFissionCustomerPush: the messages due when
\* this event leaves the counter exactly at the task's total.
DueActions(w) ==
    IF activity.total > 0 /\ InvitesNow(w) = activity.total
    THEN {a \in Actions : activity.push[a] # Nothing}
    ELSE {}

\* An intent is compared with the payload only when its message is due again.
HashConflict(w) ==
    LET stored == intent[worker[w].event] IN
    \E a \in DueActions(w) :
        stored[a].status # "none" /\ stored[a].hash # activity.push[a]

CountInvitation(w) ==
    LET e == worker[w].event IN
    /\ run[w].at = "fission" /\ worker[w].ctx > 0 /\ activity.found
    /\ ~HashConflict(w)
    /\ children' = children \cup {e}
    /\ inviteCount' = InvitesNow(w)
    /\ intent' = [intent EXCEPT ![e] = [a \in Actions |->
                    IF a \in DueActions(w) /\ intent[e][a].status = "none"
                    THEN [status |-> "pending", version |-> 1,
                          hash |-> activity.push[a], quar |-> 0]
                    ELSE intent[e][a]]]
    /\ run' = [run EXCEPT ![w].at = "action", ![w].k = 1,
                         ![w].due = DueActions(w)]
    /\ UNCHANGED <<inboxVars, contacts, operatorVars, externalVars, okDue>>

\* The parent or its campaign is not found: nothing is counted, nothing is due.
SkipInvitation(w) ==
    /\ run[w].at = "fission" /\ worker[w].ctx > 0 /\ ~activity.found
    /\ run' = [run EXCEPT ![w].at = "welcome"]
    /\ UNCHANGED <<inboxVars, intent, businessVars, operatorVars, externalVars, okDue>>

\* The stored intent has another payload hash: the transaction rolls back.
RejectChangedIntent(w) ==
    /\ run[w].at = "fission" /\ worker[w].ctx > 0 /\ activity.found
    /\ HashConflict(w)
    /\ Return(w, "failed")
    /\ UNCHANGED <<intent, businessVars, operatorVars, externalVars>>

--------------------------------------------------------------------------------
(* beginDurableSideEffect, the WeCom call, and the completion *)

\* Faulty variant (NextAction): the error is dropped.
NextActionForgets(w, err) ==
    run' = [run EXCEPT ![w].at = "action", ![w].k = @ + 1]

\* Both actions are attempted; an error of the first is remembered.
NextAction(w, err) ==
    run' = [run EXCEPT ![w].at = "action", ![w].k = @ + 1, ![w].err = @ \/ err]

AtAction(w) == run[w].at = "action" /\ run[w].k \in run[w].due

\* A message without a payload is passed over, and its intent is not looked at.
PassOver(w) ==
    /\ run[w].at = "action" /\ run[w].k \in Actions \ run[w].due
    /\ NextAction(w, FALSE)
    /\ UNCHANGED <<inboxVars, intent, businessVars, operatorVars, externalVars, okDue>>

\* Every UPDATE of a ledger row moves its version.
Stamped(i, status, quar) ==
    [i EXCEPT !.status = status, !.version = i.version + 1, !.quar = quar]

\* Faulty variant (BeginSideEffect): the unknown intent is not quarantined.
BeginWithoutQuarantine(w) ==
    LET e == worker[w].event
        a == run[w].k IN
    /\ AtAction(w)
    /\ worker[w].ctx > 0 /\ HoldsLease(w)
    /\ intent[e][a].status = "pending"
    /\ intent' = [intent EXCEPT ![e][a] = Stamped(@, "unknown", 0)]
    /\ run' = [run EXCEPT ![w].at = "sending"]
    /\ UNCHANGED <<inboxVars, businessVars, operatorVars, externalVars, okDue>>

\* BeginWeWorkCallbackSideEffect found the intent pending under a valid lease.
\* Its payload hash is the one CountInvitation compared in the same execution,
\* and a stored hash never changes, so that comparison cannot fail here.
BeginSideEffect(w) ==
    LET e == worker[w].event
        a == run[w].k IN
    /\ AtAction(w)
    /\ worker[w].ctx > 0 /\ HoldsLease(w)
    /\ intent[e][a].status = "pending"
    /\ intent' = [intent EXCEPT ![e][a] = Stamped(@, "unknown", Quarantine)]
    /\ run' = [run EXCEPT ![w].at = "sending"]
    /\ UNCHANGED <<inboxVars, businessVars, operatorVars, externalVars, okDue>>

\* It did not: already sent is success; unknown, a lost lease, an expired
\* context, an incomplete agent or a database error is not.
SkipSideEffect(w) ==
    /\ AtAction(w)
    /\ \/ NextAction(w, TRUE)
       \/ /\ intent[worker[w].event][run[w].k].status = "sent"
          /\ worker[w].ctx > 0 /\ HoldsLease(w)
          /\ NextAction(w, FALSE)
    /\ UNCHANGED <<inboxVars, intent, businessVars, operatorVars, externalVars, okDue>>

\* WeCom accepts the message and the answer arrives before the context ends.
SendAccepted(w) ==
    LET e == worker[w].event
        a == run[w].k IN
    /\ run[w].at = "sending" /\ worker[w].ctx > 0
    /\ provider' = [provider EXCEPT ![e][a] = @ + 1]
    /\ run' = [run EXCEPT ![w].at = "sealing"]
    /\ UNCHANGED <<inboxVars, intent, flight, businessVars, operatorVars, activity, okDue>>

\* The request left, but no answer came: it may be accepted later.
SendLost(w) ==
    LET e == worker[w].event
        a == run[w].k IN
    /\ run[w].at = "sending" /\ worker[w].ctx > 0
    /\ flight' = [flight EXCEPT ![e][a] = RequestLife]
    /\ \/ NextAction(w, TRUE) /\ UNCHANGED inboxVars
       \/ Crash(w) /\ EndRun(w)
    /\ UNCHANGED <<intent, provider, businessVars, operatorVars, activity, okDue>>

\* Faulty variant (SendRefused): the error of the call is ignored.
SendErrorIgnored(w) ==
    /\ run[w].at = "sending"
    /\ run' = [run EXCEPT ![w].at = "sealing"]
    /\ UNCHANGED <<inboxVars, intent, businessVars, operatorVars, externalVars, okDue>>

\* The call failed before a request left, or WeCom refused it.
SendRefused(w) ==
    /\ run[w].at = "sending"
    /\ NextAction(w, TRUE)
    /\ UNCHANGED <<inboxVars, intent, businessVars, operatorVars, externalVars, okDue>>

\* CompleteWeWorkCallbackSideEffect, with the processing context.  The reply of
\* the commit may be lost, which the worker takes for a failure.
SealSideEffect(w) ==
    LET e == worker[w].event
        a == run[w].k IN
    /\ run[w].at = "sealing"
    /\ worker[w].ctx > 0 /\ HoldsLease(w)
    /\ intent[e][a].status \in {"unknown", "sent"}
    /\ intent' = IF intent[e][a].status = "unknown"
                 THEN [intent EXCEPT ![e][a] = Stamped(@, "sent", 0)]
                 ELSE intent
    /\ \E lost \in BOOLEAN : NextAction(w, lost)
    /\ UNCHANGED <<inboxVars, businessVars, operatorVars, externalVars, okDue>>

SealFails(w) ==
    /\ run[w].at = "sealing"
    /\ NextAction(w, TRUE)
    /\ UNCHANGED <<inboxVars, intent, businessVars, operatorVars, externalVars, okDue>>

\* errors.Join of the two actions, then the welcome message, whose queue may be
\* down.
FinishActions(w) ==
    /\ run[w].at = "action" /\ run[w].k \notin Actions
    /\ IF run[w].err
       THEN Return(w, "failed")
       ELSE run' = [run EXCEPT ![w].at = "welcome"] /\ UNCHANGED <<inboxVars, okDue>>
    /\ UNCHANGED <<intent, businessVars, operatorVars, externalVars>>

EnqueueWelcome(w) ==
    /\ run[w].at = "welcome"
    /\ \E outcome \in Outcomes : Return(w, outcome)
    /\ UNCHANGED <<intent, businessVars, operatorVars, externalVars>>

WorkerCrash(w) ==
    /\ Crash(w) /\ EndRun(w)
    /\ UNCHANGED <<intent, businessVars, operatorVars, externalVars, okDue>>

--------------------------------------------------------------------------------
(* The operator *)

\* The operator reads the detail page of an unknown intent and collects evidence
\* on the provider's side once the quarantine is over.
Inspect(r, e, a) ==
    /\ cmd[r] = NoCommand
    /\ intent[e][a].status = "unknown" /\ intent[e][a].quar = 0
    /\ cmd' = [cmd EXCEPT ![r] =
                [event |-> e, action |-> a, version |-> intent[e][a].version,
                 fence |-> row[e].fence,
                 decision |-> IF provider[e][a] > 0 THEN "confirm_sent"
                              ELSE "confirm_not_sent_and_retry"]]
    /\ UNCHANGED <<inboxVars, run, intent, businessVars, externalVars, receipts, okDue>>

\* The checks of ReconcileCallbackSideEffect, in its order.
ReconcileAllowed(c) ==
    LET i == intent[c.event][c.action] IN
    /\ row[c.event].fence = c.fence
    /\ Revivable(row[c.event])
    /\ i.version = c.version
    /\ i.status = "unknown"
    /\ i.quar = 0

Decide(c) ==
    [intent EXCEPT ![c.event][c.action] =
        Stamped(@, IF c.decision = "confirm_sent" THEN "sent" ELSE "pending", 0)]

\* A committed Idempotency-Key is answered from its receipt and changes nothing.
Reserved(r) == cmd[r] # NoCommand /\ r \notin receipts

\* Faulty variant (Reconcile): the event is replayed at once.
ReconcileRevivesAtOnce(r) ==
    LET c == cmd[r] IN
    /\ Reserved(r)
    /\ ReconcileAllowed(c)
    /\ intent' = Decide(c)
    /\ receipts' = receipts \cup {r}
    /\ Revive(c.event)
    /\ UNCHANGED <<run, businessVars, externalVars, cmd, okDue>>

\* Faulty variant (Reconcile): the replay keeps the fence.
ReconcileKeepsFence(r) ==
    LET c == cmd[r] IN
    /\ Reserved(r)
    /\ ReconcileAllowed(c)
    /\ intent' = Decide(c)
    /\ receipts' = receipts \cup {r}
    /\ row' = [row EXCEPT ![c.event] = [Released(@, "pending", 0) EXCEPT !.attempt = 0]]
    /\ UNCHANGED <<run, businessVars, externalVars, cmd, okDue,
                   nextId, acked, worker, okFence>>

\* The intent, the receipt and, when no other action is unknown, the replay of
\* the inbox row are one transaction.
Reconcile(r) ==
    LET c == cmd[r] IN
    /\ Reserved(r)
    /\ ReconcileAllowed(c)
    /\ intent' = Decide(c)
    /\ receipts' = receipts \cup {r}
    /\ IF \E a \in Actions \ {c.action} : intent[c.event][a].status = "unknown"
       THEN UNCHANGED inboxVars
       ELSE Revive(c.event)
    /\ UNCHANGED <<run, businessVars, externalVars, cmd, okDue>>

--------------------------------------------------------------------------------
(* WeCom, the campaign's editor and time *)

LateAccept(e, a) ==
    /\ flight[e][a] > 0
    /\ flight' = [flight EXCEPT ![e][a] = 0]
    /\ provider' = [provider EXCEPT ![e][a] = @ + 1]
    /\ UNCHANGED <<inboxVars, run, intent, businessVars, operatorVars, activity, okDue>>

\* UpdateWorkFission changes any part of a campaign, as often as the editor
\* likes, its end comes with time, and the employee leaves or returns; only a
\* deleted campaign stays deleted.
ChangeActivity ==
    /\ activity.found
    /\ activity' \in Campaigns \ {activity}
    /\ UNCHANGED <<inboxVars, run, intent, provider, flight, businessVars,
                   operatorVars, okDue>>

EffectTimersRun ==
    \E e \in Events, a \in Actions : intent[e][a].quar > 0 \/ flight[e][a] > 0

PassTime ==
    /\ InboxTimersRun \/ EffectTimersRun
    /\ Elapse
    /\ intent' = [e \in Events |-> [a \in Actions |->
                    [intent[e][a] EXCEPT !.quar = Dec(@)]]]
    /\ flight' = [e \in Events |-> [a \in Actions |-> Dec(flight[e][a])]]
    /\ UNCHANGED <<run, provider, activity, businessVars, operatorVars, okDue>>

--------------------------------------------------------------------------------

ProcessStep(w) ==
    \/ SyncContact(w) \/ IgnoreEvent(w) \/ SyncFails(w)
    \/ CountInvitation(w) \/ SkipInvitation(w) \/ RejectChangedIntent(w)
    \/ PassOver(w) \/ BeginSideEffect(w) \/ SkipSideEffect(w)
    \/ SendAccepted(w) \/ SendLost(w) \/ SendRefused(w)
    \/ SealSideEffect(w) \/ SealFails(w)
    \/ FinishActions(w) \/ EnqueueWelcome(w)

Next ==
    \/ Deliveries
    \/ \E w \in Workers :
          InboxStep(w) \/ StartProcess(w) \/ ProcessStep(w) \/ WorkerCrash(w)
    \/ \E r \in Requests, e \in Events, a \in Actions : Inspect(r, e, a)
    \/ \E r \in Requests : Reconcile(r)
    \/ \E e \in Events, a \in Actions : LateAccept(e, a)
    \/ ChangeActivity
    \/ PassTime

Spec == Init /\ [][Next]_vars

--------------------------------------------------------------------------------
(* Properties *)

\* WeCom accepts each message of each event at most once, although workers
\* stall, crash and replay, answers are lost, requests arrive late and operators
\* order retries.
AtMostOnce ==
    \A e \in Events, a \in Actions : provider[e][a] <= 1

\* The ledger never lies: what it calls sent was accepted by WeCom, and what the
\* worker may still send was not.
LedgerIsTruthful ==
    \A e \in Events, a \in Actions :
        /\ intent[e][a].status = "sent" => provider[e][a] = 1
        /\ intent[e][a].status \in {"none", "pending"} => provider[e][a] = 0

\* A dead event is replayed only when none of its actions is unknown any more.
ReplayWaitsForEveryAction ==
    [][\A e \in Events :
          row[e].status = "dead" /\ row'[e].status # "dead"
             => \A a \in Actions : intent'[e][a].status # "unknown"]_vars

\* An event is completed by the execution of its last claim, and only after WeCom
\* accepted every message that execution found due: an error of one message, a
\* retry that meets an unknown or half-sent action, or a lost lease never lets
\* the inbox finish early.  A message that was due in an earlier execution only
\* is not among them: see UnknownBlocksCompletion.
CompletedSentWhatWasDue ==
    \A e \in Events :
        row[e].status = "completed"
            => /\ okFence[e] = row[e].fence
               /\ \A a \in okDue[e] : provider[e][a] = 1

\* An event with an unknown action is not completed, whatever happened to the
\* campaign or to the counter since: a completed event can no longer be
\* reconciled.
UnknownBlocksCompletion ==
    \A e \in Events, a \in Actions :
        intent[e][a].status = "unknown" => row[e].status # "completed"

\* The worker, the operator and WeCom drive the inbox only through the steps the
\* inbox specification allows.
ImplementsInbox == InboxSpec

\* Every invitation counts once: each friend invited was new when the event
\* arrived, so the parent's counter is the number of its children, however often
\* an event is replayed or processed by a stale worker.
InvitationsCountOnce == inviteCount = Cardinality(children)

--------------------------------------------------------------------------------
(* What the ledger promises about a message, as OneDelivery states it. *)

Messages == Events \X Actions

Delivery == INSTANCE OneDelivery WITH
    handed  <- [m \in Messages |-> provider[m[1]][m[2]]],
    verdict <- [m \in Messages |->
                  IF intent[m[1]][m[2]].status = "sent" THEN "sent" ELSE "open"]

\* WeCom accepts each message of each event at most once, although workers stall,
\* crash and replay, answers are lost, requests arrive late and operators order
\* retries; an intent becomes `sent' only after that, for good, and nothing is
\* accepted any more once it says so.
ImplementsDelivery == Delivery!DeliverySpec

================================================================================
