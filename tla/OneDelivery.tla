------------------------------ MODULE OneDelivery ------------------------------
(***************************************************************************)
(* What the system promises about a message it hands to WeCom, without     *)
(* leases, workers, retries or ledgers: the message is handed over at most *)
(* once, and the verdict the system records about it is true and final.    *)
(* "sent" is recorded only of a message that was handed over, "cancelled"  *)
(* only of one that was not and never will be.  "failed" promises less: a  *)
(* worker that was given up for dead may still hand the message over.      *)
(***************************************************************************)
EXTENDS Naturals

CONSTANT Messages

VARIABLES handed,   \* how often WeCom was given the message
          verdict   \* what is recorded about it

deliveryVars == <<handed, verdict>>

DeliveryInit ==
    /\ handed = [m \in Messages |-> 0]
    /\ verdict = [m \in Messages |-> "open"]

HandOver(m) ==
    /\ handed[m] = 0
    /\ verdict[m] \in {"open", "failed"}
    /\ handed' = [handed EXCEPT ![m] = 1]
    /\ UNCHANGED verdict

\* A verdict on several messages at once: a cancelled batch, a reminder to
\* several employees.
Conclude(S, v) ==
    /\ \A m \in S : verdict[m] = "open"
    /\ v = "sent" => \A m \in S : handed[m] = 1
    /\ v = "cancelled" => \A m \in S : handed[m] = 0
    /\ verdict' = [m \in Messages |-> IF m \in S THEN v ELSE verdict[m]]
    /\ UNCHANGED handed

DeliveryNext ==
    \/ \E m \in Messages : HandOver(m)
    \/ \E S \in SUBSET Messages, v \in {"sent", "cancelled", "failed"} : Conclude(S, v)

DeliverySpec == DeliveryInit /\ [][DeliveryNext]_deliveryVars

===============================================================================
