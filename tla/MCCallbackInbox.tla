---------------------------- MODULE MCCallbackInbox ----------------------------
(* Instances of CallbackInbox for TLC. *)
EXTENDS CallbackInbox

CONSTANTS e1, e2, w1, w2, f1, f2

================================================================================
