------------------------- MODULE MCCallbackSideEffects -------------------------
(* Instances of CallbackSideEffects for TLC. *)
EXTENDS CallbackSideEffects, TLC

CONSTANTS e1, e2, w1, w2, f1, r1, r2

\* A campaign with these two messages.
Running(reminder, push) ==
    [found |-> TRUE, staffed |-> TRUE, total |-> 1, newOnly |-> FALSE,
     push |-> <<reminder, push>>]

\* The campaign as configured; with another reminder text and the push switched
\* off; ended, its task enlarged and its employee out of the directory; and
\* deleted.  The editor may move between all but the last.
EditedCampaigns ==
    {Running("v1", "v1"), Running("v2", Nothing),
     [Running(Nothing, Nothing) EXCEPT !.staffed = FALSE, !.total = 2],
     [Running("v1", "v1") EXCEPT !.found = FALSE]}

\* One campaign with one message and the new-friend rule, which nobody edits.
OneCampaign ==
    {[found |-> TRUE, staffed |-> TRUE, total |-> 1, newOnly |-> TRUE,
      push |-> <<"v1">>]}

\* Neither the workers nor the operators' requests are told apart.
ActorSymmetry == Permutations(Workers) \cup Permutations(Requests)

================================================================================
