---------------------------- MODULE MCLegacyCutover ----------------------------
(* Model values for TLC and the backlogs a source may start with. *)
EXTENDS LegacyCutover, TLC

CONSTANTS r1, r2, s1, s2, k1, k2, p1, p2, none

MCRunners == {r1, r2}
MCSources == {s1, s2}
MCKeys == {k1, k2}
MCPayloads == {p1, p2}

OK(k) == [key |-> k, payload |-> p1, readable |-> TRUE]
Bad == [key |-> k2, payload |-> p1, readable |-> FALSE]
Backlog(pending, processing, dead) ==
    [pending |-> pending, processing |-> processing, dead |-> dead]

\* Both lists filled, a duplicate, an unreadable event, dead letters, empty.
MCBacklogs ==
    { Backlog(<<OK(k1)>>, <<OK(k2)>>, <<>>), Backlog(<<OK(k1), OK(k1)>>, <<>>, <<>>),
      Backlog(<<OK(k1), Bad>>, <<>>, <<>>), Backlog(<<OK(k1)>>, <<>>, <<OK(k2)>>),
      Backlog(<<>>, <<>>, <<>>) }
=============================================================================
