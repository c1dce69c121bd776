---------------------------- MODULE MCMatchFeatures ----------------------------
EXTENDS MatchFeatures

CONSTANTS alice, bob, rifle, knife, zone, match1, match2

Death(k, v, t, w, d) ==
    [kind |-> "death", match |-> match1, killer |-> k, victim |-> v,
     time |-> t, weapon |-> w, distance |-> d]

\* Kills of one player ten and eleven seconds apart, one without a time and one
\* without a place, one the other way, a death by the zone, a kill in another
\* match, a summary row.
MCRows ==
    {Death(alice, bob, 0, rifle, 3),
     Death(alice, bob, 10, knife, 5),
     Death(alice, bob, 21, rifle, None),
     Death(alice, bob, None, None, 9),
     Death(bob, alice, 21, rifle, 3),
     Death(None, bob, 10, zone, None),
     [Death(alice, bob, 10, rifle, 4) EXCEPT !.match = match2],
     [kind |-> "summary", match |-> match1, player |-> alice, kills |-> 3]}
================================================================================
