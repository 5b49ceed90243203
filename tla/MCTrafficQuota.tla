--------------------------- MODULE MCTrafficQuota ---------------------------
(***************************************************************************)
(* Instances of TrafficQuota: the first rule has a daily quota, the second *)
(* one a quota on its total.                                               *)
(***************************************************************************)
EXTENDS TrafficQuota

MCLimit == [i \in 1 .. N |-> 2]
MCDaily == {1}

\* The file starts with every rule enabled.
AllEnabled == Init /\ enabled = Rules

AllSpec     == AllEnabled /\ [][Next]_vars
AllFairSpec == AllSpec /\ Fairness

=============================================================================
