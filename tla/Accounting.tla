----------------------------- MODULE Accounting -----------------------------
(***************************************************************************)
(* What flow accounting promises a collector, whatever the map, the CPUs   *)
(* and the passes of the agent do: per flow key there is one running total *)
(* of what was counted and one of what was reported.  The first only       *)
(* grows; a report brings the second some way towards the first and never  *)
(* past it.  A flow that ends, is evicted or starts again is nothing       *)
(* special.  Lifecycle implements this (Lifecycle!AccountingRefined).      *)
(***************************************************************************)
EXTENDS Naturals

CONSTANTS Keys, Fields

VARIABLES
    counted,    \* per key and field, over all incarnations of the flow
    exported    \* per key and field, the sum of the deltas reported

vars == <<counted, exported>>

Init ==
    /\ counted = [k \in Keys |-> [f \in Fields |-> 0]]
    /\ exported = [k \in Keys |-> [f \in Fields |-> 0]]

Others(v, w, k) == \A j \in Keys \ {k} : w[j] = v[j]

\* Traffic of one flow.
Count(k) ==
    /\ Others(counted, counted', k)
    /\ \A f \in Fields : counted'[k][f] >= counted[k][f]
    /\ UNCHANGED exported

\* A record of one flow.
Report(k) ==
    /\ Others(exported, exported', k)
    /\ \A f \in Fields : exported'[k][f] \in exported[k][f] .. counted[k][f]
    /\ UNCHANGED counted

Next == \E k \in Keys : Count(k) \/ Report(k)

Spec == Init /\ [][Next]_vars
=============================================================================
