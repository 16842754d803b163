------------------------ MODULE HypothesisLifecycle ------------------------
(* What the hypothesis stack promises its caller, whatever it is built from: *)
(* ids are handed out in order, one hypothesis is worked on at a time, the   *)
(* others wait, the one that has waited longest is taken up next, a pivot    *)
(* goes in front of all of them, and an outcome is final.  A pivot without a *)
(* usable child leaves the others waiting until the run is over.             *)
EXTENDS Naturals

CONSTANT MaxHypotheses     \* bound on the ids a model hands out

VARIABLE status

Ids == 1 .. MaxHypotheses
Outcomes == {"CONFIRMED", "PIVOTED", "ABANDONED"}
Waiting(st) == {h \in Ids : st[h] = "waiting"}
Oldest(S) == CHOOSE h \in S : \A g \in S : h <= g

\* The longest waiting hypothesis takes the place that has become free.
Promoted(st) == IF Waiting(st) = {} THEN st
                ELSE [st EXCEPT ![Oldest(Waiting(st))] = "active"]

Unused(h) == \A g \in Ids : g >= h => status[g] = "unformed"
Busy == \E h \in Ids : status[h] \in {"active", "waiting"}

Init == status = [h \in Ids |-> "unformed"]

Form(h) == /\ Unused(h)
           /\ status' = [status EXCEPT ![h] = IF Busy THEN "waiting" ELSE "active"]

Confirm(h) == /\ status[h] = "active"
              /\ status' = Promoted([status EXCEPT ![h] = "CONFIRMED"])

Pivot(h, child) == /\ status[h] = "active" /\ Unused(child)
                   /\ status' = [status EXCEPT ![h] = "PIVOTED", ![child] = "active"]

PivotAlone(h) == /\ status[h] = "active"
                 /\ status' = [status EXCEPT ![h] = "PIVOTED"]

\* The active hypothesis is given up, and with it a first part of the waiting.
Abandon(h, S) == /\ status[h] = "active"
                 /\ S \subseteq Waiting(status)
                 /\ \A g \in S, w \in Waiting(status) \ S : g < w
                 /\ status' = Promoted([g \in Ids |-> IF g \in S \cup {h} THEN "ABANDONED"
                                                      ELSE status[g]])

NewRun == status' = [h \in Ids |-> "unformed"]

Next == \/ \E h \in Ids : Form(h) \/ Confirm(h) \/ PivotAlone(h)
        \/ \E h, child \in Ids : Pivot(h, child)
        \/ \E h \in Ids, S \in SUBSET Ids : Abandon(h, S)
        \/ NewRun

Spec == Init /\ [][Next]_status
=============================================================================
