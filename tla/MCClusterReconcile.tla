------------------------- MODULE MCClusterReconcile -------------------------
(* Small instances of ClusterReconcile: two disks of one group, or of two,  *)
(* and the specs that differ in what the phases look at.                    *)
EXTENDS ClusterReconcile, TLC

CONSTANTS d1, d2, g1, g2

OneGroup == d1 :> g1 @@ d2 :> g1

OneDisk == d1 :> g1

TwoGroups == d1 :> g1 @@ d2 :> g2

BaseSpec == [NoSpec EXCEPT !.reserve = {d1}]

\* Nothing but the reservation of d1.
PlainSpecs == {[BaseSpec EXCEPT !.drbdDisable = TRUE]}

\* Both disks are reserved without drbd, or d2 alone, or d1 with drbd.
PhaseSpecs == {[NoSpec EXCEPT !.reserve = chosen, !.drbdDisable = TRUE] :
                  chosen \in {{d1, d2}, {d2}}} \cup {BaseSpec}

\* Bound: where the job handler is the second writer, there is one disk and
\* no edit, and a fault only while there is none.
DrbdBound ==
    (~cluster.spec.drbdDisable \/ job.running \/ job.complete)
        => /\ edits = 0 /\ disks[d2].state = "absent"
           /\ faults = 0 \/ disks[d1].state = "absent"

\* Bound: with two disks there is a fault or an edit, with one there are both.
BudgetBound == disks[d2].state # "absent" => faults + edits <= 1

\* Disks are not claimed, or storage classes are off.
SwitchSpecs == {[NoSpec EXCEPT !.notClaim = b, !.scDisable = ~b,
                               !.drbdDisable = TRUE] : b \in BOOLEAN}
=============================================================================
