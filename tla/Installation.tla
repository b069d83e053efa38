---------------------------- MODULE Installation ----------------------------
(* What installing a Cluster promises, without the passes, the caches, the  *)
(* writers and the failures that ClusterReconcile shows to be behind it:    *)
(* disks are reserved, then claimed, and storage classes are watched for    *)
(* once that is done.  ClusterReconcile implements it                       *)
(* (ImplementsInstallation).                                                *)

CONSTANTS
    Disk,     \* LocalDisks that may be discovered
    Group,    \* the node:type keys
    GroupOf   \* the key of each disk

VARIABLES
    phase,    \* Status.Phase of the Cluster, or what it adopts
    disks,    \* the LocalDisks
    claims,   \* the LocalDiskClaims
    watching  \* do the storage class watchers run?

vars == <<phase, disks, claims, watching>>

NextPhase == [p \in {"", "ToReserve", "Reserved"} |->
                CASE p = "" -> "ToReserve"
                  [] p = "ToReserve" -> "Reserved"
                  [] p = "Reserved" -> "CreatedLDC"]

\* An older operator may have left the first phases behind.
Init ==
    /\ phase \in {"", "ToReserve", "Reserved"}
    /\ disks = [d \in Disk |-> [state |-> "absent", reserved |-> FALSE]]
    /\ claims = [g \in Group |-> "none"]
    /\ watching = FALSE

-----------------------------------------------------------------------------

\* One phase follows the other; the last one is for good.
Advance ==
    /\ phase # "CreatedLDC"
    /\ phase' = NextPhase[phase]
    /\ UNCHANGED <<disks, claims, watching>>

DiscoverDisk(d) ==
    /\ disks[d].state = "absent"
    /\ \E state \in {"available", "system"} :
        disks' = [disks EXCEPT ![d].state = state]
    /\ UNCHANGED <<phase, claims, watching>>

ReserveDisk(d) ==
    /\ phase = "ToReserve"
    /\ disks[d].state # "absent"
    /\ disks' = [disks EXCEPT ![d].reserved = TRUE]
    /\ UNCHANGED <<phase, claims, watching>>

CreateClaim(g) ==
    /\ phase = "Reserved"
    /\ claims[g] = "none"
    /\ claims' = [claims EXCEPT ![g] = "open"]
    /\ UNCHANGED <<phase, disks, watching>>

\* A claim takes the available disks of its group that are not reserved.
BindClaim(g) ==
    /\ claims[g] = "open"
    /\ LET free == {d \in Disk : /\ GroupOf[d] = g
                                 /\ disks[d].state = "available"
                                 /\ ~disks[d].reserved}
       IN /\ free # {}
          /\ disks' = [d \in Disk |-> IF d \in free
                                      THEN [disks[d] EXCEPT !.state = "claimed"]
                                      ELSE disks[d]]
    /\ claims' = [claims EXCEPT ![g] = "bound"]
    /\ UNCHANGED <<phase, watching>>

DeleteClaim(g) ==
    /\ claims[g] = "bound"
    /\ claims' = [claims EXCEPT ![g] = "none"]
    /\ UNCHANGED <<phase, disks, watching>>

StartWatchers ==
    /\ phase = "CreatedLDC"
    /\ watching' = TRUE
    /\ UNCHANGED <<phase, disks, claims>>

\* The watchers end with the process.
StopWatchers ==
    /\ watching' = FALSE
    /\ UNCHANGED <<phase, disks, claims>>

Next ==
    \/ Advance
    \/ \E d \in Disk : DiscoverDisk(d) \/ ReserveDisk(d)
    \/ \E g \in Group : CreateClaim(g) \/ BindClaim(g) \/ DeleteClaim(g)
    \/ StartWatchers
    \/ StopWatchers

Spec == Init /\ [][Next]_vars

=============================================================================
