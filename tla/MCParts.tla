------------------------------- MODULE MCParts -------------------------------
(***************************************************************************)
(* Three parts of the driver in one instance: the linear heap, an area of  *)
(* the page tables, and the recovery of a hung GPU.  They share nothing,   *)
(* so a behaviour runs one of them.                                        *)
(***************************************************************************)
EXTENDS LinearHeap, MmuArea, Recovery

VARIABLE part

vars == <<part, heapVars, areaVars, recoveryVars>>

\* The types of the three parts.
TypeOK == part \in {"heap", "area", "recovery"} /\ HeapTypeOK /\ AreaTypeOK /\ RecoveryTypeOK

Init == part \in {"heap", "area", "recovery"} /\ HeapInit /\ AreaInit /\ RecoveryInit

Next ==
    /\ UNCHANGED part
    /\ \/ part = "heap" /\ HeapNext /\ UNCHANGED <<areaVars, recoveryVars>>
       \/ part = "area" /\ AreaNext /\ UNCHANGED <<heapVars, recoveryVars>>
       \/ part = "recovery" /\ RecoveryNext /\ UNCHANGED <<heapVars, areaVars>>

\* The other two parts wait for callers; only the recovery has to go on.
Spec == Init /\ [][Next]_vars /\ RecoveryFairness

=============================================================================
