---------------------------- MODULE AddressSpace ----------------------------
(***************************************************************************)
(* What an allocator of a range of addresses promises: what it hands out   *)
(* lies in the range and overlaps nothing that is still in use, and what   *)
(* is in use stays so until it is given back.  LinearHeap (bytes of a      *)
(* video memory heap) and MmuArea (pages of GPU addresses) implement it.   *)
(***************************************************************************)
EXTENDS Integers

CONSTANT Size           \* addresses are 0 .. Size - 1

VARIABLE allocated      \* the intervals in use

Interval == [start : 0 .. Size - 1, count : 1 .. Size]

Cells(i) == i.start .. i.start + i.count - 1

Fits(i) == i.start + i.count <= Size

Init == allocated = {}

Allocate ==
    \E i \in Interval :
        /\ Fits(i)
        /\ \A j \in allocated : Cells(i) \cap Cells(j) = {}
        /\ allocated' = allocated \cup {i}

Free == \E i \in allocated : allocated' = allocated \ {i}

Next == Allocate \/ Free

Spec == Init /\ [][Next]_allocated

(* No address is in use twice, and none lies outside the range. *)
Disjoint ==
    /\ allocated \subseteq {i \in Interval : Fits(i)}
    /\ \A i, j \in allocated : i # j => Cells(i) \cap Cells(j) = {}

=============================================================================
