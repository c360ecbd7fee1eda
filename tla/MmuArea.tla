------------------------------ MODULE MmuArea ------------------------------
(***************************************************************************)
(* The dynamic area of GPU addresses (gcsADDRESS_AREA of gckMMU).  Its map *)
(* has a word for every page; free runs of pages are nodes of a list whose *)
(* links lie in the words: a single page holds its link, a longer run its  *)
(* length and, in its second word, the link.  Pages are taken from the end *)
(* of the first run that is long enough.  Pages that are freed only get    *)
(* their words back; they join the list when a search has failed and       *)
(* _Collect rebuilds it.  pageTableMutex makes each call atomic.           *)
(***************************************************************************)
EXTENDS Integers, Sequences, FiniteSets

CONSTANTS Pages,        \* stlbEntries
          PageCounts    \* inputs: numbers of pages asked for

ASSUME PagesAssumption ==
    Pages \in Nat /\ Pages > 1 /\ PageCounts \subseteq 1 .. Pages

(* All ones: the end of the list, and the size written for a single page   *)
(* in use.  In C it is 24 or 32 bits wide; no index reaches it.            *)
Ones == Pages + 1

Indices == 0 .. Pages - 1
Word(type, value) == [type |-> type, value |-> value]
Words == [type : {"SINGLE", "FREE", "USED", "LINK"}, value : 0 .. Ones]

VARIABLES map,          \* mapLogical
          heapList,     \* the first free node
          freeNodes,    \* pages were freed since the last _Collect
          pageTables    \* the runs of pages in use, with their callers

areaVars == <<map, heapList, freeNodes, pageTables>>

AreaTypeOK ==
    /\ map \in [Indices -> Words]
    /\ heapList \in 0 .. Ones
    /\ freeNodes \in BOOLEAN
    /\ pageTables \subseteq [start : Indices, count : 1 .. Pages]

(* _SetupAddressArea: one free node.  The other words are not written, nor *)
(* read before they are; they stand as USED here.                          *)
AreaInit ==
    /\ map = [i \in Indices |-> IF i = 0 THEN Word("FREE", Pages)
                                ELSE IF i = 1 THEN Word("LINK", Ones)
                                ELSE Word("USED", 0)]
    /\ heapList = 0
    /\ freeNodes = FALSE
    /\ pageTables = {}

-----------------------------------------------------------------------------
(* An area is the pair of the map and the head of the list. *)

Area == [map |-> map, heapList |-> heapList]

(* _Link: what follows a node, or comes first, from now on. *)
Link(area, index, next) ==
    IF index >= Pages THEN [area EXCEPT !.heapList = next]
    ELSE IF area.map[index].type = "SINGLE"
    THEN [area EXCEPT !.map[index] = Word("SINGLE", next)]
    ELSE [area EXCEPT !.map[index + 1] = Word("LINK", next)]

NextNode(area, index) ==
    IF area.map[index].type = "SINGLE" THEN area.map[index].value
    ELSE area.map[index + 1].value

NodePages(area, index) ==
    IF area.map[index].type = "SINGLE" THEN 1 ELSE area.map[index].value

(* The words of a free node that ends the list. *)
FreeNodeWords(m, start, count) ==
    IF count = 1 THEN [m EXCEPT ![start] = Word("SINGLE", Ones)]
    ELSE [m EXCEPT ![start] = Word("FREE", count),
                   ![start + 1] = Word("LINK", Ones)]

(* _AddFree: a free node at the end of the list. *)
AddFree(area, index, node, count) ==
    Link([area EXCEPT !.map = FreeNodeWords(area.map, node, count)],
         index, node)

(* _Collect ends a run of free pages. *)
CloseRun(s) ==
    IF s.count = 0 THEN s
    ELSE [s EXCEPT !.area = AddFree(s.area, s.previous, s.start, s.count),
                   !.previous = s.start, !.count = 0]

(* One round of the walk of _Collect: a used page closes the run that is   *)
(* open, a free node opens or extends one.                                 *)
CollectWord(s) ==
    IF s.i >= Pages THEN s
    ELSE IF s.area.map[s.i].type = "USED"
    THEN [CloseRun(s) EXCEPT !.i = @ + 1]
    ELSE LET pages == NodePages(s.area, s.i) IN
         [s EXCEPT !.start = IF s.count = 0 THEN s.i ELSE s.start,
                   !.count = @ + pages, !.i = @ + pages]

\* Seeded fault: a run that reaches the end of the area is not added.
CollectNoTail(area) ==
    LET walk[k \in 0 .. Pages] ==
            IF k = 0
            THEN [area |-> [area EXCEPT !.heapList = Ones],
                  previous |-> Ones, start |-> 0, count |-> 0, i |-> 0]
            ELSE CollectWord(walk[k - 1])
    IN walk[Pages].area

(* _Collect: the list is built again from the words. *)
Collect(area) ==
    LET walk[k \in 0 .. Pages] ==
            IF k = 0
            THEN [area |-> [area EXCEPT !.heapList = Ones],
                  previous |-> Ones, start |-> 0, count |-> 0, i |-> 0]
            ELSE CollectWord(walk[k - 1])
    IN CloseRun(walk[Pages]).area

(* The list, from its head to its end. *)
FreeList(area) ==
    LET hop[k \in 0 .. Pages] ==
            IF k = 0 THEN area.heapList
            ELSE IF hop[k - 1] >= Pages THEN Ones
            ELSE NextNode(area, hop[k - 1])
        size == Cardinality({k \in 0 .. Pages : hop[k] < Pages})
    IN [k \in 1 .. size |-> hop[k - 1]]

(* Places in the list of the nodes that have enough pages. *)
LargeEnough(area, count) ==
    LET list == FreeList(area) IN
    {k \in DOMAIN list : NodePages(area, list[k]) >= count}

(* A node that becomes part of a run in use.                               *)
MarkUsed(m, start, count) ==
    [i \in Indices |->
        IF i = start THEN Word("USED", IF count = 1 THEN Ones ELSE count)
        ELSE IF i \in start .. start + count - 1 THEN Word("USED", 0)
        ELSE m[i]]

\* Seeded fault: one page that remains is not kept as a single node.
LastPagesNotSingle(area, previous, index, count) ==
    LET left == NodePages(area, index) - count IN
    IF left = 0 THEN Link(area, previous, NextNode(area, index))
    ELSE [area EXCEPT !.map[index] = Word("FREE", left)]

\* Seeded fault: the node keeps the length it had.
LastPagesKept(area, previous, index, count) ==
    IF NodePages(area, index) = count
    THEN Link(area, previous, NextNode(area, index)) ELSE area

(* What becomes of a free node when its last pages are taken. *)
LastPages(area, previous, index, count) ==
    LET left == NodePages(area, index) - count IN
    IF left = 0 THEN Link(area, previous, NextNode(area, index))
    ELSE IF left = 1
    THEN [area EXCEPT !.map[index] = Word("SINGLE", NextNode(area, index))]
    ELSE [area EXCEPT !.map[index] = Word("FREE", left)]

(* The second half of _AllocatePages: the pages are taken from the end of  *)
(* the first node that is large enough.                                    *)
Take(area, count) ==
    LET list  == FreeList(area)
        k     == CHOOSE k \in LargeEnough(area, count) :
                     \A l \in LargeEnough(area, count) : k <= l
        start == list[k] + NodePages(area, list[k]) - count
        rest  == LastPages(area, IF k = 1 THEN Ones ELSE list[k - 1],
                           list[k], count)
    IN /\ map' = MarkUsed(rest.map, start, count)
       /\ heapList' = rest.heapList
       /\ pageTables' = pageTables \cup {[start |-> start, count |-> count]}

(* _AllocatePages: the list first; if that fails and pages were freed, the *)
(* list is collected and searched once more.                               *)
AllocatePages ==
    \E count \in PageCounts :
        /\ LargeEnough(Area, count) # {}
        /\ Take(Area, count)
        /\ UNCHANGED freeNodes

AllocateCollected ==
    \E count \in PageCounts :
        /\ LargeEnough(Area, count) = {}
        /\ freeNodes
        /\ LargeEnough(Collect(Area), count) # {}
        /\ Take(Collect(Area), count)
        /\ freeNodes' = FALSE

(* It fails, and the list stays collected. *)
AllocateFails ==
    \E count \in PageCounts :
        /\ LargeEnough(Area, count) = {}
        /\ freeNodes
        /\ LargeEnough(Collect(Area), count) = {}
        /\ map' = Collect(Area).map
        /\ heapList' = Collect(Area).heapList
        /\ freeNodes' = FALSE
        /\ UNCHANGED pageTables

(* _GetPageCountOfUsedNode. *)
PageCountOfUsedNode(w) == IF w.value = Ones THEN 1 ELSE w.value

(* _FreePages: a size that is not the recorded one is refused. *)
FreePages ==
    \E t \in pageTables :
        /\ PageCountOfUsedNode(map[t.start]) = t.count
        /\ map' = FreeNodeWords(map, t.start, t.count)
        /\ freeNodes' = TRUE
        /\ pageTables' = pageTables \ {t}
        /\ UNCHANGED heapList

AreaNext == AllocatePages \/ AllocateCollected \/ AllocateFails \/ FreePages

AreaSpec == AreaInit /\ [][AreaNext]_areaVars

-----------------------------------------------------------------------------
(* Properties *)

AreaSpace == INSTANCE AddressSpace
                 WITH Size <- Pages, allocated <- pageTables

(* The area hands out no page twice. *)
AreaImplements == AreaSpace!Spec

InUse(i) == \E t \in pageTables : i \in t.start .. t.start + t.count - 1

(* The list is in address order and holds free pages only, and a page that *)
(* is neither in use nor on the list is one that was freed since the last  *)
(* _Collect; every run in use has its size on record, or its owner could   *)
(* not free it.                                                            *)
AreaList ==
    LET list == FreeList(Area)
        run(k) == list[k] .. list[k] + NodePages(Area, list[k]) - 1
    IN /\ \A k \in DOMAIN list :
            /\ map[list[k]].type \in {"SINGLE", "FREE"}
            /\ \A i \in run(k) : i < Pages /\ ~InUse(i)
            /\ k > 1 => list[k] > list[k - 1] + NodePages(Area, list[k - 1]) - 1
       /\ freeNodes \/ \A i \in Indices :
                           InUse(i) \/ \E k \in DOMAIN list : i \in run(k)
       /\ \A t \in pageTables : PageCountOfUsedNode(map[t.start]) = t.count

(* An allocation fails only if no run of free pages is long enough, in     *)
(* whatever order the pages were freed.                                    *)
AreaFindsPages ==
    \A count \in PageCounts :
        LargeEnough(IF freeNodes THEN Collect(Area) ELSE Area, count) = {}
        => \A i \in 0 .. Pages - count :
               \E j \in i .. i + count - 1 : InUse(j)

=============================================================================
