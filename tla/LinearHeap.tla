----------------------------- MODULE LinearHeap -----------------------------
(***************************************************************************)
(* The heap of linear video memory (gckVIDMEM): one bank, cut into nodes   *)
(* that tile it.  A node is named by its offset; all nodes are on a ring   *)
(* in address order (next, prev), the free ones also on a second ring      *)
(* (nextFree, prevFree), and both rings pass through the sentinel, whose   *)
(* size is 0.  The mutex of the heap makes AllocateLinear and Free atomic. *)
(***************************************************************************)
EXTENDS Integers, Sequences, FiniteSets, FiniteSetsExt

CONSTANTS HeapBytes,    \* bytes of the heap
          Threshold,    \* a rest of at most so many bytes is not split off
          SmallBlock,   \* gcdSMALL_BLOCK_SIZE
          SmallRatio,   \* gcdRATIO_FOR_SMALL_MEMORY
          Sizes,        \* inputs: sizes asked for
          Alignments,   \* inputs: alignments asked for
          NoNode        \* the null pointer

ASSUME HeapAssumption ==
    /\ HeapBytes \in Nat \ {0} /\ Threshold \in Nat
    /\ SmallBlock \in Nat /\ SmallRatio \in Nat \ {0}
    /\ Sizes \subseteq 1 .. HeapBytes /\ Alignments \subseteq Nat \ {0}
    /\ NoNode \notin 0 .. HeapBytes

Sentinel == HeapBytes
Offsets  == 0 .. HeapBytes - 1

VARIABLES heap,         \* offset of a node |-> its gcuVIDMEM_NODE
          freeBytes     \* the counter of free bytes

heapVars == <<heap, freeBytes>>

Pointer == Offsets \cup {Sentinel, NoNode}
HeapNode == [bytes : 0 .. HeapBytes, next : Pointer, prev : Pointer,
             nextFree : Pointer, prevFree : Pointer]

IsFree(h, n) == h[n].nextFree # NoNode
HeapNodes == DOMAIN heap \ {Sentinel}

HeapTypeOK ==
    /\ DOMAIN heap \in SUBSET (Offsets \cup {Sentinel})
    /\ Sentinel \in DOMAIN heap
    /\ \A n \in DOMAIN heap : heap[n] \in HeapNode
    /\ freeBytes \in 0 .. HeapBytes

(* gckVIDMEM_Construct: one free node. *)
HeapInit ==
    /\ heap = [n \in {0, Sentinel} |->
                  LET other == IF n = 0 THEN Sentinel ELSE 0 IN
                  [bytes |-> IF n = 0 THEN HeapBytes ELSE 0,
                   next |-> other, prev |-> other,
                   nextFree |-> other, prevFree |-> other]]
    /\ freeBytes = HeapBytes

-----------------------------------------------------------------------------

AddNode(h, n, node) == [m \in DOMAIN h \cup {n} |-> IF m \in DOMAIN h THEN h[m] ELSE node]

\* Seeded fault: the node that is split keeps its size.
SplitKeepingBytes(h, n, b) ==
    LET rest == [h[n] EXCEPT !.bytes = @ - b, !.prev = n, !.prevFree = n] IN
    [AddNode(h, n + b, rest) EXCEPT
        ![h[n].next].prev = n + b, ![h[n].nextFree].prevFree = n + b,
        ![n].next = n + b, ![n].nextFree = n + b]

(* _Split: the rest of a free node becomes a free node behind it. *)
Split(h, n, b) ==
    LET rest == [h[n] EXCEPT !.bytes = @ - b, !.prev = n, !.prevFree = n] IN
    [AddNode(h, n + b, rest) EXCEPT
        ![h[n].next].prev = n + b, ![h[n].nextFree].prevFree = n + b,
        ![n].next = n + b, ![n].nextFree = n + b, ![n].bytes = b]

\* Seeded fault: the free node after the two keeps pointing at the second.
MergeForgettingFree(h, n) ==
    LET m == h[n].next
        joined == [h EXCEPT ![n].bytes = @ + h[m].bytes,
                            ![n].next = h[m].next,
                            ![n].nextFree = h[m].nextFree,
                            ![h[m].next].prev = n]
    IN [o \in DOMAIN h \ {m} |-> joined[o]]

(* _Merge: a free node takes in the free node behind it. *)
Merge(h, n) ==
    LET m == h[n].next
        joined == [h EXCEPT ![n].bytes = @ + h[m].bytes,
                            ![n].next = h[m].next,
                            ![n].nextFree = h[m].nextFree,
                            ![h[m].next].prev = n,
                            ![h[m].nextFree].prevFree = n]
    IN [o \in DOMAIN h \ {m} |-> joined[o]]

(* The ring of free nodes, from the first one to the sentinel. *)
FreeRing(h) ==
    LET hop[k \in 0 .. HeapBytes] ==
            IF k = 0 THEN h[Sentinel].nextFree ELSE h[hop[k - 1]].nextFree
        size == Min({k \in 0 .. HeapBytes : hop[k] = Sentinel} \cup {HeapBytes})
    IN [k \in 1 .. size |-> hop[k - 1]]

(* Bytes to skip so that what follows is aligned. *)
Skip(n, alignment) == (alignment - (n % alignment)) % alignment

\* Seeded fault: the bytes to skip are not counted.
FindNodeUnaligned(h, bytes, alignment) ==
    LET ring == FreeRing(h)
        good == {k \in DOMAIN ring : h[ring[k]].bytes >= bytes}
    IN IF good = {} THEN NoNode ELSE ring[Min(good)]

(* _FindNode: the first free node that is large enough. *)
FindNode(h, bytes, alignment) ==
    LET ring == FreeRing(h)
        good == {k \in DOMAIN ring :
                     h[ring[k]].bytes >= bytes + Skip(ring[k], alignment)}
    IN IF good = {} THEN NoNode ELSE ring[Min(good)]

(* What is refused before the heap is searched: too much, or, when little  *)
(* is left, anything but a small block.                                    *)
Refused(bytes, specified) ==
    \/ bytes > freeBytes
    \/ /\ freeBytes < HeapBytes \div SmallRatio
       /\ bytes >= SmallBlock
       /\ ~specified

Unlink(h, n) ==
    [h EXCEPT ![h[n].prevFree].nextFree = h[n].nextFree,
              ![h[n].nextFree].prevFree = h[n].prevFree,
              ![n].nextFree = NoNode, ![n].prevFree = NoNode]

(* gckVIDMEM_AllocateLinear: skip to the alignment, cut off the rest if it *)
(* is worth it, and take the node.  Each split needs memory of its own and *)
(* is left out if there is none (the node is then not aligned, or larger). *)
Allocate(bytes, alignment, specified, skipped, trimmed) ==
    LET n    == FindNode(heap, bytes, alignment)
        skip == IF skipped THEN Skip(n, alignment) ELSE 0
        h    == IF skip > 0 THEN Split(heap, n, skip) ELSE heap
        m    == n + skip
        g    == IF trimmed /\ h[m].bytes - bytes > Threshold
                THEN Split(h, m, bytes) ELSE h
    IN /\ ~Refused(bytes, specified)
       /\ n # NoNode
       /\ heap' = Unlink(g, m)
       /\ freeBytes' = freeBytes - g[m].bytes

AllocateLinear ==
    \E bytes \in Sizes, alignment \in Alignments, specified \in BOOLEAN :
        Allocate(bytes, alignment, specified, TRUE, TRUE)

(* gckOS_Allocate fails in one of the splits or in both. *)
AllocateUnsplit ==
    \E bytes \in Sizes, alignment \in Alignments, specified \in BOOLEAN :
        \/ Allocate(bytes, alignment, specified, FALSE, TRUE)
        \/ Allocate(bytes, alignment, specified, TRUE, FALSE)
        \/ Allocate(bytes, alignment, specified, FALSE, FALSE)

(* Linking a node that is freed before the next free node behind it. *)
LinkFree(h, n) ==
    LET behind == Min({m \in DOMAIN h : m > n /\ IsFree(h, m)}) IN
    [h EXCEPT ![n].nextFree = behind, ![n].prevFree = h[behind].prevFree,
              ![h[behind].prevFree].nextFree = n, ![behind].prevFree = n]

MergeNext(h, n) ==
    IF h[n].next = h[n].nextFree /\ h[h[n].next].bytes # 0
    THEN Merge(h, n) ELSE h

\* Seeded fault: a node never joins the free node before it.
MergePrevNever(h, n) == h

MergePrev(h, n) ==
    IF h[n].prev = h[n].prevFree /\ h[h[n].prev].bytes # 0
    THEN Merge(h, h[n].prev) ELSE h

(* gckVIDMEM_Free, for a node of the heap. *)
FreeNode ==
    \E n \in HeapNodes :
        /\ ~IsFree(heap, n)
        /\ heap' = MergePrev(MergeNext(LinkFree(heap, n), n), n)
        /\ freeBytes' = freeBytes + heap[n].bytes

HeapNext == AllocateLinear \/ AllocateUnsplit \/ FreeNode

HeapSpec == HeapInit /\ [][HeapNext]_heapVars

-----------------------------------------------------------------------------
(* Properties *)

(* The nodes in use, as an allocator of addresses (AddressSpace). *)
HeapAllocated ==
    {[start |-> n, count |-> heap[n].bytes] :
        n \in {m \in HeapNodes : ~IsFree(heap, m)}}

HeapSpace == INSTANCE AddressSpace
                 WITH Size <- HeapBytes, allocated <- HeapAllocated

(* The heap hands out no byte twice, and takes none back that is in use.   *)
HeapImplements == HeapSpace!Spec

(* Bytes that no node in use holds. *)
FreeBytesAt(n, bytes) ==
    \A i \in HeapAllocated :
        n + bytes <= i.start \/ i.start + i.count <= n

(* Both rings agree with the addresses: each node ends where the next one  *)
(* begins, each pointer forward has its pointer back, the ring of free     *)
(* nodes is in address order and leaves none out, no two free nodes touch, *)
(* and freeBytes is the number of bytes that are not in use.               *)
HeapRings ==
    LET free == {n \in HeapNodes : IsFree(heap, n)}
        ring == FreeRing(heap)
    IN /\ \A n \in HeapNodes :
            /\ heap[n].next = n + heap[n].bytes
            /\ heap[heap[n].next].prev = n
            /\ n \in free => heap[heap[n].nextFree].prevFree = n
            /\ n \in free => heap[n].next \notin free
       /\ heap[Sentinel].next = 0 /\ heap[0].prev = Sentinel
       /\ {ring[k] : k \in DOMAIN ring} = free
       /\ \A k, l \in DOMAIN ring : k < l => ring[k] < ring[l]
       /\ freeBytes = Cardinality({n \in Offsets : FreeBytesAt(n, 1)})

(* A request fails for lack of space only if there is none: wherever an    *)
(* aligned run of free bytes lies, however the heap came to be cut up, the *)
(* search finds a node.                                                    *)
HeapFindsSpace ==
    \A bytes \in Sizes, alignment \in Alignments :
        FindNode(heap, bytes, alignment) = NoNode
        => \A n \in 0 .. HeapBytes - bytes :
               n % alignment = 0 => ~FreeBytesAt(n, bytes)

=============================================================================
