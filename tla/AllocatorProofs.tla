--------------------------- MODULE AllocatorProofs ---------------------------
(***************************************************************************)
(* Theorems about LinearHeap and MmuArea: both implement AddressSpace, so  *)
(* no byte and no page has two owners, both keep their lists in order, and *)
(* both find room whenever there is some.  The last one is the type        *)
(* correctness of MCParts, where they stand beside Recovery.               *)
(*                                                                         *)
(* The heap.  HeapOK says that the nodes tile the heap, that each pointer  *)
(* of the two rings has its pointer back, that the ring of free nodes is   *)
(* in address order (Sound), that no two free nodes touch (Quiet), and     *)
(* that freeBytes is the number of addresses nobody uses.  _Split and      *)
(* _Merge keep Sound; between the merges of gckVIDMEM_Free the heap is     *)
(* quiet but at one node (QuietBut).                                       *)
(*                                                                         *)
(* The area.  AreaOK says that free nodes N and the runs in use fill the   *)
(* area without overlap and that the list goes through some of N, L, in    *)
(* address order (AreaHolds); unless pages were freed since _Collect, L is *)
(* all of N and no two nodes of N could be one (Maximal).                  *)
(*                                                                         *)
(* FreeRing, FreeList and Collect are walks of as many steps as there are  *)
(* addresses.  What a walk computes is proved of the first step that would *)
(* go wrong (WalkStays, WalkMeetsAll).                                     *)
(***************************************************************************)
EXTENDS MCParts, RecoveryProofs, FiniteSetTheorems, FunctionTheorems, WellFoundedInduction, TLAPS

-----------------------------------------------------------------------------
(* Walks.  The models follow pointers with recursive functions; what these  *)
(* compute is proved from the least number at which it would fail.          *)

\* A set of natural numbers has a least one.
LEMMA Least ==
    ASSUME NEW T \in SUBSET Nat, T # {}
    PROVE  \E x \in T : \A y \in T : x <= y
<1>1. PICK R : R = {p \in Nat \X Nat : p[1] < p[2]}
  OBVIOUS
<1>2. IsWellFoundedOn(R, Nat)
  BY <1>1, NatLessThanWellFounded DEF OpToRel
<1>3. PICK x \in T : \A y \in T : ~ (<<y, x>> \in R)
  BY <1>2, WFMin
<1>4. \A y \in T : ~(y < x)
  BY <1>1, <1>3
<1> QED
  BY <1>4

LEMMA MinIsLeast ==
    ASSUME NEW T \in SUBSET Nat, T # {}
    PROVE  Min(T) \in T /\ \A y \in T : Min(T) <= y
  BY Least DEF Min

\* A walk of B steps, from b.
IsWalk(f, S, b, g, B) ==
    f \in [0 .. B -> S] /\ f[0] = b /\ \A j \in 1 .. B : f[j] = g[f[j - 1]]

\* A function on S can be applied again and again.
LEMMA WalksExist ==
    ASSUME NEW S, NEW b \in S, NEW g \in [S -> S], NEW B \in Nat
    PROVE  \E f : IsWalk(f, S, b, g, B)
<1>1. PICK T : T = {k \in 0 .. B : ~\E f : IsWalk(f, S, b, g, k)}
  OBVIOUS
<1>2. SUFFICES ASSUME T # {} PROVE FALSE
  BY <1>1
<1>3. T \in SUBSET Nat
  BY <1>1
<1>4. PICK k \in T : \A j \in T : k <= j
  BY <1>2, <1>3, Least
<1>5. k \in 0 .. B /\ ~\E f : IsWalk(f, S, b, g, k)
  BY <1>1, <1>4
<1>6. CASE k = 0
  <2>1. PICK f : f = [j \in 0 .. 0 |-> b]
    OBVIOUS
  <2>2. IsWalk(f, S, b, g, 0)
    BY <2>1 DEF IsWalk
  <2> QED
    BY <1>5, <1>6, <2>2
<1>7. CASE k # 0
  <2>1. PICK i : i = k - 1
    OBVIOUS
  <2>2. i \in 0 .. B /\ i \notin T /\ i \in Nat /\ k = i + 1
    BY <1>3, <1>4, <1>5, <1>7, <2>1
  <2>3. PICK f \in [0 .. i -> S] : f[0] = b /\ \A j \in 1 .. i : f[j] = g[f[j - 1]]
    BY <1>1, <2>2 DEF IsWalk
  <2>4. PICK e : e = [j \in 0 .. k |-> IF j = k THEN g[f[i]] ELSE f[j]]
    OBVIOUS
  <2>5. \A j \in 0 .. k : j = k \/ j \in 0 .. i
    BY <2>2
  <2>6. e \in [0 .. k -> S] /\ e[k] = g[f[i]] /\ \A j \in 0 .. i : e[j] = f[j]
    BY <2>2, <2>3, <2>4, <2>5
  <2>7. \A j \in 1 .. k : j - 1 \in 0 .. i /\ (j = k \/ (j \in 1 .. i /\ j \in 0 .. i))
    BY <2>2
  <2>8. \A j \in 1 .. k : e[j] = g[e[j - 1]]
    BY <2>1, <2>2, <2>3, <2>6, <2>7
  <2>9. e[0] = b
    BY <2>2, <2>3, <2>6
  <2> QED
    BY <1>5, <2>6, <2>8, <2>9 DEF IsWalk
<1> QED
  BY <1>6, <1>7

\* And stays in S.
LEMMA WalkStays ==
    ASSUME NEW S, NEW B \in Nat, NEW f, f[0] \in S,
           \A j \in 1 .. B : f[j - 1] \in S => f[j] \in S
    PROVE  \A j \in 0 .. B : f[j] \in S
<1>1. PICK T : T = {k \in 0 .. B : f[k] \notin S}
  OBVIOUS
<1>2. SUFFICES ASSUME T # {} PROVE FALSE
  BY <1>1
<1>3. T \in SUBSET Nat
  BY <1>1
<1>4. PICK k \in T : \A j \in T : k <= j
  BY <1>2, <1>3, Least
<1>5. k \in 0 .. B /\ f[k] \notin S /\ k # 0
  BY <1>1, <1>4
<1>6. k - 1 \in 0 .. B /\ k - 1 \notin T /\ k \in 1 .. B
  BY <1>3, <1>4, <1>5
<1> QED
  BY <1>1, <1>5, <1>6

\* A walk that has met all elements of S, in their order, when it meets E.
MeetsAll(f, S, E, z) ==
    /\ f[z] = E
    /\ \A k \in 0 .. z - 1 : f[k] \in S \ {E}
    /\ \A j, k \in 0 .. z : j < k => f[j] < f[k]
    /\ \A q \in S \ {E} : \E j \in 0 .. z - 1 : f[j] = q

\* A walk from the least element of S, always to the next one, meets them all.
LEMMA WalkMeetsAll ==
    ASSUME NEW S \in SUBSET Nat, NEW B \in Nat, NEW E \in S, E >= B,
           \A o \in S : o < B \/ o = E,
           NEW f \in [0 .. B -> S], \A q \in S : f[0] <= q,
           \A j \in 1 .. B : f[j - 1] # E =>
               f[j - 1] < f[j] /\ \A q \in S : q <= f[j - 1] \/ f[j] <= q
    PROVE  \E z \in 0 .. B : MeetsAll(f, S, E, z)
<1>1. PICK T : T = {k \in 0 .. B : f[k] = E \/ k = B}
  OBVIOUS
<1>2. T \in SUBSET Nat /\ B \in T
  BY <1>1
<1>3. PICK z \in T : \A k \in T : z <= k
  BY <1>2, Least
<1>4. z \in 0 .. B /\ (f[z] = E \/ z = B) /\ \A k \in 0 .. z - 1 : k \in 0 .. B /\ f[k] # E
  BY <1>1, <1>3
<1>5. \A k \in 0 .. z : /\ k <= f[k]
                        /\ \A j \in 0 .. k - 1 : f[j] < f[k]
                        /\ \A q \in S : f[k] <= q \/ \E j \in 0 .. k - 1 : f[j] = q
  <2>1. PICK V : V = {k \in 0 .. z :
                        ~ /\ k <= f[k]
                          /\ \A j \in 0 .. k - 1 : f[j] < f[k]
                          /\ \A q \in S : f[k] <= q \/ \E j \in 0 .. k - 1 : f[j] = q}
    OBVIOUS
  <2>2. SUFFICES ASSUME V # {} PROVE FALSE
    BY <2>1
  <2>3. V \in SUBSET Nat
    BY <1>4, <2>1
  <2>4. PICK k \in V : \A j \in V : k <= j
    BY <2>2, <2>3, Least
  <2>5. k \in 0 .. z /\ ~ /\ k <= f[k]
                          /\ \A j \in 0 .. k - 1 : f[j] < f[k]
                          /\ \A q \in S : f[k] <= q \/ \E j \in 0 .. k - 1 : f[j] = q
    BY <2>1, <2>4
  <2>6. CASE k = 0
    <3>1. 0 \in 0 .. B /\ f[0] \in S /\ f[0] \in Nat
      <4>1. 0 \in 0 .. B
        OBVIOUS
      <4> QED
        BY <4>1
    <3> QED
      BY <2>5, <2>6, <3>1
  <2>7. CASE k # 0
    <3>1. PICK i : i = k - 1
      OBVIOUS
    <3>2. /\ i \in 0 .. z /\ i \in 0 .. z - 1 /\ i \in 0 .. B /\ k \in 1 .. B /\ k \in 0 .. B
          /\ i \notin V /\ k = i + 1 /\ i \in Nat /\ i < k
      BY <1>4, <2>3, <2>4, <2>5, <2>7, <3>1
    <3>3. /\ i <= f[i]
          /\ \A j \in 0 .. i - 1 : f[j] < f[i]
          /\ \A q \in S : f[i] <= q \/ \E j \in 0 .. i - 1 : f[j] = q
      BY <2>1, <3>2
    <3>4. f[i] \in S /\ f[i] # E /\ f[k] \in S
      BY <1>4, <3>2
    <3>5. f[i] < f[k] /\ \A q \in S : q <= f[i] \/ f[k] <= q
      BY <3>1, <3>2, <3>4
    <3>6. f[i] \in Nat /\ f[k] \in Nat /\ \A j \in 0 .. B : f[j] \in Nat
      BY <3>4
    <3>7. k <= f[k]
      BY <3>2, <3>3, <3>5, <3>6
    <3>8. ASSUME NEW j \in 0 .. k - 1 PROVE f[j] < f[k]
      <4>1. j = i \/ (j \in 0 .. i - 1 /\ j \in 0 .. B)
        BY <3>2
      <4> QED
        BY <3>3, <3>5, <3>6, <4>1
    <3>9. ASSUME NEW q \in S PROVE f[k] <= q \/ \E j \in 0 .. k - 1 : f[j] = q
      <4>1. CASE \E j \in 0 .. i - 1 : f[j] = q
        <5>1. \A j \in 0 .. i - 1 : j \in 0 .. k - 1
          BY <3>2
        <5> QED
          BY <4>1, <5>1
      <4>2. CASE f[i] <= q
        <5>1. q = f[i] \/ f[k] <= q
          BY <3>5, <3>6, <4>2
        <5>2. i \in 0 .. k - 1
          BY <3>2
        <5> QED
          BY <5>1, <5>2
      <4> QED
        BY <3>3, <4>1, <4>2
    <3> QED
      BY <2>5, <3>7, <3>8, <3>9
  <2> QED
    BY <2>6, <2>7
<1>6. f[z] = E
  <2>1. z \in 0 .. z /\ z \in 0 .. B /\ z \in Nat
    BY <1>4
  <2>2. z <= f[z] /\ f[z] \in S /\ f[z] \in Nat
    BY <1>5, <2>1
  <2> QED
    BY <1>4, <2>1, <2>2
<1>7. \A j, k \in 0 .. z : j < k => f[j] < f[k]
  <2>1. \A j, k \in 0 .. z : j < k => j \in 0 .. k - 1
    BY <1>4
  <2> QED
    BY <1>5, <2>1
<1>8. ASSUME NEW q \in S \ {E} PROVE \E j \in 0 .. z - 1 : f[j] = q
  <2>1. ~(E <= q) /\ z \in 0 .. z
    BY <1>4
  <2> QED
    BY <1>5, <1>6, <2>1
<1> QED
  BY <1>4, <1>6, <1>7, <1>8 DEF MeetsAll


\* Division by a positive number.
LEMMA Division ==
    ASSUME NEW n \in Nat, NEW a \in Nat \ {0}
    PROVE  /\ n \div a \in Nat /\ n % a \in Nat /\ n % a < a
           /\ n = a * (n \div a) + (n % a)
  OBVIOUS

\* A greater multiple is greater by as much at least.
LEMMA Grows ==
    ASSUME NEW a \in Nat \ {0}, NEW p \in Nat, NEW q \in Nat, a * p > a * q
    PROVE  a * p >= a * q + a
<1>1. CASE p >= q + 1
  <2>1. PICK d \in Nat : p = q + 1 + d
    <3>1. p - q - 1 \in Nat
      BY <1>1
    <3>2. p = q + 1 + (p - q - 1)
      OBVIOUS
    <3> QED
      BY <3>1, <3>2
  <2>2. a * p = a * q + a + a * d
    BY <2>1
  <2>3. a * d \in Nat /\ a * q \in Nat
    OBVIOUS
  <2> QED
    BY <2>2, <2>3
<1>2. CASE p <= q
  <2>1. PICK d \in Nat : q = p + d
    <3>1. q - p \in Nat
      BY <1>2
    <3>2. q = p + (q - p)
      OBVIOUS
    <3> QED
      BY <3>1, <3>2
  <2>2. a * q = a * p + a * d
    BY <2>1
  <2>3. a * d \in Nat /\ a * p \in Nat
    OBVIOUS
  <2> QED
    BY <2>2, <2>3
<1> QED
  BY <1>1, <1>2

LEMMA SmallMod ==
    ASSUME NEW a \in Nat \ {0}, NEW d \in 0 .. a - 1
    PROVE  d % a = d
  OBVIOUS
LEMMA SelfMod ==
    ASSUME NEW a \in Nat \ {0}
    PROVE  a % a = 0
  OBVIOUS

\* An aligned address is not before the first aligned one.
LEMMA AlignedBehind ==
    ASSUME NEW o \in Nat, NEW n \in Nat, NEW a \in Nat \ {0}, o <= n, n % a = 0
    PROVE  n >= o + Skip(o, a)
<1>1. PICK r \in Nat, q \in Nat : r = o % a /\ q = o \div a
  BY Division
<1>2. r < a /\ o = a * q + r
  BY <1>1, Division
<1>3. PICK p \in Nat : n = a * p
  <2>1. n \div a \in Nat /\ n = a * (n \div a) + 0
    BY Division
  <2> QED
    BY <2>1
<1>4. CASE r = 0
  <2>1. Skip(o, a) = 0
    BY <1>1, <1>4, SelfMod DEF Skip
  <2> QED
    BY <2>1
<1>5. CASE r > 0
  <2>1. PICK d \in 0 .. a - 1 : d = a - r
    BY <1>2, <1>5
  <2>2. Skip(o, a) = d
    BY <1>1, <2>1, SmallMod DEF Skip
  <2>3. a * q \in Nat /\ a * p \in Nat
    OBVIOUS
  <2>4. a * p > a * q
    BY <1>2, <1>3, <1>5, <2>3
  <2>5. a * p >= a * q + a
    BY <2>4, Grows
  <2> QED
    BY <1>2, <1>3, <2>1, <2>2, <2>3, <2>5
<1> QED
  BY <1>4, <1>5

-----------------------------------------------------------------------------
(* The heap: a heap that is in order.                                       *)

\* The nodes on the second ring, with the sentinel.
FreeNodes(h) == {n \in DOMAIN h : IsFree(h, n)}

\* The nodes tile the heap; each pointer has its pointer back.
Tiled(h) ==
    /\ \A n \in DOMAIN h \ {Sentinel} :
          /\ h[n].bytes > 0
          /\ h[n].next = n + h[n].bytes
          /\ \A m \in DOMAIN h : m <= n \/ h[n].next <= m
    /\ \A n \in DOMAIN h :
          /\ h[n].next \in DOMAIN h /\ h[h[n].next].prev = n
          /\ h[n].prev \in DOMAIN h /\ h[h[n].prev].next = n

\* The second ring goes through the free nodes in address order.
FreeInOrder(h) ==
    /\ \A n \in FreeNodes(h) :
          /\ h[n].nextFree \in FreeNodes(h) /\ h[h[n].nextFree].prevFree = n
          /\ h[n].prevFree \in FreeNodes(h) /\ h[h[n].prevFree].nextFree = n
    /\ \A n, m \in FreeNodes(h) :
          IF n = Sentinel THEN h[n].nextFree <= m
          ELSE n < h[n].nextFree /\ (m <= n \/ h[n].nextFree <= m)

\* The two rings of heap h are in order.
Sound(h) ==
    /\ DOMAIN h \subseteq Offsets \cup {Sentinel}
    /\ 0 \in DOMAIN h /\ Sentinel \in FreeNodes(h)
    /\ h \in [DOMAIN h -> HeapNode]
    /\ h[Sentinel].bytes = 0 /\ h[Sentinel].next = 0
    /\ Tiled(h) /\ FreeInOrder(h)

-----------------------------------------------------------------------------

\* Nodes are named by natural numbers.
LEMMA NodeTypes ==
    ASSUME NEW h, Sound(h)
    PROVE  /\ DOMAIN h \subseteq Nat /\ DOMAIN h \subseteq 0 .. HeapBytes
           /\ \A n \in DOMAIN h : h[n].bytes \in Nat
           /\ NoNode \notin DOMAIN h /\ HeapBytes \in Nat \ {0} /\ Sentinel = HeapBytes
<1>1. HeapBytes \in Nat \ {0} /\ NoNode \notin 0 .. HeapBytes
  BY HeapAssumption
<1> QED
  BY <1>1 DEF Sound, Offsets, Sentinel, HeapNode

\* Assigning one field of one node.
SetBytes(g, x, v) == [g EXCEPT ![x].bytes = v]
SetNext(g, x, v) == [g EXCEPT ![x].next = v]
SetPrev(g, x, v) == [g EXCEPT ![x].prev = v]
SetNextFree(g, x, v) == [g EXCEPT ![x].nextFree = v]
SetPrevFree(g, x, v) == [g EXCEPT ![x].prevFree = v]

LEMMA SetBytesEffect ==
    ASSUME NEW D, NEW g \in [D -> HeapNode], NEW x \in D, NEW v \in 0 .. HeapBytes, NEW u,
           u = SetBytes(g, x, v)
    PROVE  /\ u \in [D -> HeapNode]
           /\ \A o \in D : /\ u[o].bytes = IF o = x THEN v ELSE g[o].bytes
                           /\ u[o].next = g[o].next /\ u[o].prev = g[o].prev
                           /\ u[o].nextFree = g[o].nextFree /\ u[o].prevFree = g[o].prevFree
<1>1. g[x] \in HeapNode
  OBVIOUS
<1>2. PICK y : y = [g[x] EXCEPT !.bytes = v]
  OBVIOUS
<1>3. /\ y \in HeapNode /\ y.bytes = v
      /\ y.next = g[x].next /\ y.prev = g[x].prev
      /\ y.nextFree = g[x].nextFree /\ y.prevFree = g[x].prevFree
  BY <1>1, <1>2 DEF HeapNode
<1>4. u = [g EXCEPT ![x] = y]
  BY <1>2 DEF SetBytes
<1> QED
  BY <1>1, <1>3, <1>4

LEMMA SetNextEffect ==
    ASSUME NEW D, NEW g \in [D -> HeapNode], NEW x \in D, NEW v \in Pointer, NEW u,
           u = SetNext(g, x, v)
    PROVE  /\ u \in [D -> HeapNode]
           /\ \A o \in D : /\ u[o].next = IF o = x THEN v ELSE g[o].next
                           /\ u[o].bytes = g[o].bytes /\ u[o].prev = g[o].prev
                           /\ u[o].nextFree = g[o].nextFree /\ u[o].prevFree = g[o].prevFree
<1>1. g[x] \in HeapNode
  OBVIOUS
<1>2. PICK y : y = [g[x] EXCEPT !.next = v]
  OBVIOUS
<1>3. /\ y \in HeapNode /\ y.next = v
      /\ y.bytes = g[x].bytes /\ y.prev = g[x].prev
      /\ y.nextFree = g[x].nextFree /\ y.prevFree = g[x].prevFree
  BY <1>1, <1>2 DEF HeapNode
<1>4. u = [g EXCEPT ![x] = y]
  BY <1>2 DEF SetNext
<1> QED
  BY <1>1, <1>3, <1>4

LEMMA SetPrevEffect ==
    ASSUME NEW D, NEW g \in [D -> HeapNode], NEW x \in D, NEW v \in Pointer, NEW u,
           u = SetPrev(g, x, v)
    PROVE  /\ u \in [D -> HeapNode]
           /\ \A o \in D : /\ u[o].prev = IF o = x THEN v ELSE g[o].prev
                           /\ u[o].bytes = g[o].bytes /\ u[o].next = g[o].next
                           /\ u[o].nextFree = g[o].nextFree /\ u[o].prevFree = g[o].prevFree
<1>1. g[x] \in HeapNode
  OBVIOUS
<1>2. PICK y : y = [g[x] EXCEPT !.prev = v]
  OBVIOUS
<1>3. /\ y \in HeapNode /\ y.prev = v
      /\ y.bytes = g[x].bytes /\ y.next = g[x].next
      /\ y.nextFree = g[x].nextFree /\ y.prevFree = g[x].prevFree
  BY <1>1, <1>2 DEF HeapNode
<1>4. u = [g EXCEPT ![x] = y]
  BY <1>2 DEF SetPrev
<1> QED
  BY <1>1, <1>3, <1>4

LEMMA SetNextFreeEffect ==
    ASSUME NEW D, NEW g \in [D -> HeapNode], NEW x \in D, NEW v \in Pointer, NEW u,
           u = SetNextFree(g, x, v)
    PROVE  /\ u \in [D -> HeapNode]
           /\ \A o \in D : /\ u[o].nextFree = IF o = x THEN v ELSE g[o].nextFree
                           /\ u[o].bytes = g[o].bytes /\ u[o].next = g[o].next
                           /\ u[o].prev = g[o].prev /\ u[o].prevFree = g[o].prevFree
<1>1. g[x] \in HeapNode
  OBVIOUS
<1>2. PICK y : y = [g[x] EXCEPT !.nextFree = v]
  OBVIOUS
<1>3. /\ y \in HeapNode /\ y.nextFree = v
      /\ y.bytes = g[x].bytes /\ y.next = g[x].next
      /\ y.prev = g[x].prev /\ y.prevFree = g[x].prevFree
  BY <1>1, <1>2 DEF HeapNode
<1>4. u = [g EXCEPT ![x] = y]
  BY <1>2 DEF SetNextFree
<1> QED
  BY <1>1, <1>3, <1>4

LEMMA SetPrevFreeEffect ==
    ASSUME NEW D, NEW g \in [D -> HeapNode], NEW x \in D, NEW v \in Pointer, NEW u,
           u = SetPrevFree(g, x, v)
    PROVE  /\ u \in [D -> HeapNode]
           /\ \A o \in D : /\ u[o].prevFree = IF o = x THEN v ELSE g[o].prevFree
                           /\ u[o].bytes = g[o].bytes /\ u[o].next = g[o].next
                           /\ u[o].prev = g[o].prev /\ u[o].nextFree = g[o].nextFree
<1>1. g[x] \in HeapNode
  OBVIOUS
<1>2. PICK y : y = [g[x] EXCEPT !.prevFree = v]
  OBVIOUS
<1>3. /\ y \in HeapNode /\ y.prevFree = v
      /\ y.bytes = g[x].bytes /\ y.next = g[x].next
      /\ y.prev = g[x].prev /\ y.nextFree = g[x].nextFree
  BY <1>1, <1>2 DEF HeapNode
<1>4. u = [g EXCEPT ![x] = y]
  BY <1>2 DEF SetPrevFree
<1> QED
  BY <1>1, <1>3, <1>4

\* _Split, field by field.
LEMMA SplitFields ==
    ASSUME NEW h, Sound(h), NEW n \in FreeNodes(h) \ {Sentinel}, NEW b \in 1 .. h[n].bytes - 1,
           NEW s, s = Split(h, n, b)
    PROVE  /\ n + b \notin DOMAIN h /\ n + b \in Offsets
           /\ s \in [DOMAIN h \cup {n + b} -> HeapNode]
           /\ \A o \in DOMAIN h \cup {n + b} :
                /\ s[o].bytes = IF o = n THEN b
                                ELSE IF o = n + b THEN h[n].bytes - b ELSE h[o].bytes
                /\ s[o].next = IF o = n THEN n + b ELSE IF o = n + b THEN h[n].next ELSE h[o].next
                /\ s[o].prev = IF o = n + b THEN n ELSE IF o = h[n].next THEN n + b ELSE h[o].prev
                /\ s[o].nextFree = IF o = n THEN n + b
                                   ELSE IF o = n + b THEN h[n].nextFree ELSE h[o].nextFree
                /\ s[o].prevFree = IF o = n + b THEN n
                                   ELSE IF o = h[n].nextFree THEN n + b ELSE h[o].prevFree
<1>1. /\ DOMAIN h \subseteq 0 .. HeapBytes /\ h[n].bytes \in Nat
      /\ n \in DOMAIN h /\ HeapBytes \in Nat /\ Sentinel = HeapBytes
      /\ \A o \in DOMAIN h : h[o] \in HeapNode
  BY NodeTypes DEF FreeNodes, Sound
<1>2. /\ h[n].next \in DOMAIN h /\ h[n].next = n + h[n].bytes
      /\ h[n].nextFree \in DOMAIN h /\ h[n].nextFree > n
      /\ \A m \in DOMAIN h : m <= n \/ h[n].next <= m
  BY DEF Sound, Tiled, FreeInOrder, FreeNodes
<1>3. n + b \notin DOMAIN h /\ n + b \in Offsets /\ n # n + b /\ n < n + b
  BY <1>1, <1>2 DEF Offsets
<1>4. PICK x, y, r, D : x = h[n].next /\ y = h[n].nextFree /\ r = n + b /\ D = DOMAIN h \cup {r}
  OBVIOUS
<1>5. PICK c : c = [h[n] EXCEPT !.bytes = @ - b, !.prev = n, !.prevFree = n]
  OBVIOUS
<1>6. PICK g : g = AddNode(h, r, c)
  OBVIOUS
<1>7. PICK g1 : g1 = SetPrev(g, x, r)
  OBVIOUS
<1>8. PICK g2 : g2 = SetPrevFree(g1, y, r)
  OBVIOUS
<1>9. PICK g3 : g3 = SetNext(g2, n, r)
  OBVIOUS
<1>10. PICK g4 : g4 = SetNextFree(g3, n, r)
  OBVIOUS
<1>11. s = SetBytes(g4, n, b)
  BY ZenonT(60), <1>4, <1>5, <1>6, <1>7, <1>8, <1>9, <1>10 DEF Split, SetBytes, SetNext, SetPrev,
     SetNextFree, SetPrevFree
<1>12. /\ r \in Pointer /\ n \in Pointer /\ b \in 0 .. HeapBytes /\ x \in D /\ y \in D /\ n \in D
       /\ x # r /\ y # r /\ x # n
  BY <1>1, <1>2, <1>3, <1>4 DEF Pointer, Sound
<1>13. /\ c \in HeapNode /\ c.bytes = h[n].bytes - b /\ c.next = x /\ c.prev = n
       /\ c.nextFree = y /\ c.prevFree = n
  <2>1. h[n] \in HeapNode
    BY <1>1
  <2>2. c = [bytes |-> h[n].bytes - b, next |-> x, prev |-> n, nextFree |-> y, prevFree |-> n]
    BY <1>4, <1>5, <2>1 DEF HeapNode
  <2>3. h[n].bytes - b \in 0 .. HeapBytes /\ x \in Pointer /\ y \in Pointer
    BY <1>1, <1>4, <2>1 DEF HeapNode
  <2> QED
    BY <1>12, <2>2, <2>3 DEF HeapNode
<1>14. g \in [D -> HeapNode] /\ g[r] = c /\ \A o \in DOMAIN h : g[o] = h[o]
  BY <1>1, <1>3, <1>4, <1>6, <1>13 DEF AddNode
<1>15. /\ g1 \in [D -> HeapNode]
       /\ \A o \in D : /\ g1[o].prev = IF o = x THEN r ELSE g[o].prev
                       /\ g1[o].bytes = g[o].bytes /\ g1[o].next = g[o].next
                       /\ g1[o].nextFree = g[o].nextFree /\ g1[o].prevFree = g[o].prevFree
  BY <1>7, <1>12, <1>14, SetPrevEffect
<1>16. /\ g2 \in [D -> HeapNode]
       /\ \A o \in D : /\ g2[o].prevFree = IF o = y THEN r ELSE g1[o].prevFree
                       /\ g2[o].bytes = g1[o].bytes /\ g2[o].next = g1[o].next
                       /\ g2[o].nextFree = g1[o].nextFree /\ g2[o].prev = g1[o].prev
  BY <1>8, <1>12, <1>15, SetPrevFreeEffect
<1>17. /\ g3 \in [D -> HeapNode]
       /\ \A o \in D : /\ g3[o].next = IF o = n THEN r ELSE g2[o].next
                       /\ g3[o].bytes = g2[o].bytes /\ g3[o].prev = g2[o].prev
                       /\ g3[o].nextFree = g2[o].nextFree /\ g3[o].prevFree = g2[o].prevFree
  BY <1>9, <1>12, <1>16, SetNextEffect
<1>18. /\ g4 \in [D -> HeapNode]
       /\ \A o \in D : /\ g4[o].nextFree = IF o = n THEN r ELSE g3[o].nextFree
                       /\ g4[o].bytes = g3[o].bytes /\ g4[o].next = g3[o].next
                       /\ g4[o].prev = g3[o].prev /\ g4[o].prevFree = g3[o].prevFree
  BY <1>10, <1>12, <1>17, SetNextFreeEffect
<1>19. /\ s \in [D -> HeapNode]
       /\ \A o \in D : /\ s[o].bytes = IF o = n THEN b ELSE g4[o].bytes
                       /\ s[o].next = g4[o].next /\ s[o].prev = g4[o].prev
                       /\ s[o].nextFree = g4[o].nextFree /\ s[o].prevFree = g4[o].prevFree
  BY <1>11, <1>12, <1>18, SetBytesEffect
<1>20. \A o \in D : o = r \/ o \in DOMAIN h
  BY <1>4
<1>21. r # n
  BY <1>3, <1>4
<1>22. s \in [D -> HeapNode] /\ \A o \in D :
                /\ s[o].bytes = IF o = n THEN b ELSE IF o = r THEN h[n].bytes - b ELSE h[o].bytes
                /\ s[o].next = IF o = n THEN r ELSE IF o = r THEN x ELSE h[o].next
                /\ s[o].prev = IF o = r THEN n ELSE IF o = x THEN r ELSE h[o].prev
                /\ s[o].nextFree = IF o = n THEN r ELSE IF o = r THEN y ELSE h[o].nextFree
                /\ s[o].prevFree = IF o = r THEN n ELSE IF o = y THEN r ELSE h[o].prevFree
  BY <1>12, <1>13, <1>14, <1>15, <1>16, <1>17, <1>18, <1>19, <1>20, <1>21
<1> QED
  BY <1>3, <1>4, <1>22

\* What is in use, as intervals of addresses.
UsedIn(h) == {[start |-> n, count |-> h[n].bytes] : n \in DOMAIN h \ FreeNodes(h)}

LEMMA UsedSame ==
    ASSUME NEW h, NEW g, DOMAIN h \ FreeNodes(h) = DOMAIN g \ FreeNodes(g),
           \A n \in DOMAIN h \ FreeNodes(h) : g[n].bytes = h[n].bytes
    PROVE  UsedIn(g) = UsedIn(h)
  BY Zenon DEF UsedIn

\* _Split leaves a heap that is in order, and what is in use alone.
LEMMA SplitSound ==
    ASSUME NEW h, Sound(h), NEW n \in FreeNodes(h) \ {Sentinel}, NEW b \in 1 .. h[n].bytes - 1,
           NEW s, s = Split(h, n, b)
    PROVE  /\ Sound(s) /\ UsedIn(s) = UsedIn(h)
           /\ FreeNodes(s) = FreeNodes(h) \cup {n + b}
           /\ s[n].bytes = b /\ s[n + b].bytes = h[n].bytes - b
           /\ n + b \notin DOMAIN h /\ s[n + b].next = h[n].next /\ s[n].next = n + b
           /\ \A o \in DOMAIN h : o # n => s[o].next = h[o].next
<1>0. PICK x, y, r, D : x = h[n].next /\ y = h[n].nextFree /\ r = n + b /\ D = DOMAIN h \cup {r}
  OBVIOUS
<1>1. /\ r \notin DOMAIN h /\ r \in Offsets /\ s \in [D -> HeapNode] /\ DOMAIN s = D
      /\ \A o \in D :
                /\ s[o].bytes = IF o = n THEN b ELSE IF o = r THEN h[n].bytes - b ELSE h[o].bytes
                /\ s[o].next = IF o = n THEN r ELSE IF o = r THEN x ELSE h[o].next
                /\ s[o].prev = IF o = r THEN n ELSE IF o = x THEN r ELSE h[o].prev
                /\ s[o].nextFree = IF o = n THEN r ELSE IF o = r THEN y ELSE h[o].nextFree
                /\ s[o].prevFree = IF o = r THEN n ELSE IF o = y THEN r ELSE h[o].prevFree
  BY <1>0, SplitFields
<1>2. /\ DOMAIN h \subseteq 0 .. HeapBytes /\ HeapBytes \in Nat \ {0} /\ Sentinel = HeapBytes
      /\ NoNode \notin 0 .. HeapBytes
      /\ \A o \in DOMAIN h : h[o].bytes \in Nat
  BY NodeTypes, HeapAssumption
<1>3. /\ n \in DOMAIN h /\ n # Sentinel /\ 0 < b /\ b < h[n].bytes /\ b \in Nat
      /\ D \subseteq 0 .. HeapBytes /\ n # r /\ r # Sentinel /\ r \in Nat /\ n \in Nat /\ n < r
  BY <1>0, <1>1, <1>2 DEF FreeNodes, Offsets
<1>4. /\ \A o \in DOMAIN h \ {Sentinel} :
            /\ h[o].bytes > 0
            /\ h[o].next = o + h[o].bytes
            /\ \A m \in DOMAIN h : m <= o \/ h[o].next <= m
      /\ \A o \in DOMAIN h :
            /\ h[o].next \in DOMAIN h /\ h[h[o].next].prev = o
            /\ h[o].prev \in DOMAIN h /\ h[h[o].prev].next = o
  BY DEF Sound, Tiled
<1>5. x \in DOMAIN h /\ x = n + h[n].bytes /\ r < x /\ \A m \in DOMAIN h : m <= n \/ x <= m
  <2>1. n \in DOMAIN h \ {Sentinel}
    BY <1>3
  <2>2. x \in DOMAIN h /\ x = n + h[n].bytes /\ \A m \in DOMAIN h : m <= n \/ x <= m
    BY <1>0, <1>4, <2>1
  <2>3. h[n].bytes \in Nat
    BY <1>2, <1>3
  <2> QED
    BY <1>0, <1>3, <2>2, <2>3
<1>6. FreeNodes(s) = FreeNodes(h) \cup {r} /\ y \in FreeNodes(h)
  <2>1. y \in FreeNodes(h)
    BY <1>0 DEF Sound, FreeInOrder
  <2>2. \A o \in DOMAIN h : s[o].nextFree # NoNode <=> h[o].nextFree # NoNode
    BY <1>0, <1>1, <1>2, <1>3 DEF FreeNodes, IsFree
  <2>3. s[r].nextFree # NoNode
    BY <1>0, <1>1, <1>2, <1>3, <2>1 DEF FreeNodes
  <2> QED
    BY <1>0, <1>1, <2>1, <2>2, <2>3 DEF FreeNodes, IsFree
<1>7. ASSUME NEW o \in D \ {Sentinel}
      PROVE  s[o].bytes > 0 /\ s[o].next = o + s[o].bytes /\ \A m \in D : m <= o \/ s[o].next <= m
  <2>1. CASE o = n
    BY <1>0, <1>1, <1>2, <1>3, <1>5, <2>1
  <2>2. CASE o = r
    BY <1>0, <1>1, <1>2, <1>3, <1>5, <2>2
  <2>3. CASE o \in DOMAIN h /\ o # n
    <3>1. s[o].bytes = h[o].bytes /\ s[o].next = h[o].next
      BY <1>1, <2>3
    <3>2. \A m \in DOMAIN h : m <= o \/ h[o].next <= m
      BY <1>4, <2>3
    <3>3. r <= o \/ h[o].next <= r
      <4>1. n <= o \/ h[o].next <= n
        BY <1>3, <3>2
      <4>2. o <= n \/ x <= o
        BY <1>5, <2>3
      <4>3. h[o].next = o + h[o].bytes /\ o \in Nat /\ h[o].bytes \in Nat /\ x \in Nat
        <5>1. o \in DOMAIN h \ {Sentinel} /\ x \in DOMAIN h
          BY <1>5, <2>3
        <5> QED
          BY <1>2, <1>4, <5>1
      <4> QED
        BY <1>3, <1>5, <2>3, <4>1, <4>2, <4>3
    <3> QED
      BY <1>0, <1>4, <2>3, <3>1, <3>2, <3>3
  <2> QED
    BY <1>0, <2>1, <2>2, <2>3
<1>8. ASSUME NEW o \in D
      PROVE  s[o].next \in D /\ s[s[o].next].prev = o /\ s[o].prev \in D /\ s[s[o].prev].next = o
  <2>1. s[o].next \in D /\ s[s[o].next].prev = o
    <3>1. CASE o = n
      BY <1>0, <1>1, <1>3, <3>1
    <3>2. CASE o = r
      BY <1>0, <1>1, <1>3, <1>5, <3>2
    <3>3. CASE o \in DOMAIN h /\ o # n
      <4>1. PICK q : q = h[o].next
        OBVIOUS
      <4>2. q \in DOMAIN h /\ h[q].prev = o /\ h[x].prev = n
        BY <1>0, <1>3, <1>4, <3>3, <4>1
      <4>3. s[o].next = q /\ q # x /\ q # r
        BY <1>0, <1>1, <3>3, <4>1, <4>2
      <4> QED
        BY <1>0, <1>1, <4>2, <4>3
    <3> QED
      BY <1>0, <3>1, <3>2, <3>3
  <2>2. s[o].prev \in D /\ s[s[o].prev].next = o
    <3>1. CASE o = r
      BY <1>0, <1>1, <1>3, <3>1
    <3>2. CASE o = x
      BY <1>0, <1>1, <1>3, <1>5, <3>2
    <3>3. CASE o \in DOMAIN h /\ o # x
      <4>1. PICK q : q = h[o].prev
        OBVIOUS
      <4>2. q \in DOMAIN h /\ h[q].next = o
        BY <1>4, <3>3, <4>1
      <4>3. s[o].prev = q /\ q # n /\ q # r
        BY <1>0, <1>1, <3>3, <4>1, <4>2
      <4> QED
        BY <1>0, <1>1, <4>2, <4>3
    <3> QED
      BY <1>0, <3>1, <3>2, <3>3
  <2> QED
    BY <2>1, <2>2
<1>9. /\ \A o \in FreeNodes(h) :
            /\ h[o].nextFree \in FreeNodes(h) /\ h[h[o].nextFree].prevFree = o
            /\ h[o].prevFree \in FreeNodes(h) /\ h[h[o].prevFree].nextFree = o
      /\ \A o, m \in FreeNodes(h) :
            IF o = Sentinel THEN h[o].nextFree <= m
            ELSE o < h[o].nextFree /\ (m <= o \/ h[o].nextFree <= m)
      /\ FreeNodes(h) \subseteq DOMAIN h
  BY DEF Sound, FreeInOrder, FreeNodes
<1>10. ASSUME NEW o \in FreeNodes(s)
       PROVE  /\ s[o].nextFree \in FreeNodes(s) /\ s[s[o].nextFree].prevFree = o
              /\ s[o].prevFree \in FreeNodes(s) /\ s[s[o].prevFree].nextFree = o
  <2>1. s[o].nextFree \in FreeNodes(s) /\ s[s[o].nextFree].prevFree = o
    BY <1>0, <1>1, <1>3, <1>6, <1>9
  <2>2. s[o].prevFree \in FreeNodes(s) /\ s[s[o].prevFree].nextFree = o
    BY <1>0, <1>1, <1>3, <1>6, <1>9
  <2> QED
    BY <2>1, <2>2
<1>11. ASSUME NEW o \in FreeNodes(s), NEW m \in FreeNodes(s)
       PROVE  IF o = Sentinel THEN s[o].nextFree <= m
              ELSE o < s[o].nextFree /\ (m <= o \/ s[o].nextFree <= m)
  <2>1. x <= y
    BY <1>2, <1>3, <1>5, <1>6, <1>0, <1>9
  <2>2. o \in Nat /\ m \in Nat /\ y \in Nat /\ x \in Nat /\ \A p \in FreeNodes(h) : p \in Nat
    BY <1>1, <1>2, <1>3, <1>5, <1>6, <1>9
  <2>3. CASE o = r
    <3>1. s[o].nextFree = y /\ o # Sentinel /\ o < y
      BY <1>0, <1>1, <1>3, <1>5, <2>1, <2>2, <2>3
    <3>2. m = r \/ m <= n \/ y <= m
      BY <1>0, <1>3, <1>6, <1>9
    <3> QED
      BY <1>3, <2>2, <2>3, <3>1, <3>2
  <2>4. CASE o = n
    <3>1. s[o].nextFree = r /\ o # Sentinel
      BY <1>0, <1>1, <1>3, <2>4
    <3>2. m = r \/ m <= n \/ y <= m
      BY <1>0, <1>3, <1>6, <1>9
    <3> QED
      BY <1>3, <1>5, <2>1, <2>2, <2>4, <3>1, <3>2
  <2>5. CASE o # r /\ o # n
    <3>1. o \in FreeNodes(h) /\ s[o].nextFree = h[o].nextFree /\ h[o].nextFree \in FreeNodes(h)
      BY <1>0, <1>1, <1>6, <1>9, <2>5
    <3>2. CASE o = Sentinel
      <4>1. h[o].nextFree <= n
        BY <1>3, <1>9, <3>1, <3>2
      <4> QED
        BY <1>3, <1>6, <1>9, <2>2, <3>1, <3>2, <4>1
    <3>3. CASE o # Sentinel
      <4>1. o < h[o].nextFree /\ (n <= o \/ h[o].nextFree <= n)
        BY <1>3, <1>9, <3>1, <3>3
      <4>2. o <= n \/ y <= o
        BY <1>0, <1>3, <1>9, <3>1
      <4>3. r <= o \/ h[o].nextFree <= r
        BY <1>3, <1>5, <2>1, <2>2, <2>5, <3>1, <4>1, <4>2
      <4> QED
        BY <1>6, <1>9, <2>2, <3>1, <3>3, <4>1, <4>3
    <3> QED
      BY <3>2, <3>3
  <2> QED
    BY <2>3, <2>4, <2>5
<1>12. /\ D \subseteq Offsets \cup {Sentinel} /\ 0 \in D /\ Sentinel \in FreeNodes(s)
       /\ s[Sentinel].bytes = 0 /\ s[Sentinel].next = 0
  BY <1>0, <1>1, <1>3, <1>6, <1>9 DEF Sound
<1>13. Tiled(s)
  BY <1>1, <1>7, <1>8 DEF Tiled
<1>14. FreeInOrder(s)
  BY <1>10, <1>11 DEF FreeInOrder
<1>15. Sound(s)
  BY <1>1, <1>12, <1>13, <1>14 DEF Sound
<1>16. UsedIn(s) = UsedIn(h)
  <2>1. DOMAIN h \ FreeNodes(h) = DOMAIN s \ FreeNodes(s)
    BY <1>0, <1>1, <1>6
  <2>2. \A o \in DOMAIN h \ FreeNodes(h) : s[o].bytes = h[o].bytes
    BY <1>0, <1>1
  <2> QED
    BY <2>1, <2>2, UsedSame
<1>17. /\ s[n].bytes = b /\ s[r].bytes = h[n].bytes - b
       /\ r \notin DOMAIN h /\ s[r].next = x /\ s[n].next = r
       /\ \A o \in DOMAIN h : o # n => s[o].next = h[o].next
  BY <1>0, <1>1, <1>3
<1> QED
  BY <1>0, <1>6, <1>15, <1>16, <1>17

\* What the order of the ring of free nodes says.
LEMMA RingFacts ==
    ASSUME NEW h, Sound(h)
    PROVE  /\ \A o \in FreeNodes(h) :
                 /\ h[o].nextFree \in FreeNodes(h) /\ h[h[o].nextFree].prevFree = o
                 /\ h[o].prevFree \in FreeNodes(h) /\ h[h[o].prevFree].nextFree = o
           /\ \A o, m \in FreeNodes(h) : o # Sentinel =>
                 o < h[o].nextFree /\ (m <= o \/ h[o].nextFree <= m)
           /\ \A m \in FreeNodes(h) : h[Sentinel].nextFree <= m
           /\ FreeNodes(h) \subseteq DOMAIN h /\ Sentinel \in FreeNodes(h)
  BY DEF Sound, FreeInOrder, FreeNodes

\* A change of the second ring only.
LEMMA RelinkSound ==
    ASSUME NEW h, Sound(h), NEW g \in [DOMAIN h -> HeapNode], Sentinel \in FreeNodes(g),
           \A o \in DOMAIN h : /\ g[o].bytes = h[o].bytes /\ g[o].next = h[o].next
                               /\ g[o].prev = h[o].prev,
           FreeInOrder(g)
    PROVE  Sound(g)
<1>1. DOMAIN g = DOMAIN h /\ Sentinel \in DOMAIN h
  BY DEF Sound, FreeNodes
<1>2. Tiled(g)
  <2>1. /\ \A o \in DOMAIN h : h[o].next \in DOMAIN h /\ h[o].prev \in DOMAIN h
        /\ Tiled(h)
    BY DEF Sound, Tiled
  <2>2. \A o \in DOMAIN g \ {Sentinel} :
           /\ g[o].bytes > 0
           /\ g[o].next = o + g[o].bytes
           /\ \A m \in DOMAIN g : m <= o \/ g[o].next <= m
    BY <1>1, <2>1 DEF Tiled
  <2>3. \A o \in DOMAIN g :
           /\ g[o].next \in DOMAIN g /\ g[g[o].next].prev = o
           /\ g[o].prev \in DOMAIN g /\ g[g[o].prev].next = o
    <3>1. \A o \in DOMAIN h : h[h[o].next].prev = o /\ h[h[o].prev].next = o
      BY DEF Sound, Tiled
    <3>2. \A o \in DOMAIN h : g[h[o].next].prev = o /\ g[h[o].prev].next = o
      BY <2>1, <3>1
    <3> QED
      BY <1>1, <2>1, <3>2
  <2> QED
    BY <2>2, <2>3 DEF Tiled
<1> QED
  BY <1>1, <1>2 DEF Sound

\* A node is taken out of the ring.
LEMMA UnlinkSound ==
    ASSUME NEW h, Sound(h), NEW n \in FreeNodes(h) \ {Sentinel}, NEW u, u = Unlink(h, n)
    PROVE  /\ Sound(u) /\ DOMAIN u = DOMAIN h
           /\ FreeNodes(u) = FreeNodes(h) \ {n}
           /\ \A o \in DOMAIN h : u[o].bytes = h[o].bytes /\ u[o].next = h[o].next
<1>0. PICK p, y, D : p = h[n].prevFree /\ y = h[n].nextFree /\ D = DOMAIN h
  OBVIOUS
<1>1. /\ \A o \in FreeNodes(h) :
            /\ h[o].nextFree \in FreeNodes(h) /\ h[h[o].nextFree].prevFree = o
            /\ h[o].prevFree \in FreeNodes(h) /\ h[h[o].prevFree].nextFree = o
      /\ \A o, m \in FreeNodes(h) : o # Sentinel =>
            o < h[o].nextFree /\ (m <= o \/ h[o].nextFree <= m)
      /\ \A m \in FreeNodes(h) : h[Sentinel].nextFree <= m
      /\ FreeNodes(h) \subseteq D /\ Sentinel \in FreeNodes(h)
  BY <1>0, RingFacts
<1>2. /\ D \subseteq 0 .. HeapBytes /\ HeapBytes \in Nat \ {0} /\ Sentinel = HeapBytes
      /\ NoNode \notin 0 .. HeapBytes /\ D \subseteq Pointer /\ NoNode \in Pointer
      /\ h \in [D -> HeapNode]
  BY <1>0, NodeTypes, HeapAssumption DEF Sound, Pointer, Offsets, Sentinel
<1>3. /\ n \in D /\ n # Sentinel /\ p \in FreeNodes(h) /\ y \in FreeNodes(h)
      /\ h[p].nextFree = n /\ h[y].prevFree = n /\ n < y
  BY <1>0, <1>1
<1>4. p # n /\ y # n
  BY <1>0, <1>1, <1>2, <1>3
<1>5. PICK g1 : g1 = SetNextFree(h, p, y)
  OBVIOUS
<1>6. PICK g2 : g2 = SetPrevFree(g1, y, p)
  OBVIOUS
<1>7. PICK g3 : g3 = SetNextFree(g2, n, NoNode)
  OBVIOUS
<1>8. PICK g4 : g4 = SetPrevFree(g3, n, NoNode)
  OBVIOUS
<1>9. g4 = u
  BY <1>0, <1>5, <1>6, <1>7, <1>8 DEF Unlink, SetNextFree, SetPrevFree
<1>10. /\ p \in D /\ y \in D /\ n \in D /\ p \in Pointer /\ y \in Pointer
       /\ NoNode \in Pointer /\ h \in [D -> HeapNode]
  BY <1>1, <1>2, <1>3
<1>11. /\ g1 \in [D -> HeapNode]
       /\ \A o \in D : /\ g1[o].nextFree = IF o = p THEN y ELSE h[o].nextFree
                       /\ g1[o].bytes = h[o].bytes /\ g1[o].next = h[o].next
                       /\ g1[o].prev = h[o].prev /\ g1[o].prevFree = h[o].prevFree
  BY <1>5, <1>10, SetNextFreeEffect
<1>12. /\ g2 \in [D -> HeapNode]
       /\ \A o \in D : /\ g2[o].prevFree = IF o = y THEN p ELSE g1[o].prevFree
                       /\ g2[o].bytes = g1[o].bytes /\ g2[o].next = g1[o].next
                       /\ g2[o].prev = g1[o].prev /\ g2[o].nextFree = g1[o].nextFree
  BY SMTT(20), <1>6, <1>10, <1>11, SetPrevFreeEffect
<1>13. /\ g3 \in [D -> HeapNode]
       /\ \A o \in D : /\ g3[o].nextFree = IF o = n THEN NoNode ELSE g2[o].nextFree
                       /\ g3[o].bytes = g2[o].bytes /\ g3[o].next = g2[o].next
                       /\ g3[o].prev = g2[o].prev /\ g3[o].prevFree = g2[o].prevFree
  BY <1>7, <1>10, <1>12, SetNextFreeEffect
<1>14. /\ g4 \in [D -> HeapNode]
       /\ \A o \in D : /\ g4[o].prevFree = IF o = n THEN NoNode ELSE g3[o].prevFree
                       /\ g4[o].bytes = g3[o].bytes /\ g4[o].next = g3[o].next
                       /\ g4[o].prev = g3[o].prev /\ g4[o].nextFree = g3[o].nextFree
  BY SMTT(20), <1>8, <1>10, <1>13, SetPrevFreeEffect
<1>15. /\ u \in [D -> HeapNode] /\ DOMAIN u = D
       /\ \A o \in D :
             /\ u[o].bytes = h[o].bytes /\ u[o].next = h[o].next /\ u[o].prev = h[o].prev
             /\ u[o].nextFree = IF o = n THEN NoNode ELSE IF o = p THEN y ELSE h[o].nextFree
             /\ u[o].prevFree = IF o = n THEN NoNode ELSE IF o = y THEN p ELSE h[o].prevFree
  BY <1>9, <1>11, <1>12, <1>13, <1>14
<1>16. FreeNodes(u) = FreeNodes(h) \ {n}
  <2>1. y # NoNode
    BY <1>2, <1>10
  <2>2. \A o \in D : u[o].nextFree # NoNode <=> o # n /\ h[o].nextFree # NoNode
    BY <1>0, <1>3, <1>15, <2>1 DEF FreeNodes, IsFree
  <2> QED
    BY <1>0, <1>15, <2>2 DEF FreeNodes, IsFree
<1>17. ASSUME NEW o \in FreeNodes(u)
       PROVE  /\ u[o].nextFree \in FreeNodes(u) /\ u[u[o].nextFree].prevFree = o
              /\ u[o].prevFree \in FreeNodes(u) /\ u[u[o].prevFree].nextFree = o
  <2>1. u[o].nextFree \in FreeNodes(u) /\ u[u[o].nextFree].prevFree = o
    <3>1. CASE o = p
      BY <1>3, <1>4, <1>10, <1>15, <1>16, <3>1
    <3>2. CASE o # p
      <4>1. PICK q : q = h[o].nextFree
        OBVIOUS
      <4>2. q \in FreeNodes(h) /\ q \in D /\ h[q].prevFree = o /\ h[n].prevFree = p
        BY <1>0, <1>1, <1>16, <4>1
      <4>3. q # n /\ q # y /\ u[o].nextFree = q
        BY <1>1, <1>3, <1>15, <1>16, <3>2, <4>1, <4>2
      <4> QED
        BY <1>15, <1>16, <4>2, <4>3
    <3> QED
      BY <3>1, <3>2
  <2>2. u[o].prevFree \in FreeNodes(u) /\ u[u[o].prevFree].nextFree = o
    <3>1. CASE o = y
      BY <1>3, <1>4, <1>10, <1>15, <1>16, <3>1
    <3>2. CASE o # y
      <4>1. PICK q : q = h[o].prevFree
        OBVIOUS
      <4>2. q \in FreeNodes(h) /\ q \in D /\ h[q].nextFree = o /\ h[n].nextFree = y
        BY <1>0, <1>1, <1>16, <4>1
      <4>3. q # n /\ q # p /\ u[o].prevFree = q
        BY <1>1, <1>3, <1>15, <1>16, <3>2, <4>1, <4>2
      <4> QED
        BY <1>15, <1>16, <4>2, <4>3
    <3> QED
      BY <3>1, <3>2
  <2> QED
    BY <2>1, <2>2
<1>18. ASSUME NEW o \in FreeNodes(u), NEW m \in FreeNodes(u)
       PROVE  IF o = Sentinel THEN u[o].nextFree <= m
              ELSE o < u[o].nextFree /\ (m <= o \/ u[o].nextFree <= m)
  <2>1. /\ o \in FreeNodes(h) /\ o # n /\ m \in FreeNodes(h) /\ m # n
        /\ o \in Nat /\ m \in Nat /\ n \in Nat /\ y \in Nat /\ p \in Nat
    BY <1>1, <1>2, <1>3, <1>10, <1>16
  <2>2. m <= n \/ y <= m
    BY <1>0, <1>1, <1>3, <2>1
  <2>3. CASE o = p
    <3>1. u[o].nextFree = y
      BY <1>4, <1>10, <1>15, <2>3
    <3>2. IF p = Sentinel THEN n <= m ELSE p < n /\ (m <= p \/ n <= m)
      BY <1>1, <1>3, <2>1
    <3> QED
      BY <1>3, <2>1, <2>2, <2>3, <3>1, <3>2
  <2>4. CASE o # p
    <3>1. u[o].nextFree = h[o].nextFree
      BY <1>1, <1>15, <2>1, <2>4
    <3> QED
      BY <1>1, <2>1, <3>1
  <2> QED
    BY <2>3, <2>4
<1>19. FreeInOrder(u)
  BY <1>17, <1>18 DEF FreeInOrder
<1>20. Sound(u)
  <2>1. Sentinel \in FreeNodes(u)
    BY <1>1, <1>3, <1>16
  <2>2. u \in [DOMAIN h -> HeapNode]
        /\ \A o \in DOMAIN h : /\ u[o].bytes = h[o].bytes /\ u[o].next = h[o].next
                               /\ u[o].prev = h[o].prev
    BY <1>0, <1>15
  <2> QED
    BY <1>19, <2>1, <2>2, RelinkSound
<1> QED
  BY <1>0, <1>15, <1>16, <1>20

\* A node is put back on the ring, in front of the next free one.
LEMMA LinkSound ==
    ASSUME NEW h, Sound(h), NEW n \in DOMAIN h \ FreeNodes(h), NEW u, u = LinkFree(h, n)
    PROVE  /\ Sound(u) /\ DOMAIN u = DOMAIN h
           /\ FreeNodes(u) = FreeNodes(h) \cup {n}
           /\ \A o \in DOMAIN h : u[o].bytes = h[o].bytes /\ u[o].next = h[o].next
<1>1. /\ \A o \in FreeNodes(h) :
            /\ h[o].nextFree \in FreeNodes(h) /\ h[h[o].nextFree].prevFree = o
            /\ h[o].prevFree \in FreeNodes(h) /\ h[h[o].prevFree].nextFree = o
      /\ \A o, m \in FreeNodes(h) : o # Sentinel =>
            o < h[o].nextFree /\ (m <= o \/ h[o].nextFree <= m)
      /\ \A m \in FreeNodes(h) : h[Sentinel].nextFree <= m
      /\ FreeNodes(h) \subseteq DOMAIN h /\ Sentinel \in FreeNodes(h)
  BY RingFacts
<1>2. /\ DOMAIN h \subseteq 0 .. HeapBytes /\ HeapBytes \in Nat \ {0} /\ Sentinel = HeapBytes
      /\ NoNode \notin 0 .. HeapBytes /\ DOMAIN h \subseteq Pointer /\ NoNode \in Pointer
      /\ h \in [DOMAIN h -> HeapNode]
  BY NodeTypes, HeapAssumption DEF Sound, Pointer, Offsets, Sentinel
<1>3. PICK B : B = {m \in DOMAIN h : m > n /\ IsFree(h, m)}
  OBVIOUS
<1>4. B = {m \in FreeNodes(h) : m > n}
  BY <1>3 DEF FreeNodes
<1>5. B \in SUBSET Nat /\ Sentinel \in B
  BY SMTT(20), <1>1, <1>2, <1>4
<1>6. PICK y : y = Min(B)
  OBVIOUS
<1>7. y \in FreeNodes(h) /\ y > n /\ \A m \in FreeNodes(h) : m > n => y <= m
  <2>1. y \in B /\ \A m \in B : y <= m
    BY <1>5, <1>6, MinIsLeast
  <2> QED
    BY <1>4, <2>1
<1>8. PICK p, D : p = h[y].prevFree /\ D = DOMAIN h
  OBVIOUS
<1>9. PICK g1 : g1 = SetNextFree(h, n, y)
  OBVIOUS
<1>10. PICK g2 : g2 = SetPrevFree(g1, n, p)
  OBVIOUS
<1>11. PICK g3 : g3 = SetNextFree(g2, p, n)
  OBVIOUS
<1>12. PICK g4 : g4 = SetPrevFree(g3, y, n)
  OBVIOUS
<1>13. g4 = u
  BY <1>3, <1>6, <1>8, <1>9, <1>10, <1>11, <1>12 DEF LinkFree, SetNextFree, SetPrevFree
<1>14. p \in FreeNodes(h) /\ h[p].nextFree = y /\ p # n /\ y # n
  BY <1>1, <1>7, <1>8
<1>15. /\ p \in D /\ y \in D /\ n \in D /\ p \in Pointer /\ y \in Pointer /\ n \in Pointer
       /\ h \in [D -> HeapNode]
  BY <1>1, <1>2, <1>7, <1>8, <1>14
<1>16. /\ g1 \in [D -> HeapNode]
       /\ \A o \in D : /\ g1[o].nextFree = IF o = n THEN y ELSE h[o].nextFree
                       /\ g1[o].bytes = h[o].bytes /\ g1[o].next = h[o].next
                       /\ g1[o].prev = h[o].prev /\ g1[o].prevFree = h[o].prevFree
  BY <1>9, <1>15, SetNextFreeEffect
<1>17. /\ g2 \in [D -> HeapNode]
       /\ \A o \in D : /\ g2[o].prevFree = IF o = n THEN p ELSE g1[o].prevFree
                       /\ g2[o].bytes = g1[o].bytes /\ g2[o].next = g1[o].next
                       /\ g2[o].prev = g1[o].prev /\ g2[o].nextFree = g1[o].nextFree
  BY <1>10, <1>15, <1>16, SetPrevFreeEffect
<1>18. /\ g3 \in [D -> HeapNode]
       /\ \A o \in D : /\ g3[o].nextFree = IF o = p THEN n ELSE g2[o].nextFree
                       /\ g3[o].bytes = g2[o].bytes /\ g3[o].next = g2[o].next
                       /\ g3[o].prev = g2[o].prev /\ g3[o].prevFree = g2[o].prevFree
  BY <1>11, <1>15, <1>17, SetNextFreeEffect
<1>19. /\ g4 \in [D -> HeapNode]
       /\ \A o \in D : /\ g4[o].prevFree = IF o = y THEN n ELSE g3[o].prevFree
                       /\ g4[o].bytes = g3[o].bytes /\ g4[o].next = g3[o].next
                       /\ g4[o].prev = g3[o].prev /\ g4[o].nextFree = g3[o].nextFree
  BY <1>12, <1>15, <1>18, SetPrevFreeEffect
<1>20. /\ u \in [D -> HeapNode] /\ DOMAIN u = D
       /\ \A o \in D :
             /\ u[o].bytes = h[o].bytes /\ u[o].next = h[o].next /\ u[o].prev = h[o].prev
             /\ u[o].nextFree = IF o = n THEN y ELSE IF o = p THEN n ELSE h[o].nextFree
             /\ u[o].prevFree = IF o = n THEN p ELSE IF o = y THEN n ELSE h[o].prevFree
  BY <1>13, <1>14, <1>16, <1>17, <1>18, <1>19
<1>21. FreeNodes(u) = FreeNodes(h) \cup {n}
  <2>1. y # NoNode /\ n # NoNode
    BY <1>2, <1>8, <1>15
  <2>2. \A o \in D : u[o].nextFree # NoNode <=> o = n \/ h[o].nextFree # NoNode
    BY <1>8, <1>14, <1>20, <2>1 DEF FreeNodes, IsFree
  <2> QED
    BY <1>8, <1>15, <1>20, <2>2 DEF FreeNodes, IsFree
<1>22. ASSUME NEW o \in FreeNodes(u)
       PROVE  /\ u[o].nextFree \in FreeNodes(u) /\ u[u[o].nextFree].prevFree = o
              /\ u[o].prevFree \in FreeNodes(u) /\ u[u[o].prevFree].nextFree = o
  <2>1. u[o].nextFree \in FreeNodes(u) /\ u[u[o].nextFree].prevFree = o
    <3>1. CASE o = p
      BY <1>14, <1>15, <1>20, <1>21, <3>1
    <3>2. CASE o = n
      BY <1>7, <1>14, <1>15, <1>20, <1>21, <3>2
    <3>3. CASE o # p /\ o # n
      <4>1. PICK q : q = h[o].nextFree
        OBVIOUS
      <4>2. q \in FreeNodes(h) /\ q \in D /\ h[q].prevFree = o
        BY <1>1, <1>8, <1>21, <3>3, <4>1
      <4>3. q # n /\ q # y /\ u[o].nextFree = q
        BY <1>1, <1>8, <1>20, <1>21, <3>3, <4>1, <4>2
      <4> QED
        BY <1>20, <1>21, <4>2, <4>3
    <3> QED
      BY <3>1, <3>2, <3>3
  <2>2. u[o].prevFree \in FreeNodes(u) /\ u[u[o].prevFree].nextFree = o
    <3>1. CASE o = y
      BY <1>7, <1>14, <1>15, <1>20, <1>21, <3>1
    <3>2. CASE o = n
      BY <1>14, <1>15, <1>20, <1>21, <3>2
    <3>3. CASE o # y /\ o # n
      <4>1. PICK q : q = h[o].prevFree
        OBVIOUS
      <4>2. q \in FreeNodes(h) /\ q \in D /\ h[q].nextFree = o
        BY <1>1, <1>8, <1>21, <3>3, <4>1
      <4>3. q # n /\ q # p /\ u[o].prevFree = q
        BY <1>1, <1>8, <1>14, <1>20, <1>21, <3>3, <4>1, <4>2
      <4> QED
        BY <1>20, <1>21, <4>2, <4>3
    <3> QED
      BY <3>1, <3>2, <3>3
  <2> QED
    BY <2>1, <2>2
<1>23. ASSUME NEW o \in FreeNodes(u), NEW m \in FreeNodes(u)
       PROVE  IF o = Sentinel THEN u[o].nextFree <= m
              ELSE o < u[o].nextFree /\ (m <= o \/ u[o].nextFree <= m)
  <2>1. /\ o \in Nat /\ m \in Nat /\ n \in Nat /\ y \in Nat /\ p \in Nat /\ n # Sentinel
        /\ \A q \in FreeNodes(h) : q \in Nat
        /\ o # n => o \in FreeNodes(h)
        /\ m # n => m \in FreeNodes(h)
    BY <1>1, <1>2, <1>7, <1>14, <1>15, <1>21
  <2>2. m = n \/ m <= n \/ y <= m
    BY <1>7, <2>1
  <2>3. CASE o = n
    BY <1>7, <1>15, <1>20, <2>1, <2>2, <2>3
  <2>4. CASE o = p
    <3>1. u[o].nextFree = n
      BY <1>14, <1>15, <1>20, <2>4
    <3>2. CASE p = Sentinel
      <4>1. m # n => y <= m
        BY <1>1, <1>14, <2>1, <3>2
      <4> QED
        BY <1>7, <2>1, <2>4, <3>1, <3>2, <4>1
    <3>3. CASE p # Sentinel
      <4>1. p < y /\ (m = n \/ m <= p \/ y <= m)
        BY <1>1, <1>14, <2>1, <3>3
      <4>2. ~(n < p)
        BY <1>7, <1>14, <2>1, <4>1
      <4>3. p < n
        BY <1>14, <2>1, <4>2
      <4> QED
        BY <1>7, <2>1, <2>4, <3>1, <3>3, <4>1, <4>3
    <3> QED
      BY <3>2, <3>3
  <2>5. CASE o # p /\ o # n
    <3>1. PICK q : q = h[o].nextFree
      OBVIOUS
    <3>2. /\ u[o].nextFree = q /\ q \in FreeNodes(h) /\ q \in Nat /\ q # y /\ q # n
          /\ o \in FreeNodes(h)
      BY <1>1, <1>8, <1>20, <2>1, <2>5, <3>1
    <3>3. CASE o = Sentinel
      <4>1. q <= y /\ (m # n => q <= m)
        BY <1>1, <1>7, <2>1, <3>1, <3>3
      <4>2. ~(n < q)
        BY <1>7, <2>1, <3>2, <4>1
      <4> QED
        BY <2>1, <3>2, <3>3, <4>1, <4>2
    <3>4. CASE o # Sentinel
      <4>1. o < q /\ (y <= o \/ q <= y) /\ (m = n \/ m <= o \/ q <= m)
        BY <1>1, <1>7, <2>1, <3>1, <3>2, <3>4
      <4>2. n <= o \/ q <= n
        BY <1>7, <2>1, <3>2, <4>1
      <4> QED
        BY <2>1, <3>2, <3>4, <4>1, <4>2
    <3> QED
      BY <3>3, <3>4
  <2> QED
    BY <2>3, <2>4, <2>5
<1>24. FreeInOrder(u)
  BY <1>22, <1>23 DEF FreeInOrder
<1>25. Sound(u)
  <2>1. Sentinel \in FreeNodes(u)
    BY <1>1, <1>21
  <2>2. u \in [DOMAIN h -> HeapNode]
        /\ \A o \in DOMAIN h : /\ u[o].bytes = h[o].bytes /\ u[o].next = h[o].next
                               /\ u[o].prev = h[o].prev
    BY <1>8, <1>20
  <2> QED
    BY <1>24, <2>1, <2>2, RelinkSound
<1> QED
  BY <1>8, <1>20, <1>21, <1>25

\* Heap u is h with node n joined by the one behind it.
Joined(h, n, u) ==
    /\ Sound(u) /\ UsedIn(u) = UsedIn(h)
    /\ DOMAIN u = DOMAIN h \ {h[n].next}
    /\ FreeNodes(u) = FreeNodes(h) \ {h[n].next}
    /\ u[n].next = h[h[n].next].next
    /\ \A o \in DOMAIN u \ {n} : u[o].bytes = h[o].bytes /\ u[o].next = h[o].next

\* _Merge of two free nodes that touch leaves a heap that is in order, and what is
\* in use alone.
LEMMA MergeSound ==
    ASSUME NEW h, Sound(h), NEW n \in FreeNodes(h) \ {Sentinel},
           h[n].next \in FreeNodes(h) \ {Sentinel}, NEW u, u = Merge(h, n)
    PROVE  Joined(h, n, u)
<1>0. PICK m, x, y, H, D : /\ m = h[n].next /\ x = h[m].next /\ y = h[m].nextFree
                           /\ H = DOMAIN h /\ D = H \ {m}
  OBVIOUS
<1>1. /\ \A o \in FreeNodes(h) :
            /\ h[o].nextFree \in FreeNodes(h) /\ h[h[o].nextFree].prevFree = o
            /\ h[o].prevFree \in FreeNodes(h) /\ h[h[o].prevFree].nextFree = o
      /\ \A o, q \in FreeNodes(h) : o # Sentinel =>
            o < h[o].nextFree /\ (q <= o \/ h[o].nextFree <= q)
      /\ \A q \in FreeNodes(h) : h[Sentinel].nextFree <= q
      /\ FreeNodes(h) \subseteq H /\ Sentinel \in FreeNodes(h)
  BY <1>0, RingFacts
<1>2. /\ H \subseteq 0 .. HeapBytes /\ HeapBytes \in Nat \ {0} /\ Sentinel = HeapBytes
      /\ NoNode \notin 0 .. HeapBytes /\ H \subseteq Pointer /\ NoNode \in Pointer
      /\ h \in [H -> HeapNode]
      /\ \A o \in H : h[o].bytes \in Nat
  BY <1>0, NodeTypes, HeapAssumption DEF Sound, Pointer, Offsets, Sentinel
<1>3. /\ \A o \in H \ {Sentinel} :
            /\ h[o].bytes > 0
            /\ h[o].next = o + h[o].bytes
            /\ \A q \in H : q <= o \/ h[o].next <= q
      /\ \A o \in H :
            /\ h[o].next \in H /\ h[h[o].next].prev = o
            /\ h[o].prev \in H /\ h[h[o].prev].next = o
  BY <1>0 DEF Sound, Tiled
<1>4. /\ n \in H \ {Sentinel} /\ m \in H \ {Sentinel} /\ n \in FreeNodes(h) /\ m \in FreeNodes(h)
      /\ n \in Nat /\ m \in Nat /\ h[n].bytes \in Nat /\ h[m].bytes \in Nat
  BY <1>0, <1>1, <1>2
<1>5. /\ m = n + h[n].bytes /\ h[n].bytes > 0 /\ x = m + h[m].bytes /\ h[m].bytes > 0
      /\ x \in H /\ h[x].prev = m /\ h[m].prev = n
      /\ \A q \in H : (q <= n \/ m <= q) /\ (q <= m \/ x <= q)
  BY <1>0, <1>3, <1>4
<1>6. n < m /\ m < x /\ x \in Nat
  BY <1>4, <1>5
<1>7. y \in FreeNodes(h) /\ h[y].prevFree = m /\ m < y /\ y \in Nat
  BY <1>0, <1>1, <1>2, <1>4
<1>8. h[n].nextFree = m
  <2>1. /\ h[n].nextFree \in FreeNodes(h) /\ n < h[n].nextFree
        /\ (m <= n \/ h[n].nextFree <= m)
    BY <1>1, <1>4
  <2>2. h[n].nextFree \in H /\ h[n].nextFree \in Nat
    <3>1. PICK q : q = h[n].nextFree
      OBVIOUS
    <3>2. q \in H /\ H \subseteq 0 .. HeapBytes
      BY <1>1, <1>2, <2>1, <3>1
    <3> QED
      BY <3>1, <3>2
  <2>3. h[n].nextFree <= n \/ m <= h[n].nextFree
    BY <1>5, <2>2
  <2> QED
    BY <1>4, <1>6, <2>1, <2>2, <2>3
<1>9. h[m].prevFree = n
  BY <1>1, <1>4, <1>8
<1>10. PICK c : c = h[n].bytes + h[m].bytes
  OBVIOUS
<1>11. c \in 0 .. HeapBytes
  <2>1. x \in 0 .. HeapBytes /\ x = n + c
    BY <1>2, <1>4, <1>5, <1>10
  <2>2. c \in Nat
    BY <1>4, <1>10
  <2> QED
    BY <1>2, <1>4, <2>1, <2>2
<1>12. /\ n \in H /\ x \in H /\ y \in H /\ m \in H
       /\ n \in Pointer /\ x \in Pointer /\ y \in Pointer /\ h \in [H -> HeapNode]
  BY <1>1, <1>2, <1>4, <1>5, <1>7
<1>13. PICK g1 : g1 = SetBytes(h, n, c)
  OBVIOUS
<1>14. PICK g2 : g2 = SetNext(g1, n, x)
  OBVIOUS
<1>15. PICK g3 : g3 = SetNextFree(g2, n, y)
  OBVIOUS
<1>16. PICK g4 : g4 = SetPrev(g3, x, n)
  OBVIOUS
<1>17. PICK g5 : g5 = SetPrevFree(g4, y, n)
  OBVIOUS
<1>18. u = [o \in D |-> g5[o]]
  BY <1>0, <1>10, <1>13, <1>14, <1>15, <1>16, <1>17
     DEF Merge, SetBytes, SetNext, SetNextFree, SetPrev, SetPrevFree
<1>19. /\ g1 \in [H -> HeapNode]
       /\ \A o \in H : /\ g1[o].bytes = IF o = n THEN c ELSE h[o].bytes
                       /\ g1[o].next = h[o].next /\ g1[o].prev = h[o].prev
                       /\ g1[o].nextFree = h[o].nextFree /\ g1[o].prevFree = h[o].prevFree
  BY <1>11, <1>12, <1>13, SetBytesEffect
<1>20. /\ g2 \in [H -> HeapNode]
       /\ \A o \in H : /\ g2[o].next = IF o = n THEN x ELSE g1[o].next
                       /\ g2[o].bytes = g1[o].bytes /\ g2[o].prev = g1[o].prev
                       /\ g2[o].nextFree = g1[o].nextFree /\ g2[o].prevFree = g1[o].prevFree
  <2>1. n \in H /\ x \in Pointer /\ g1 \in [H -> HeapNode]
    BY <1>12, <1>19
  <2> QED
    BY <1>14, <2>1, SetNextEffect
<1>21. /\ g3 \in [H -> HeapNode]
       /\ \A o \in H : /\ g3[o].nextFree = IF o = n THEN y ELSE g2[o].nextFree
                       /\ g3[o].bytes = g2[o].bytes /\ g3[o].next = g2[o].next
                       /\ g3[o].prev = g2[o].prev /\ g3[o].prevFree = g2[o].prevFree
  BY SMTT(20), <1>12, <1>15, <1>20, SetNextFreeEffect
<1>22. /\ g4 \in [H -> HeapNode]
       /\ \A o \in H : /\ g4[o].prev = IF o = x THEN n ELSE g3[o].prev
                       /\ g4[o].bytes = g3[o].bytes /\ g4[o].next = g3[o].next
                       /\ g4[o].nextFree = g3[o].nextFree /\ g4[o].prevFree = g3[o].prevFree
  BY <1>12, <1>16, <1>21, SetPrevEffect
<1>23. /\ g5 \in [H -> HeapNode]
       /\ \A o \in H : /\ g5[o].prevFree = IF o = y THEN n ELSE g4[o].prevFree
                       /\ g5[o].bytes = g4[o].bytes /\ g5[o].next = g4[o].next
                       /\ g5[o].prev = g4[o].prev /\ g5[o].nextFree = g4[o].nextFree
  BY <1>12, <1>17, <1>22, SetPrevFreeEffect
<1>24. /\ DOMAIN u = D /\ u \in [D -> HeapNode]
       /\ \A o \in D :
             /\ u[o].bytes = IF o = n THEN c ELSE h[o].bytes
             /\ u[o].next = IF o = n THEN x ELSE h[o].next
             /\ u[o].prev = IF o = x THEN n ELSE h[o].prev
             /\ u[o].nextFree = IF o = n THEN y ELSE h[o].nextFree
             /\ u[o].prevFree = IF o = y THEN n ELSE h[o].prevFree
  <2>1. D \subseteq H /\ \A o \in D : u[o] = g5[o]
    BY <1>0, <1>18
  <2>2. u \in [D -> HeapNode] /\ DOMAIN u = D
    BY <1>18, <1>23, <2>1
  <2> QED
    BY <1>19, <1>20, <1>21, <1>22, <1>23, <2>1, <2>2
<1>25. n \in D /\ x \in D /\ y \in D /\ Sentinel \in D /\ D \subseteq H /\ n # x /\ n # y
  BY <1>0, <1>1, <1>4, <1>6, <1>7, <1>12
<1>26. FreeNodes(u) = FreeNodes(h) \ {m}
  <2>1. y # NoNode
    BY <1>2, <1>12
  <2>2. \A o \in D : u[o].nextFree # NoNode <=> h[o].nextFree # NoNode
    BY <1>4, <1>24, <2>1 DEF FreeNodes, IsFree
  <2> QED
    BY <1>0, <1>24, <2>2 DEF FreeNodes, IsFree
<1>27. ASSUME NEW o \in D \ {Sentinel}
       PROVE  u[o].bytes > 0 /\ u[o].next = o + u[o].bytes /\ \A q \in D : q <= o \/ u[o].next <= q
  <2>1. CASE o = n
    <3>1. u[o].bytes = c /\ u[o].next = x
      BY <1>24, <1>25, <2>1
    <3>2. x = n + c /\ c > 0
      BY <1>4, <1>5, <1>10
    <3>3. \A q \in D : q <= n \/ x <= q
      <4>1. ASSUME NEW q \in D PROVE q <= n \/ x <= q
        <5>1. q \in H /\ q # m /\ q \in Nat
          BY <1>0, <1>2
        <5>2. (q <= n \/ m <= q) /\ (q <= m \/ x <= q)
          BY <1>5, <5>1
        <5> QED
          BY <1>4, <1>6, <5>1, <5>2
      <4> QED
        BY <4>1
    <3> QED
      BY <2>1, <3>1, <3>2, <3>3
  <2>2. CASE o # n
    BY <1>3, <1>24, <1>25, <2>2
  <2> QED
    BY <2>1, <2>2
<1>28. ASSUME NEW o \in D
       PROVE  u[o].next \in D /\ u[u[o].next].prev = o /\ u[o].prev \in D /\ u[u[o].prev].next = o
  <2>1. u[o].next \in D /\ u[u[o].next].prev = o
    <3>1. CASE o = n
      BY <1>24, <1>25, <3>1
    <3>2. CASE o # n
      <4>1. PICK q : q = h[o].next
        OBVIOUS
      <4>2. q \in H /\ h[q].prev = o /\ q # m /\ q # x
        BY <1>0, <1>3, <1>5, <1>25, <3>2, <4>1
      <4>3. u[o].next = q /\ q \in D
        BY <1>0, <1>24, <3>2, <4>1, <4>2
      <4> QED
        BY <1>24, <4>2, <4>3
    <3> QED
      BY <3>1, <3>2
  <2>2. u[o].prev \in D /\ u[u[o].prev].next = o
    <3>1. CASE o = x
      BY <1>24, <1>25, <3>1
    <3>2. CASE o # x
      <4>1. PICK q : q = h[o].prev
        OBVIOUS
      <4>2. q \in H /\ h[q].next = o /\ q # m /\ q # n
        BY <1>0, <1>3, <1>25, <3>2, <4>1
      <4>3. u[o].prev = q /\ q \in D
        BY <1>0, <1>24, <3>2, <4>1, <4>2
      <4> QED
        BY <1>24, <4>2, <4>3
    <3> QED
      BY <3>1, <3>2
  <2> QED
    BY <2>1, <2>2
<1>29. ASSUME NEW o \in FreeNodes(u)
       PROVE  /\ u[o].nextFree \in FreeNodes(u) /\ u[u[o].nextFree].prevFree = o
              /\ u[o].prevFree \in FreeNodes(u) /\ u[u[o].prevFree].nextFree = o
  <2>0. o \in FreeNodes(h) /\ o # m /\ o \in D /\ FreeNodes(u) \subseteq D
    BY <1>0, <1>1, <1>26
  <2>1. u[o].nextFree \in FreeNodes(u) /\ u[u[o].nextFree].prevFree = o
    <3>1. CASE o = n
      BY <1>7, <1>24, <1>25, <1>26, <3>1, <1>0
    <3>2. CASE o # n
      <4>1. PICK q : q = h[o].nextFree
        OBVIOUS
      <4>2. q \in FreeNodes(h) /\ h[q].prevFree = o /\ q # m /\ q # y
        BY <1>1, <1>7, <1>9, <2>0, <3>2, <4>1
      <4>3. u[o].nextFree = q /\ q \in FreeNodes(u) /\ q \in D
        BY <1>24, <1>26, <2>0, <3>2, <4>1, <4>2
      <4> QED
        BY <1>24, <4>2, <4>3
    <3> QED
      BY <3>1, <3>2
  <2>2. u[o].prevFree \in FreeNodes(u) /\ u[u[o].prevFree].nextFree = o
    <3>1. CASE o = y
      BY <1>4, <1>6, <1>24, <1>25, <1>26, <3>1
    <3>2. CASE o # y
      <4>1. PICK q : q = h[o].prevFree
        OBVIOUS
      <4>2. q \in FreeNodes(h) /\ h[q].nextFree = o /\ q # m /\ q # n
        BY <1>0, <1>1, <1>8, <2>0, <3>2, <4>1
      <4>3. u[o].prevFree = q /\ q \in FreeNodes(u) /\ q \in D
        BY <1>24, <1>26, <2>0, <3>2, <4>1, <4>2
      <4> QED
        BY <1>24, <4>2, <4>3
    <3> QED
      BY <3>1, <3>2
  <2> QED
    BY <2>1, <2>2
<1>30. ASSUME NEW o \in FreeNodes(u), NEW q \in FreeNodes(u)
       PROVE  IF o = Sentinel THEN u[o].nextFree <= q
              ELSE o < u[o].nextFree /\ (q <= o \/ u[o].nextFree <= q)
  <2>1. /\ o \in FreeNodes(h) /\ o # m /\ q \in FreeNodes(h) /\ q # m /\ o \in D
        /\ o \in Nat /\ q \in Nat
    BY <1>0, <1>1, <1>2, <1>26
  <2>2. CASE o = n
    <3>1. u[o].nextFree = y /\ o # Sentinel
      BY <1>4, <1>24, <2>1, <2>2
    <3>2. (q <= n \/ m <= q) /\ (q <= m \/ y <= q)
      BY <1>0, <1>1, <1>4, <1>8, <2>1
    <3> QED
      BY <1>4, <1>6, <1>7, <2>1, <2>2, <3>1, <3>2
  <2>3. CASE o # n
    <3>1. u[o].nextFree = h[o].nextFree
      BY <1>24, <2>1, <2>3
    <3> QED
      BY <1>1, <2>1, <3>1
  <2> QED
    BY <2>2, <2>3
<1>31. /\ D \subseteq Offsets \cup {Sentinel} /\ 0 \in D /\ Sentinel \in FreeNodes(u)
       /\ u[Sentinel].bytes = 0 /\ u[Sentinel].next = 0
  <2>1. /\ H \subseteq Offsets \cup {Sentinel} /\ 0 \in H
        /\ h[Sentinel].bytes = 0 /\ h[Sentinel].next = 0
    BY <1>0 DEF Sound
  <2>2. 0 # m /\ n # Sentinel
    BY <1>4, <1>6
  <2> QED
    BY <1>0, <1>1, <1>4, <1>24, <1>25, <1>26, <2>1, <2>2
<1>32. Tiled(u)
  BY <1>24, <1>27, <1>28 DEF Tiled
<1>33. FreeInOrder(u)
  BY <1>29, <1>30 DEF FreeInOrder
<1>34. Sound(u)
  BY <1>24, <1>31, <1>32, <1>33 DEF Sound
<1>35. UsedIn(u) = UsedIn(h)
  <2>1. DOMAIN h \ FreeNodes(h) = DOMAIN u \ FreeNodes(u)
    BY <1>0, <1>4, <1>24, <1>26
  <2>2. \A o \in DOMAIN h \ FreeNodes(h) : u[o].bytes = h[o].bytes
    BY <1>0, <1>4, <1>24
  <2> QED
    BY <2>1, <2>2, UsedSame
<1> QED
  BY <1>0, <1>24, <1>25, <1>26, <1>34, <1>35 DEF Joined

-----------------------------------------------------------------------------
(* The walk along the ring of free nodes.                                  *)

\* The walk that FreeRing takes, and how far it gets.
HopOf(h) == CHOOSE f : f = [k \in 0 .. HeapBytes |->
                              IF k = 0 THEN h[Sentinel].nextFree ELSE h[f[k - 1]].nextFree]
RingSize(h) == Min({k \in 0 .. HeapBytes : HopOf(h)[k] = Sentinel} \cup {HeapBytes})

LEMMA RingIsHops ==
    ASSUME NEW h
    PROVE  FreeRing(h) = [k \in 1 .. RingSize(h) |-> HopOf(h)[k - 1]]
  BY Zenon DEF FreeRing, HopOf, RingSize

LEMMA HopFacts ==
    ASSUME NEW h, Sound(h), NEW f, f = HopOf(h)
    PROVE  /\ f \in [0 .. HeapBytes -> FreeNodes(h)]
           /\ f[0] = h[Sentinel].nextFree
           /\ \A j \in 1 .. HeapBytes : f[j] = h[f[j - 1]].nextFree
<1>1. HeapBytes \in Nat
  BY HeapAssumption
<1>2. PICK S, b, g : /\ S = FreeNodes(h) /\ b = h[Sentinel].nextFree
                     /\ g = [n \in FreeNodes(h) |-> h[n].nextFree]
  OBVIOUS
<1>3. b \in S /\ g \in [S -> S] /\ \A n \in S : g[n] = h[n].nextFree
  BY <1>2, RingFacts
<1>4. PICK e \in [0 .. HeapBytes -> S] :
          e[0] = b /\ \A j \in 1 .. HeapBytes : e[j] = g[e[j - 1]]
  <2>1. \E e : IsWalk(e, S, b, g, HeapBytes)
    BY <1>1, <1>3, WalksExist
  <2> QED
    BY <2>1 DEF IsWalk
<1>5. e = [k \in 0 .. HeapBytes |->
             IF k = 0 THEN h[Sentinel].nextFree ELSE h[e[k - 1]].nextFree]
  <2>1. \A k \in 0 .. HeapBytes : k = 0 \/ (k \in 1 .. HeapBytes /\ k - 1 \in 0 .. HeapBytes)
    BY <1>1
  <2>2. \A k \in 0 .. HeapBytes :
            e[k] = IF k = 0 THEN h[Sentinel].nextFree ELSE h[e[k - 1]].nextFree
    BY <1>2, <1>3, <1>4, <2>1
  <2> QED
    BY <1>4, <2>2
<1>6. f = [k \in 0 .. HeapBytes |->
             IF k = 0 THEN h[Sentinel].nextFree ELSE h[f[k - 1]].nextFree]
  BY <1>5, Zenon DEF HopOf
<1>7. f[0] = h[Sentinel].nextFree /\ \A j \in 1 .. HeapBytes : f[j] = h[f[j - 1]].nextFree
  <2>1. 0 \in 0 .. HeapBytes /\ \A j \in 1 .. HeapBytes : j \in 0 .. HeapBytes /\ j # 0
    BY <1>1
  <2> QED
    BY <1>6, <2>1
<1>8. \A k \in 0 .. HeapBytes : f[k] \in S
  <2>1. f[0] \in S /\ \A j \in 1 .. HeapBytes : f[j - 1] \in S => f[j] \in S
    BY <1>2, <1>3, <1>7
  <2> QED
    BY <1>1, <2>1, WalkStays
<1> QED
  BY <1>2, <1>6, <1>7, <1>8

\* The ring ends at the sentinel, and holds the other free nodes in their order.
LEMMA RingComplete ==
    ASSUME NEW h, Sound(h)
    PROVE  /\ RingSize(h) \in Nat /\ DOMAIN FreeRing(h) = 1 .. RingSize(h)
           /\ \A k \in 1 .. RingSize(h) : FreeRing(h)[k] \in FreeNodes(h) \ {Sentinel}
           /\ \A k, l \in 1 .. RingSize(h) : k < l => FreeRing(h)[k] < FreeRing(h)[l]
           /\ \A n \in FreeNodes(h) \ {Sentinel} : \E k \in 1 .. RingSize(h) : FreeRing(h)[k] = n
<1>1. PICK f, S, B : f = HopOf(h) /\ S = FreeNodes(h) /\ B = HeapBytes
  OBVIOUS
<1>2. /\ f \in [0 .. B -> S] /\ f[0] = h[Sentinel].nextFree
      /\ \A j \in 1 .. B : f[j] = h[f[j - 1]].nextFree
  BY <1>1, HopFacts
<1>3. S \in SUBSET Nat /\ S \subseteq 0 .. B /\ B \in Nat /\ Sentinel = B /\ B \in S
  BY <1>1, NodeTypes, RingFacts
<1>4. /\ \A o, q \in S : o # B => o < h[o].nextFree /\ (q <= o \/ h[o].nextFree <= q)
      /\ \A q \in S : f[0] <= q
  BY <1>1, <1>2, <1>3, RingFacts
<1>5. PICK z \in 0 .. B :
               /\ f[z] = B
               /\ \A k \in 0 .. z - 1 : f[k] \in S \ {B}
               /\ \A j, k \in 0 .. z : j < k => f[j] < f[k]
               /\ \A q \in S \ {B} : \E j \in 0 .. z - 1 : f[j] = q
  <2>1. \A j \in 1 .. B : f[j - 1] # B =>
            f[j - 1] < f[j] /\ \A q \in S : q <= f[j - 1] \/ f[j] <= q
    <3>1. \A j \in 1 .. B : j - 1 \in 0 .. B
      BY <1>3
    <3> QED
      BY <1>2, <1>4, <3>1
  <2>2. /\ S \in SUBSET Nat /\ B \in Nat /\ B \in S /\ B >= B
        /\ \A o \in S : o < B \/ o = B
        /\ f \in [0 .. B -> S] /\ \A q \in S : f[0] <= q
    BY <1>2, <1>3, <1>4
  <2>3. \E z \in 0 .. B : MeetsAll(f, S, B, z)
    BY <2>1, <2>2, WalkMeetsAll
  <2> QED
    BY <2>3 DEF MeetsAll
<1>6. RingSize(h) = z
  <2>1. PICK T : T = {k \in 0 .. B : f[k] = B} \cup {B}
    OBVIOUS
  <2>2. T \in SUBSET Nat /\ z \in T /\ RingSize(h) = Min(T)
    BY <1>1, <1>3, <1>5, <2>1 DEF RingSize
  <2>3. PICK k : k = Min(T)
    OBVIOUS
  <2>4. k \in T /\ k <= z
    BY <2>2, <2>3, MinIsLeast
  <2>5. ~(k < z)
    BY <1>3, <1>5, <2>1, <2>2, <2>4
  <2> QED
    BY <1>3, <1>5, <2>2, <2>3, <2>4, <2>5
<1>7. FreeRing(h) = [k \in 1 .. z |-> f[k - 1]]
  BY <1>1, <1>6, RingIsHops
<1>8. \A k \in 1 .. z : FreeRing(h)[k] = f[k - 1] /\ k - 1 \in 0 .. z - 1 /\ k - 1 \in 0 .. z
  BY <1>3, <1>5, <1>7
<1>9. ASSUME NEW k \in 1 .. z, NEW l \in 1 .. z, k < l PROVE FreeRing(h)[k] < FreeRing(h)[l]
  <2>1. k - 1 < l - 1
    BY <1>3, <1>5, <1>9
  <2> QED
    BY <1>5, <1>8, <2>1
<1>10. ASSUME NEW n \in FreeNodes(h) \ {Sentinel} PROVE \E k \in 1 .. z : FreeRing(h)[k] = n
  <2>1. PICK j \in 0 .. z - 1 : f[j] = n
    BY <1>1, <1>3, <1>5
  <2>2. j + 1 \in 1 .. z /\ (j + 1) - 1 = j
    BY <1>3, <1>5
  <2> QED
    BY <1>8, <2>1, <2>2
<1> QED
  BY <1>1, <1>3, <1>5, <1>6, <1>7, <1>8, <1>9, <1>10

\* _FindNode: the first free node with room behind its alignment, if there is one.
LEMMA FindNodeEffect ==
    ASSUME NEW h, Sound(h), NEW b, NEW a, NEW n, n = FindNode(h, b, a)
    PROVE  /\ n # NoNode => n \in FreeNodes(h) \ {Sentinel} /\ h[n].bytes >= b + Skip(n, a)
           /\ n = NoNode => \A o \in FreeNodes(h) \ {Sentinel} : ~(h[o].bytes >= b + Skip(o, a))
<1>1. PICK way, z, good : /\ way = FreeRing(h) /\ z = RingSize(h)
                           /\ good = {k \in DOMAIN way : h[way[k]].bytes >= b + Skip(way[k], a)}
  OBVIOUS
<1>2. /\ z \in Nat /\ DOMAIN way = 1 .. z
      /\ \A k \in 1 .. z : way[k] \in FreeNodes(h) \ {Sentinel}
      /\ \A o \in FreeNodes(h) \ {Sentinel} : \E k \in 1 .. z : way[k] = o
  BY <1>1, RingComplete
<1>3. n = IF good = {} THEN NoNode ELSE way[Min(good)]
  BY <1>1 DEF FindNode
<1>4. CASE good = {}
  <2>1. n = NoNode
    BY <1>3, <1>4
  <2>2. \A k \in 1 .. z : ~(h[way[k]].bytes >= b + Skip(way[k], a))
    BY <1>1, <1>2, <1>4
  <2> QED
    BY <1>2, <2>1, <2>2
<1>5. CASE good # {}
  <2>1. good \in SUBSET Nat
    BY <1>1, <1>2
  <2>2. Min(good) \in good
    BY <1>5, <2>1, MinIsLeast
  <2>3. way[Min(good)] \in FreeNodes(h) \ {Sentinel}
        /\ h[way[Min(good)]].bytes >= b + Skip(way[Min(good)], a)
    BY <1>1, <1>2, <2>2
  <2>4. NoNode \notin FreeNodes(h)
    BY NodeTypes, RingFacts
  <2> QED
    BY <1>3, <1>5, <2>3, <2>4
<1> QED
  BY <1>4, <1>5

-----------------------------------------------------------------------------
(* What the calls do.                                                       *)

\* Two nodes do not overlap, and none reaches past the end.
LEMMA NodesApart ==
    ASSUME NEW h, Sound(h), NEW n \in DOMAIN h \ {Sentinel}
    PROVE  /\ n \in Offsets /\ h[n].bytes \in 1 .. HeapBytes /\ n + h[n].bytes <= HeapBytes
           /\ \A o \in DOMAIN h \ {Sentinel} :
                 o = n \/ o + h[o].bytes <= n \/ n + h[n].bytes <= o
<1>1. /\ DOMAIN h \subseteq 0 .. HeapBytes /\ \A o \in DOMAIN h : h[o].bytes \in Nat
      /\ HeapBytes \in Nat \ {0} /\ Sentinel = HeapBytes
  BY NodeTypes
<1>2. /\ \A o \in DOMAIN h \ {Sentinel} :
            /\ h[o].bytes > 0
            /\ h[o].next = o + h[o].bytes
            /\ \A m \in DOMAIN h : m <= o \/ h[o].next <= m
      /\ \A o \in DOMAIN h : h[o].next \in DOMAIN h
  BY DEF Sound, Tiled
<1>3. /\ n + h[n].bytes \in DOMAIN h /\ h[n].bytes > 0
      /\ \A m \in DOMAIN h : m <= n \/ n + h[n].bytes <= m
  BY <1>2
<1>4. n \in 0 .. HeapBytes - 1 /\ h[n].bytes \in 1 .. HeapBytes /\ n + h[n].bytes <= HeapBytes
  <2>1. n \in 0 .. HeapBytes /\ n + h[n].bytes \in 0 .. HeapBytes /\ h[n].bytes \in Nat
    BY <1>1, <1>3
  <2> QED
    BY <1>1, <1>3, <2>1
<1>5. ASSUME NEW o \in DOMAIN h \ {Sentinel}
      PROVE  o = n \/ o + h[o].bytes <= n \/ n + h[n].bytes <= o
  <2>1. (n <= o \/ o + h[o].bytes <= n) /\ (o <= n \/ n + h[n].bytes <= o)
    BY <1>2, <1>3
  <2>2. o \in Nat /\ n \in Nat
    BY <1>1
  <2> QED
    BY <2>1, <2>2
<1> QED
  BY <1>4, <1>5 DEF Offsets

\* Where free nodes touch, they follow each other on the second ring.
LEMMA TouchingNodes ==
    ASSUME NEW h, Sound(h), NEW n \in FreeNodes(h) \ {Sentinel},
           h[n].next \in FreeNodes(h) \ {Sentinel}
    PROVE  h[n].nextFree = h[n].next /\ h[h[n].next].prevFree = n /\ h[h[n].next].prev = n
<1>1. PICK m : m = h[n].next
  OBVIOUS
<1>2. PICK q : q = h[n].nextFree
  OBVIOUS
<1>3. /\ DOMAIN h \subseteq 0 .. HeapBytes /\ FreeNodes(h) \subseteq DOMAIN h
      /\ h[n].bytes \in Nat /\ h[n].bytes > 0 /\ m = n + h[n].bytes /\ h[m].prev = n
      /\ \A o \in DOMAIN h : o <= n \/ m <= o
  <2>1. n \in DOMAIN h \ {Sentinel}
    BY DEF FreeNodes
  <2>2. /\ DOMAIN h \subseteq 0 .. HeapBytes /\ FreeNodes(h) \subseteq DOMAIN h
        /\ h[n].bytes \in Nat
    BY <2>1, NodeTypes, RingFacts
  <2> QED
    BY <1>1, <2>1, <2>2 DEF Sound, Tiled
<1>4. q \in FreeNodes(h) /\ h[q].prevFree = n /\ n < q /\ (m <= n \/ q <= m)
  BY <1>1, <1>2, RingFacts
<1>5. n \in Nat /\ m \in Nat /\ q \in Nat /\ (q <= n \/ m <= q)
  <2>1. n \in 0 .. HeapBytes /\ q \in 0 .. HeapBytes /\ m \in 0 .. HeapBytes /\ q \in DOMAIN h
    BY <1>1, <1>3, <1>4
  <2> QED
    BY <1>3, <2>1
<1>6. q = m
  BY <1>3, <1>4, <1>5
<1> QED
  BY <1>1, <1>2, <1>3, <1>4, <1>6

\* No two free nodes touch, but at node m.
QuietBut(h, m) ==
    \A n \in FreeNodes(h) \ {Sentinel} :
        h[n].next = m \/ h[n].next \notin FreeNodes(h) \ {Sentinel}
\* No two free nodes touch.
Quiet(h) ==
    \A n \in FreeNodes(h) \ {Sentinel} : h[n].next \notin FreeNodes(h) \ {Sentinel}

\* The first split of a node that is to be taken, for the alignment.
LEMMA SkipQuiet ==
    ASSUME NEW h, Sound(h), Quiet(h), NEW n \in FreeNodes(h) \ {Sentinel},
           NEW b \in 1 .. h[n].bytes - 1, NEW s, s = Split(h, n, b)
    PROVE  QuietBut(s, n + b)
<1>1. PICK r : r = n + b
  OBVIOUS
<1>2. FreeNodes(s) = FreeNodes(h) \cup {r} /\ FreeNodes(h) \subseteq DOMAIN h
  BY <1>1, SplitSound, RingFacts
<1>3. /\ r \notin DOMAIN h /\ s[r].next = h[n].next /\ s[n].next = r
      /\ \A o \in DOMAIN h : o # n => s[o].next = h[o].next
  BY <1>1, SplitSound
<1>4. \A o \in FreeNodes(h) : o # r
  BY <1>2, <1>3
<1>5. s[r].next = h[n].next /\ s[n].next = r /\ \A o \in FreeNodes(h) \ {n} : s[o].next = h[o].next
  BY <1>2, <1>3, <1>4
<1>6. \A o \in FreeNodes(h) \ {Sentinel} :
         /\ h[o].next \notin FreeNodes(h) \ {Sentinel} /\ h[o].next \in DOMAIN h
         /\ h[o].next # r
  BY <1>2, <1>3 DEF Quiet, Sound, Tiled
<1> QED
  BY <1>1, <1>2, <1>5, <1>6 DEF QuietBut

\* The second split, for the rest, and the node itself.
LEMMA TakeQuiet ==
    ASSUME NEW h, Sound(h), NEW m \in FreeNodes(h) \ {Sentinel}, QuietBut(h, m),
           NEW b, NEW g, g = h \/ (b \in 1 .. h[m].bytes - 1 /\ g = Split(h, m, b)),
           Sound(g), m \in FreeNodes(g), NEW u, u = Unlink(g, m)
    PROVE  Quiet(u)
<1>1. /\ FreeNodes(u) = FreeNodes(g) \ {m} /\ FreeNodes(g) \subseteq DOMAIN g
      /\ \A o \in DOMAIN g : u[o].next = g[o].next
  BY UnlinkSound, RingFacts
<1>2. CASE g = h
  BY <1>1, <1>2 DEF Quiet, QuietBut
<1>3. CASE b \in 1 .. h[m].bytes - 1 /\ g = Split(h, m, b)
  <2>1. PICK r : r = m + b
    OBVIOUS
  <2>2. FreeNodes(g) = FreeNodes(h) \cup {r} /\ FreeNodes(h) \subseteq DOMAIN h
    BY <1>3, <2>1, SplitSound, RingFacts
  <2>3. /\ r \notin DOMAIN h /\ g[r].next = h[m].next
        /\ \A o \in DOMAIN h : o # m => g[o].next = h[o].next
    BY <1>3, <2>1, SplitSound
  <2>4. \A o \in FreeNodes(h) : o # r
    BY <2>2, <2>3
  <2>5. g[r].next = h[m].next /\ \A o \in FreeNodes(h) \ {m} : g[o].next = h[o].next
    BY <2>2, <2>3, <2>4
  <2>6. \A o \in FreeNodes(h) \ {Sentinel} :
           /\ h[o].next = m \/ h[o].next \notin FreeNodes(h) \ {Sentinel}
           /\ h[o].next # r
    <3>1. \A o \in DOMAIN h : h[o].next \in DOMAIN h
      BY DEF Sound, Tiled
    <3> QED
      BY <2>2, <2>3, <3>1 DEF QuietBut
  <2>7. h[m].next # m
    <3>1. h[m].next = m + h[m].bytes /\ h[m].bytes > 0 /\ m \in Nat /\ h[m].bytes \in Nat
      BY <2>2, NodeTypes DEF Sound, Tiled
    <3> QED
      BY <3>1
  <2> QED
    BY <1>1, <2>2, <2>5, <2>6, <2>7 DEF Quiet
<1> QED
  BY <1>2, <1>3

\* Two intervals share no byte.
Separate(i, j) == j.start + j.count <= i.start \/ i.start + i.count <= j.start

LEMMA SkipType ==
    ASSUME NEW n \in Nat, NEW a \in Nat \ {0}
    PROVE  Skip(n, a) \in Nat /\ Skip(n, a) < a
<1>1. n % a \in 0 .. a - 1
  OBVIOUS
<1>2. PICK d \in Int : d = a - (n % a)
  BY <1>1
<1>3. d % a \in 0 .. a - 1
  OBVIOUS
<1> QED
  BY <1>2, <1>3 DEF Skip

\* gckVIDMEM_AllocateLinear: the interval it returns was free.
LEMMA AllocateEffect ==
    ASSUME Sound(heap), Quiet(heap), NEW bytes \in Sizes, NEW alignment \in Alignments,
           NEW specified, NEW aligned \in BOOLEAN, NEW trimmed \in BOOLEAN,
           Allocate(bytes, alignment, specified, aligned, trimmed)
    PROVE  /\ Sound(heap') /\ Quiet(heap')
           /\ \E i \in [start : Offsets, count : 1 .. HeapBytes] :
                 /\ i.start + i.count <= HeapBytes
                 /\ \A j \in UsedIn(heap) : Separate(i, j)
                 /\ UsedIn(heap)' = UsedIn(heap) \cup {i}
                 /\ freeBytes' = freeBytes - i.count
<1>1. PICK n : n = FindNode(heap, bytes, alignment)
  OBVIOUS
<1>2. PICK skip : skip = IF aligned THEN Skip(n, alignment) ELSE 0
  OBVIOUS
<1>3. PICK h : h = IF skip > 0 THEN Split(heap, n, skip) ELSE heap
  OBVIOUS
<1>4. PICK m : m = n + skip
  OBVIOUS
<1>5. PICK g : g = IF trimmed /\ h[m].bytes - bytes > Threshold THEN Split(h, m, bytes) ELSE h
  OBVIOUS
<1>6. PICK u : u = Unlink(g, m)
  OBVIOUS
<1>7. n # NoNode /\ heap' = u /\ freeBytes' = freeBytes - g[m].bytes
  BY <1>1, <1>2, <1>3, <1>4, <1>5, <1>6 DEF Allocate
<1>8. n \in FreeNodes(heap) \ {Sentinel} /\ heap[n].bytes >= bytes + Skip(n, alignment)
  BY <1>1, <1>7, FindNodeEffect
<1>9. bytes \in Nat /\ bytes > 0 /\ alignment \in Nat \ {0}
  BY HeapAssumption
<1>10. n \in Nat /\ heap[n].bytes \in Nat /\ n \in DOMAIN heap
  <2>1. DOMAIN heap \subseteq Nat /\ \A o \in DOMAIN heap : heap[o].bytes \in Nat
    BY NodeTypes
  <2> QED
    BY <1>8, <2>1, RingFacts
<1>11. skip \in Nat /\ heap[n].bytes >= bytes + skip
  <2>1. Skip(n, alignment) \in Nat
    BY <1>9, <1>10, SkipType
  <2> QED
    BY <1>2, <1>8, <1>9, <1>10, <2>1
<1>12. /\ Sound(h) /\ UsedIn(h) = UsedIn(heap) /\ QuietBut(h, m)
       /\ m \in FreeNodes(h) \ {Sentinel} /\ h[m].bytes >= bytes
  <2>1. CASE skip > 0
    <3>1. h = Split(heap, n, skip) /\ skip \in 1 .. heap[n].bytes - 1
      BY <1>3, <1>9, <1>10, <1>11, <2>1
    <3>2. /\ Sound(h) /\ UsedIn(h) = UsedIn(heap) /\ FreeNodes(h) = FreeNodes(heap) \cup {m}
          /\ h[m].bytes = heap[n].bytes - skip /\ m \notin DOMAIN heap
      BY <1>4, <1>8, <3>1, SplitSound
    <3>3. QuietBut(h, m)
      BY <1>4, <1>8, <3>1, SkipQuiet
    <3>4. m # Sentinel
      BY <3>2, RingFacts
    <3> QED
      BY <1>9, <1>10, <1>11, <3>2, <3>3, <3>4
  <2>2. CASE ~(skip > 0)
    <3>1. h = heap /\ skip = 0 /\ m = n
      BY <1>3, <1>4, <1>10, <1>11, <2>2
    <3> QED
      BY <1>8, <1>9, <1>11, <3>1 DEF Quiet, QuietBut
  <2> QED
    BY <2>1, <2>2
<1>13. h[m].bytes \in Nat
  BY <1>12, NodeTypes, RingFacts
<1>14. /\ Sound(g) /\ UsedIn(g) = UsedIn(heap) /\ m \in FreeNodes(g) \ {Sentinel}
       /\ g = h \/ (bytes \in 1 .. h[m].bytes - 1 /\ g = Split(h, m, bytes))
  <2>1. CASE trimmed /\ h[m].bytes - bytes > Threshold
    <3>1. bytes \in 1 .. h[m].bytes - 1 /\ g = Split(h, m, bytes)
      BY <1>5, <1>9, <1>13, <2>1, HeapAssumption
    <3>2. Sound(g) /\ UsedIn(g) = UsedIn(h) /\ FreeNodes(g) = FreeNodes(h) \cup {m + bytes}
      BY <1>12, <3>1, SplitSound
    <3> QED
      BY <1>12, <3>1, <3>2
  <2>2. CASE ~(trimmed /\ h[m].bytes - bytes > Threshold)
    BY <1>5, <1>12, <2>2
  <2> QED
    BY <2>1, <2>2
<1>15. /\ Sound(u) /\ FreeNodes(u) = FreeNodes(g) \ {m} /\ DOMAIN u = DOMAIN g
       /\ \A o \in DOMAIN g : u[o].bytes = g[o].bytes
  BY <1>6, <1>14, UnlinkSound
<1>16. Quiet(u)
  BY <1>6, <1>12, <1>14, TakeQuiet
<1>17. PICK i : i = [start |-> m, count |-> g[m].bytes]
  OBVIOUS
<1>18. m \in DOMAIN g \ {Sentinel} /\ FreeNodes(g) \subseteq DOMAIN g /\ Sentinel \in FreeNodes(g)
  BY <1>14, RingFacts
<1>19. /\ m \in Offsets /\ g[m].bytes \in 1 .. HeapBytes /\ m + g[m].bytes <= HeapBytes
       /\ \A o \in DOMAIN g \ {Sentinel} :
             o = m \/ o + g[o].bytes <= m \/ m + g[m].bytes <= o
  BY <1>14, <1>18, NodesApart
<1>20. UsedIn(u) = UsedIn(g) \cup {i}
  <2>1. DOMAIN u \ FreeNodes(u) = (DOMAIN g \ FreeNodes(g)) \cup {m}
    BY <1>15, <1>18, <1>14
  <2>2. \A o \in DOMAIN g :
            [start |-> o, count |-> u[o].bytes] = [start |-> o, count |-> g[o].bytes]
    BY <1>15
  <2> QED
    BY ZenonT(60), <1>17, <1>18, <2>1, <2>2 DEF UsedIn
<1>21. \A j \in UsedIn(g) : Separate(i, j)
  <2>1. ASSUME NEW o \in DOMAIN g \ FreeNodes(g)
        PROVE  Separate(i, [start |-> o, count |-> g[o].bytes])
    <3>1. o # m /\ o \in DOMAIN g \ {Sentinel}
      BY <1>14, <1>18
    <3> QED
      BY <1>17, <1>19, <3>1 DEF Separate
  <2> QED
    BY <2>1 DEF UsedIn
<1>22. i \in [start : Offsets, count : 1 .. HeapBytes] /\ i.start = m /\ i.count = g[m].bytes
  BY <1>17, <1>19
<1>23. /\ UsedIn(heap)' = UsedIn(heap) \cup {i} /\ freeBytes' = freeBytes - i.count
       /\ i.start + i.count <= HeapBytes
  <2>1. UsedIn(heap)' = UsedIn(u)
    BY <1>7 DEF UsedIn, FreeNodes, IsFree
  <2> QED
    BY <1>7, <1>14, <1>19, <1>20, <1>22, <2>1
<1>24. \A j \in UsedIn(heap) : Separate(i, j)
  BY <1>14, <1>21
<1>25. Sound(heap') /\ Quiet(heap')
  BY <1>7, <1>15, <1>16
<1> QED
  BY <1>22, <1>23, <1>24, <1>25

\* A node has bytes unless it is the sentinel.
LEMMA NotEmpty ==
    ASSUME NEW h, Sound(h), NEW n \in DOMAIN h
    PROVE  h[n].bytes # 0 <=> n # Sentinel
<1>1. n # Sentinel => h[n].bytes > 0 /\ h[n].bytes \in Nat
  BY NodeTypes DEF Sound, Tiled
<1>2. h[Sentinel].bytes = 0
  BY DEF Sound
<1> QED
  BY <1>1, <1>2

\* A node that was freed joins the free node behind it.
LEMMA MergeNextSound ==
    ASSUME NEW h, Sound(h), Quiet(h), NEW n \in DOMAIN h \ FreeNodes(h),
           NEW l, l = LinkFree(h, n), NEW a, a = MergeNext(l, n)
    PROVE  /\ Sound(a) /\ QuietBut(a, n) /\ n \in FreeNodes(a) \ {Sentinel}
           /\ UsedIn(a) = UsedIn(l)
<1>1. /\ Sound(l) /\ DOMAIN l = DOMAIN h /\ FreeNodes(l) = FreeNodes(h) \cup {n}
      /\ \A o \in DOMAIN h : l[o].bytes = h[o].bytes /\ l[o].next = h[o].next
  BY LinkSound
<1>2. FreeNodes(h) \subseteq DOMAIN h /\ Sentinel \in FreeNodes(h) /\ n # Sentinel
  BY RingFacts
<1>3. \A o \in FreeNodes(h) \ {Sentinel} : l[o].next \notin FreeNodes(h) \ {Sentinel}
  BY <1>1, <1>2 DEF Quiet
<1>4. n \in FreeNodes(l) \ {Sentinel} /\ n \in DOMAIN l
  BY <1>1, <1>2
<1>5. l[n].next \in DOMAIN l /\ l[n].nextFree \in FreeNodes(l)
  BY ZenonT(60), <1>1, <1>4, RingFacts DEF Sound, Tiled
<1>6. CASE l[n].next \in FreeNodes(l) \ {Sentinel}
  <2>1. l[n].next = l[n].nextFree /\ l[l[n].next].bytes # 0
    BY <1>1, <1>4, <1>5, <1>6, TouchingNodes, NotEmpty
  <2>2. a = Merge(l, n)
    BY <2>1 DEF MergeNext
  <2>3. PICK m : m = l[n].next
    OBVIOUS
  <2>4. /\ Sound(a) /\ UsedIn(a) = UsedIn(l) /\ DOMAIN a = DOMAIN l \ {m}
        /\ FreeNodes(a) = FreeNodes(l) \ {m} /\ a[n].next = l[m].next
        /\ \A o \in DOMAIN a \ {n} : a[o].next = l[o].next
    <3>1. Joined(l, n, a)
      BY <1>1, <1>4, <1>6, <2>2, MergeSound
    <3> QED
      BY <2>3, <3>1 DEF Joined
  <2>5. m # n
    <3>1. l[n].next = n + l[n].bytes /\ l[n].bytes > 0
      BY <1>1, <1>4 DEF Sound, Tiled
    <3>2. n \in Nat /\ l[n].bytes \in Nat
      BY <1>1, <1>4, NodeTypes
    <3> QED
      BY <2>3, <3>1, <3>2
  <2>6. FreeNodes(a) \subseteq DOMAIN a
    BY <2>4, RingFacts
  <2>7. QuietBut(a, n)
    <3> SUFFICES ASSUME NEW o \in FreeNodes(a) \ {Sentinel}
                 PROVE  a[o].next = n \/ a[o].next \notin FreeNodes(a) \ {Sentinel}
      BY DEF QuietBut
    <3>1. CASE o = n
      <4>1. l[m].next \notin FreeNodes(h) \ {Sentinel}
        BY <1>1, <1>3, <1>6, <2>3, <2>5
      <4> QED
        BY <1>1, <2>4, <3>1, <4>1
    <3>2. CASE o # n
      <4>1. l[o].next \notin FreeNodes(h) \ {Sentinel} /\ a[o].next = l[o].next
        BY <1>1, <1>3, <2>4, <2>6, <3>2
      <4> QED
        BY <1>1, <2>4, <4>1
    <3> QED
      BY <3>1, <3>2
  <2> QED
    BY <1>4, <2>4, <2>5, <2>7
<1>7. CASE l[n].next \notin FreeNodes(l) \ {Sentinel}
  <2>1. ~(l[n].next = l[n].nextFree /\ l[l[n].next].bytes # 0)
    BY <1>1, <1>5, <1>7, NotEmpty
  <2>2. a = l
    BY <2>1 DEF MergeNext
  <2>3. QuietBut(a, n)
    BY <1>1, <1>3, <1>7, <2>2 DEF QuietBut
  <2> QED
    BY <1>1, <1>4, <2>2, <2>3
<1> QED
  BY <1>6, <1>7

\* And the free node before it.
LEMMA MergePrevSound ==
    ASSUME NEW a, Sound(a), NEW n \in FreeNodes(a) \ {Sentinel}, QuietBut(a, n),
           NEW b, b = MergePrev(a, n)
    PROVE  Sound(b) /\ Quiet(b) /\ UsedIn(b) = UsedIn(a)
<1>1. PICK p : p = a[n].prev
  OBVIOUS
<1>2. n \in DOMAIN a /\ FreeNodes(a) \subseteq DOMAIN a /\ a[n].prevFree \in FreeNodes(a)
  BY RingFacts
<1>3. p \in DOMAIN a /\ a[p].next = n
  BY <1>1, <1>2 DEF Sound, Tiled
<1>4. CASE p = a[n].prevFree /\ a[p].bytes # 0
  <2>1. p \in FreeNodes(a) \ {Sentinel}
    BY <1>2, <1>3, <1>4, NotEmpty
  <2>2. b = Merge(a, p)
    BY <1>1, <1>4 DEF MergePrev
  <2>3. /\ Sound(b) /\ UsedIn(b) = UsedIn(a) /\ DOMAIN b = DOMAIN a \ {n}
        /\ FreeNodes(b) = FreeNodes(a) \ {n} /\ b[p].next = a[n].next
        /\ \A o \in DOMAIN b \ {p} : b[o].next = a[o].next
    <3>1. a[p].next \in FreeNodes(a) \ {Sentinel}
      BY <1>3
    <3>2. Joined(a, p, b)
      BY <2>1, <2>2, <3>1, MergeSound
    <3> QED
      BY <1>3, <3>2 DEF Joined
  <2>4. \A o \in FreeNodes(b) \ {Sentinel} : b[o].next \notin FreeNodes(b) \ {Sentinel}
    BY <1>2, <2>3 DEF QuietBut
  <2> QED
    BY <2>3, <2>4 DEF Quiet
<1>5. CASE ~(p = a[n].prevFree /\ a[p].bytes # 0)
  <2>1. b = a
    BY <1>1, <1>5 DEF MergePrev
  <2>2. ASSUME NEW o \in FreeNodes(a) \ {Sentinel}, a[o].next \in FreeNodes(a) \ {Sentinel}
        PROVE  FALSE
    <3>1. a[o].next = n
      BY <2>2 DEF QuietBut
    <3>2. a[n].prevFree = o /\ a[n].prev = o
      BY <2>2, <3>1, TouchingNodes
    <3>3. a[o].bytes # 0
      BY <1>2, <2>2, NotEmpty
    <3> QED
      BY <1>1, <1>5, <3>2, <3>3
  <2> QED
    BY <2>1, <2>2 DEF Quiet
<1> QED
  BY <1>4, <1>5

\* gckVIDMEM_Free: the interval that is given back was in use.
LEMMA FreeEffect ==
    ASSUME Sound(heap), Quiet(heap), FreeNode
    PROVE  /\ Sound(heap') /\ Quiet(heap')
           /\ \E i \in UsedIn(heap) :
                 /\ UsedIn(heap)' = UsedIn(heap) \ {i}
                 /\ freeBytes' = freeBytes + i.count
<1>1. PICK n \in HeapNodes :
          /\ ~IsFree(heap, n)
          /\ heap' = MergePrev(MergeNext(LinkFree(heap, n), n), n)
          /\ freeBytes' = freeBytes + heap[n].bytes
  BY DEF FreeNode
<1>2. n \in DOMAIN heap \ FreeNodes(heap)
  BY <1>1 DEF HeapNodes, FreeNodes
<1>3. PICK l : l = LinkFree(heap, n)
  OBVIOUS
<1>4. PICK a : a = MergeNext(l, n)
  OBVIOUS
<1>5. PICK b : b = MergePrev(a, n)
  OBVIOUS
<1>6. heap' = b
  BY <1>1, <1>3, <1>4, <1>5
<1>7. /\ DOMAIN l = DOMAIN heap /\ FreeNodes(l) = FreeNodes(heap) \cup {n}
      /\ \A o \in DOMAIN heap : l[o].bytes = heap[o].bytes
  BY <1>2, <1>3, LinkSound
<1>8. Sound(a) /\ QuietBut(a, n) /\ n \in FreeNodes(a) \ {Sentinel} /\ UsedIn(a) = UsedIn(l)
  BY <1>2, <1>3, <1>4, MergeNextSound
<1>9. Sound(b) /\ Quiet(b) /\ UsedIn(b) = UsedIn(a)
  BY <1>5, <1>8, MergePrevSound
<1>10. PICK i : i = [start |-> n, count |-> heap[n].bytes]
  OBVIOUS
<1>11. i \in UsedIn(heap) /\ i.count = heap[n].bytes
  BY <1>2, <1>10 DEF UsedIn
<1>12. UsedIn(l) = UsedIn(heap) \ {i}
  <2>1. DOMAIN l \ FreeNodes(l) = (DOMAIN heap \ FreeNodes(heap)) \ {n}
    BY <1>7
  <2>2. UsedIn(l) = {[start |-> o, count |-> heap[o].bytes] :
                        o \in (DOMAIN heap \ FreeNodes(heap)) \ {n}}
    BY <1>7, <2>1 DEF UsedIn
  <2>3. \A o : [start |-> o, count |-> heap[o].bytes] = i => o = n
    BY <1>10
  <2> QED
    BY <1>10, <2>2, <2>3 DEF UsedIn
<1>13. UsedIn(heap)' = UsedIn(b)
  BY <1>6 DEF UsedIn, FreeNodes, IsFree
<1>14. UsedIn(heap)' = UsedIn(heap) \ {i} /\ freeBytes' = freeBytes + i.count
  BY <1>1, <1>8, <1>9, <1>11, <1>12, <1>13
<1>15. Sound(heap') /\ Quiet(heap')
  BY <1>6, <1>9
<1> QED
  BY <1>11, <1>14, <1>15

-----------------------------------------------------------------------------
(* The free bytes are counted.                                              *)

\* The addresses that no interval of U covers.
FreeCells(U) == {c \in Offsets : \A i \in U : c + 1 <= i.start \/ i.start + i.count <= c}

\* The intervals that lie in the heap.
Intervals == {i \in [start : Offsets, count : 1 .. HeapBytes] : i.start + i.count <= HeapBytes}

\* What is in use lies in the heap, and no two of it overlap.
LEMMA UsedApart ==
    ASSUME NEW h, Sound(h)
    PROVE  UsedIn(h) \subseteq Intervals /\ \A i, j \in UsedIn(h) : i = j \/ Separate(i, j)
<1>1. \A n \in DOMAIN h \ FreeNodes(h) : n \in DOMAIN h \ {Sentinel}
  BY RingFacts
<1>2. ASSUME NEW n \in DOMAIN h \ FreeNodes(h)
      PROVE  [start |-> n, count |-> h[n].bytes] \in Intervals
  <2>1. n \in Offsets /\ h[n].bytes \in 1 .. HeapBytes /\ n + h[n].bytes <= HeapBytes
    BY <1>1, NodesApart
  <2> QED
    BY <2>1 DEF Intervals
<1>3. ASSUME NEW n \in DOMAIN h \ FreeNodes(h), NEW o \in DOMAIN h \ FreeNodes(h), n # o
      PROVE  Separate([start |-> n, count |-> h[n].bytes], [start |-> o, count |-> h[o].bytes])
  <2>1. o + h[o].bytes <= n \/ n + h[n].bytes <= o
    BY <1>1, <1>3, NodesApart
  <2> QED
    BY <2>1 DEF Separate
<1> QED
  BY <1>2, <1>3 DEF UsedIn

LEMMA CellsFinite ==
    ASSUME NEW U
    PROVE  IsFiniteSet(FreeCells(U)) /\ Cardinality(FreeCells(U)) \in 0 .. HeapBytes
<1>1. HeapBytes \in Nat \ {0}
  BY HeapAssumption
<1>2. IsFiniteSet(Offsets) /\ Cardinality(Offsets) = HeapBytes
  BY <1>1, FS_Interval DEF Offsets
<1>3. FreeCells(U) \in SUBSET Offsets
  BY DEF FreeCells
<1>4. IsFiniteSet(FreeCells(U)) /\ Cardinality(FreeCells(U)) <= HeapBytes
  BY <1>2, <1>3, FS_Subset
<1> QED
  BY <1>1, <1>4, FS_CardinalityType

\* An interval that is apart from all others takes as many free bytes as it is long.
LEMMA CellsTaken ==
    ASSUME NEW U, NEW i, i \in Intervals, \A j \in U : j \in Intervals /\ Separate(i, j)
    PROVE  Cardinality(FreeCells(U \cup {i})) = Cardinality(FreeCells(U)) - i.count
<1>1. HeapBytes \in Nat \ {0}
  BY HeapAssumption
<1>2. PICK s, k : s = i.start /\ k = i.count
  OBVIOUS
<1>3. s \in Nat /\ k \in Nat /\ k > 0 /\ s + k <= HeapBytes
  BY <1>1, <1>2 DEF Intervals, Offsets
<1>4. PICK I : I = s .. s + k - 1
  OBVIOUS
<1>5. IsFiniteSet(I) /\ Cardinality(I) = k
  BY <1>3, <1>4, FS_Interval
<1>6. I \subseteq FreeCells(U)
  <2> SUFFICES ASSUME NEW c \in I, NEW j \in U
               PROVE  c \in Offsets /\ (c + 1 <= j.start \/ j.start + j.count <= c)
    BY <1>1, <1>3, <1>4 DEF FreeCells, Offsets
  <2>1. c \in Nat /\ s <= c /\ c < s + k
    BY <1>3, <1>4
  <2>2. j.start \in Nat /\ j.count \in Nat /\ (j.start + j.count <= s \/ s + k <= j.start)
    BY <1>1, <1>2 DEF Separate, Intervals, Offsets
  <2> QED
    BY <1>1, <1>3, <2>1, <2>2 DEF Offsets
<1>7. FreeCells(U \cup {i}) = FreeCells(U) \ I
  <2>1. \A c \in Offsets : (c + 1 <= s \/ s + k <= c) <=> c \notin I
    BY <1>1, <1>3, <1>4 DEF Offsets
  <2> QED
    BY <1>2, <2>1 DEF FreeCells
<1>8. FreeCells(U) \cap I = I
  BY <1>6
<1>9. IsFiniteSet(FreeCells(U))
  BY CellsFinite
<1>10. Cardinality(FreeCells(U) \ I) = Cardinality(FreeCells(U)) - Cardinality(I)
  BY <1>8, <1>9, FS_Difference
<1> QED
  BY <1>2, <1>5, <1>7, <1>10

\* And gives them back.
LEMMA CellsReturned ==
    ASSUME NEW U, U \subseteq Intervals, \A i, j \in U : i = j \/ Separate(i, j), NEW i \in U
    PROVE  Cardinality(FreeCells(U \ {i})) = Cardinality(FreeCells(U)) + i.count
<1>1. PICK W : W = U \ {i}
  OBVIOUS
<1>2. i \in Intervals /\ \A j \in W : j \in Intervals /\ Separate(i, j)
  BY <1>1
<1>3. Cardinality(FreeCells(W \cup {i})) = Cardinality(FreeCells(W)) - i.count
  BY <1>2, CellsTaken
<1>4. W \cup {i} = U
  BY <1>1
<1>5. Cardinality(FreeCells(W)) \in Nat /\ i.count \in Nat
  BY <1>2, CellsFinite, HeapAssumption DEF Intervals
<1> QED
  BY <1>1, <1>3, <1>4, <1>5

-----------------------------------------------------------------------------
(* The heap stays in order.                                                 *)

\* The rings are in order, no two free nodes touch, the free bytes are counted.
HeapOK == /\ Sound(heap) /\ Quiet(heap)
          /\ freeBytes = Cardinality(FreeCells(UsedIn(heap)))

LEMMA HeapInitOK == HeapInit => HeapOK
<1> SUFFICES ASSUME HeapInit
             PROVE  HeapOK
  OBVIOUS
<1>1. HeapBytes \in Nat \ {0} /\ NoNode \notin 0 .. HeapBytes
  BY HeapAssumption
<1>2. Sentinel = HeapBytes /\ Sentinel # 0 /\ DOMAIN heap = {0, Sentinel}
  BY <1>1 DEF HeapInit, Sentinel
<1>3. /\ heap[0] = [bytes |-> HeapBytes, next |-> Sentinel, prev |-> Sentinel,
                    nextFree |-> Sentinel, prevFree |-> Sentinel]
      /\ heap[Sentinel] = [bytes |-> 0, next |-> 0, prev |-> 0, nextFree |-> 0, prevFree |-> 0]
      /\ heap = [n \in {0, Sentinel} |-> heap[n]]
  BY <1>2 DEF HeapInit
<1>4. 0 \in Offsets /\ 0 \in Pointer /\ Sentinel \in Pointer
  BY <1>1 DEF Offsets, Pointer
<1>5. heap[0] \in HeapNode /\ heap[Sentinel] \in HeapNode
  BY <1>1, <1>3, <1>4 DEF HeapNode
<1>6. heap \in [DOMAIN heap -> HeapNode]
  BY <1>2, <1>3, <1>5
<1>7. FreeNodes(heap) = {0, Sentinel}
  BY <1>1, <1>2, <1>3 DEF FreeNodes, IsFree
<1>8. Tiled(heap)
  BY <1>1, <1>2, <1>3 DEF Tiled
<1>9. FreeInOrder(heap)
  BY <1>1, <1>2, <1>3, <1>7 DEF FreeInOrder
<1>10. Sound(heap)
  BY <1>2, <1>3, <1>4, <1>6, <1>7, <1>8, <1>9 DEF Sound
<1>11. Quiet(heap)
  BY <1>2, <1>3, <1>7 DEF Quiet
<1>12. UsedIn(heap) = {}
  BY <1>2, <1>7 DEF UsedIn
<1>13. Cardinality(FreeCells(UsedIn(heap))) = HeapBytes
  <2>1. FreeCells(UsedIn(heap)) = Offsets
    BY <1>12 DEF FreeCells
  <2>2. Cardinality(0 .. HeapBytes - 1) = HeapBytes
    BY <1>1, FS_Interval
  <2> QED
    BY <2>1, <2>2 DEF Offsets
<1> QED
  BY <1>10, <1>11, <1>13 DEF HeapOK, HeapInit

LEMMA HeapStepOK == HeapOK /\ [HeapNext]_heapVars => HeapOK'
<1> SUFFICES ASSUME HeapOK, [HeapNext]_heapVars
             PROVE  HeapOK'
  OBVIOUS
<1>1. /\ Sound(heap) /\ Quiet(heap) /\ freeBytes = Cardinality(FreeCells(UsedIn(heap)))
      /\ UsedIn(heap) \subseteq Intervals
      /\ \A i, j \in UsedIn(heap) : i = j \/ Separate(i, j)
  BY UsedApart DEF HeapOK
<1>2. ASSUME NEW bytes \in Sizes, NEW alignment \in Alignments, NEW specified \in BOOLEAN,
             NEW aligned \in BOOLEAN, NEW trimmed \in BOOLEAN,
             Allocate(bytes, alignment, specified, aligned, trimmed)
      PROVE  HeapOK'
  <2>1. /\ Sound(heap') /\ Quiet(heap')
        /\ \E i \in [start : Offsets, count : 1 .. HeapBytes] :
              /\ i.start + i.count <= HeapBytes
              /\ \A j \in UsedIn(heap) : Separate(i, j)
              /\ UsedIn(heap)' = UsedIn(heap) \cup {i}
              /\ freeBytes' = freeBytes - i.count
    BY <1>1, <1>2, AllocateEffect
  <2>2. PICK i \in Intervals :
              /\ \A j \in UsedIn(heap) : Separate(i, j)
              /\ UsedIn(heap)' = UsedIn(heap) \cup {i}
              /\ freeBytes' = freeBytes - i.count
    BY <2>1 DEF Intervals
  <2>3. PICK U : U = UsedIn(heap)
    OBVIOUS
  <2>4. Cardinality(FreeCells(U \cup {i})) = Cardinality(FreeCells(U)) - i.count
    BY <1>1, <2>2, <2>3, CellsTaken
  <2>5. UsedIn(heap') = U \cup {i}
    BY <2>2, <2>3 DEF UsedIn, FreeNodes, IsFree
  <2>6. freeBytes' = Cardinality(FreeCells(UsedIn(heap')))
    BY <1>1, <2>2, <2>3, <2>4, <2>5
  <2> QED
    BY <2>1, <2>6 DEF HeapOK
<1>3. CASE AllocateLinear
  BY <1>2, <1>3 DEF AllocateLinear
<1>4. CASE AllocateUnsplit
  BY <1>2, <1>4 DEF AllocateUnsplit
<1>5. CASE FreeNode
  <2>1. PICK i \in UsedIn(heap) :
              /\ Sound(heap') /\ Quiet(heap')
              /\ UsedIn(heap)' = UsedIn(heap) \ {i}
              /\ freeBytes' = freeBytes + i.count
    BY <1>1, <1>5, FreeEffect
  <2>2. PICK U : U = UsedIn(heap)
    OBVIOUS
  <2>3. Cardinality(FreeCells(U \ {i})) = Cardinality(FreeCells(U)) + i.count
    BY <1>1, <2>2, CellsReturned
  <2>4. UsedIn(heap') = U \ {i}
    BY <2>1, <2>2 DEF UsedIn, FreeNodes, IsFree
  <2>5. freeBytes' = Cardinality(FreeCells(UsedIn(heap')))
    BY <1>1, <2>1, <2>2, <2>3, <2>4
  <2> QED
    BY <2>1, <2>5 DEF HeapOK
<1>6. CASE UNCHANGED heapVars
  BY <1>1, <1>6 DEF HeapOK, heapVars
<1> QED
  BY <1>3, <1>4, <1>5, <1>6 DEF HeapNext

LEMMA HeapStaysOK == HeapSpec => []HeapOK
  BY HeapInitOK, HeapStepOK, PTL DEF HeapSpec

-----------------------------------------------------------------------------
(* The heap as an allocator of addresses.                                   *)

LEMMA AllocatedIsUsed ==
    ASSUME Sound(heap)
    PROVE  HeapAllocated = UsedIn(heap)
<1>1. {m \in HeapNodes : ~IsFree(heap, m)} = DOMAIN heap \ FreeNodes(heap)
  BY RingFacts DEF HeapNodes, FreeNodes
<1> QED
  BY <1>1 DEF HeapAllocated, UsedIn

\* HeapImplements (gckVIDMEM_AllocateLinear, gckVIDMEM_Free): a call takes an
\* interval that was free, all of it, or gives back one that was in use.
THEOREM HeapRefines == HeapSpec => HeapImplements
<1>1. HeapInit => HeapSpace!Init
  <2> SUFFICES ASSUME HeapInit
               PROVE  HeapSpace!Init
    OBVIOUS
  <2>1. Sound(heap) /\ HeapAllocated = UsedIn(heap)
    BY HeapInitOK, AllocatedIsUsed DEF HeapOK
  <2>2. DOMAIN heap = {0, Sentinel} /\ \A n \in DOMAIN heap : heap[n].nextFree \in {0, Sentinel}
    BY DEF HeapInit
  <2>3. NoNode \notin {0, Sentinel}
    BY HeapAssumption DEF Sentinel
  <2>4. UsedIn(heap) = {}
    BY <2>2, <2>3 DEF UsedIn, FreeNodes, IsFree
  <2> QED
    BY <2>1, <2>4 DEF HeapSpace!Init
<1>2. HeapOK /\ HeapOK' /\ [HeapNext]_heapVars => [HeapSpace!Next]_HeapAllocated
  <2> SUFFICES ASSUME HeapOK, HeapOK', [HeapNext]_heapVars
               PROVE  HeapSpace!Next \/ HeapAllocated' = HeapAllocated
    OBVIOUS
  <2>1. Sound(heap) /\ Quiet(heap) /\ HeapAllocated = UsedIn(heap)
    BY AllocatedIsUsed DEF HeapOK
  <2>2. HeapAllocated' = UsedIn(heap)'
    <3>1. HeapOK' => Sound(heap)'
      BY DEF HeapOK
    <3>2. (Sound(heap) => HeapAllocated = UsedIn(heap))'
      BY AllocatedIsUsed, PTL
    <3> QED
      BY <3>1, <3>2
  <2>3. UsedIn(heap) \subseteq Intervals
    BY <2>1, UsedApart
  <2>4. ASSUME NEW bytes \in Sizes, NEW alignment \in Alignments, NEW specified \in BOOLEAN,
               NEW aligned \in BOOLEAN, NEW trimmed \in BOOLEAN,
               Allocate(bytes, alignment, specified, aligned, trimmed)
        PROVE  HeapSpace!Allocate
    <3>1. PICK i \in [start : Offsets, count : 1 .. HeapBytes] :
              /\ i.start + i.count <= HeapBytes
              /\ \A j \in UsedIn(heap) : Separate(i, j)
              /\ UsedIn(heap)' = UsedIn(heap) \cup {i}
      BY <2>1, <2>4, AllocateEffect
    <3>2. i \in HeapSpace!Interval /\ HeapSpace!Fits(i)
      BY <3>1 DEF HeapSpace!Interval, HeapSpace!Fits, Offsets
    <3>3. ASSUME NEW j \in UsedIn(heap)
          PROVE  HeapSpace!Cells(i) \cap HeapSpace!Cells(j) = {}
      <4>1. /\ i.start \in Nat /\ i.count \in Nat /\ j.start \in Nat /\ j.count \in Nat
            /\ j.start + j.count <= i.start \/ i.start + i.count <= j.start
        BY <2>3, <3>1, HeapAssumption DEF Separate, Intervals, Offsets
      <4> QED
        BY <4>1 DEF HeapSpace!Cells
    <3>4. HeapAllocated' = HeapAllocated \cup {i}
      BY <2>1, <2>2, <3>1
    <3> QED
      BY <2>1, <3>2, <3>3, <3>4 DEF HeapSpace!Allocate
  <2>5. CASE AllocateLinear
    BY <2>4, <2>5 DEF AllocateLinear, HeapSpace!Next
  <2>6. CASE AllocateUnsplit
    BY <2>4, <2>6 DEF AllocateUnsplit, HeapSpace!Next
  <2>7. CASE FreeNode
    <3>1. PICK i \in UsedIn(heap) : UsedIn(heap)' = UsedIn(heap) \ {i}
      BY <2>1, <2>7, FreeEffect
    <3>2. HeapSpace!Free
      BY <2>1, <2>2, <3>1 DEF HeapSpace!Free
    <3> QED
      BY <3>2 DEF HeapSpace!Next
  <2>8. CASE UNCHANGED heapVars
    <3>1. UsedIn(heap)' = UsedIn(heap)
      BY <2>8 DEF heapVars, UsedIn, FreeNodes, IsFree
    <3> QED
      BY <2>1, <2>2, <3>1
  <2> QED
    BY <2>5, <2>6, <2>7, <2>8 DEF HeapNext
<1> QED
  BY <1>1, <1>2, HeapStaysOK, PTL DEF HeapSpec, HeapImplements, HeapSpace!Spec

(* No byte of the heap is in use twice, and none lies outside it, in        *)
(* whatever order gckVIDMEM_AllocateLinear and gckVIDMEM_Free are called.   *)
THEOREM HeapNeverShares == HeapSpec => []HeapSpace!Disjoint
<1>1. HeapOK => HeapSpace!Disjoint
  <2> SUFFICES ASSUME HeapOK PROVE HeapSpace!Disjoint
    OBVIOUS
  <2>1. Sound(heap) /\ HeapAllocated = UsedIn(heap)
    BY AllocatedIsUsed DEF HeapOK
  <2>2. UsedIn(heap) \subseteq Intervals /\ \A i, j \in UsedIn(heap) : i = j \/ Separate(i, j)
    BY <2>1, UsedApart
  <2>3. \A i \in HeapAllocated : i \in HeapSpace!Interval /\ HeapSpace!Fits(i)
    BY <2>1, <2>2 DEF Intervals, Offsets, HeapSpace!Interval, HeapSpace!Fits
  <2>4. ASSUME NEW i \in HeapAllocated, NEW j \in HeapAllocated, i # j
        PROVE  HeapSpace!Cells(i) \cap HeapSpace!Cells(j) = {}
    <3>1. /\ i.start \in Nat /\ i.count \in Nat /\ j.start \in Nat /\ j.count \in Nat
      BY <2>1, <2>2, HeapAssumption DEF Intervals, Offsets
    <3>2. i.start + i.count <= j.start \/ j.start + j.count <= i.start
      BY <2>1, <2>2, <2>4 DEF Separate
    <3> QED
      BY <3>1, <3>2 DEF HeapSpace!Cells
  <2> QED
    BY <2>3, <2>4 DEF HeapSpace!Disjoint
<1> QED
  BY <1>1, HeapStaysOK, PTL

-----------------------------------------------------------------------------
(* Both rings, and the search.                                              *)

\* HeapRings (gckVIDMEM_AllocateLinear, gckVIDMEM_Free): after every call the two
\* rings agree with the addresses, and the counter with what is free.
THEOREM HeapInOrder == HeapSpec => []HeapRings
<1>1. HeapOK => HeapRings
  <2> SUFFICES ASSUME HeapOK
               PROVE  HeapRings
    OBVIOUS
  <2>1. /\ Sound(heap) /\ Quiet(heap) /\ HeapAllocated = UsedIn(heap)
        /\ freeBytes = Cardinality(FreeCells(UsedIn(heap)))
    BY AllocatedIsUsed DEF HeapOK
  <2>2. PICK free, way, z : /\ free = FreeNodes(heap) \ {Sentinel}
                             /\ way = FreeRing(heap) /\ z = RingSize(heap)
    OBVIOUS
  <2>3. {n \in HeapNodes : IsFree(heap, n)} = free
    BY <2>2 DEF HeapNodes, FreeNodes
  <2>4. /\ z \in Nat /\ DOMAIN way = 1 .. z
        /\ \A k \in 1 .. z : way[k] \in free
        /\ \A k, l \in 1 .. z : k < l => way[k] < way[l]
        /\ \A n \in free : \E k \in 1 .. z : way[k] = n
    BY <2>1, <2>2, RingComplete
  <2>5. {way[k] : k \in DOMAIN way} = free
    BY <2>4
  <2>6. /\ heap[Sentinel].next = 0 /\ 0 \in DOMAIN heap /\ Sentinel \in DOMAIN heap
        /\ \A n \in DOMAIN heap \ {Sentinel} : heap[n].next = n + heap[n].bytes
        /\ \A n \in DOMAIN heap : heap[heap[n].next].prev = n
    BY <2>1 DEF Sound, Tiled, FreeNodes
  <2>7. \A n \in free : heap[heap[n].nextFree].prevFree = n /\ heap[n].next \notin free
    BY <2>1, <2>2, RingFacts DEF Quiet
  <2>8. {n \in Offsets : FreeBytesAt(n, 1)} = FreeCells(UsedIn(heap))
    BY <2>1 DEF FreeBytesAt, FreeCells
  <2>9. \A n \in HeapNodes :
            /\ heap[n].next = n + heap[n].bytes
            /\ heap[heap[n].next].prev = n
            /\ n \in free => heap[heap[n].nextFree].prevFree = n
            /\ n \in free => heap[n].next \notin free
    BY <2>6, <2>7 DEF HeapNodes
  <2>10. heap[Sentinel].next = 0 /\ heap[0].prev = Sentinel
    BY <2>6
  <2>11. \A k, l \in DOMAIN way : k < l => way[k] < way[l]
    BY <2>4
  <2>12. freeBytes = Cardinality({n \in Offsets : FreeBytesAt(n, 1)})
    BY <2>1, <2>8
  <2> QED
    BY <2>2, <2>3, <2>5, <2>9, <2>10, <2>11, <2>12 DEF HeapRings
<1> QED
  BY <1>1, HeapStaysOK, PTL

\* Every address lies in a node.
LEMMA NodeAround ==
    ASSUME NEW h, Sound(h), NEW c \in Offsets
    PROVE  \E o \in DOMAIN h \ {Sentinel} : o <= c /\ c < h[o].next
<1>1. /\ DOMAIN h \subseteq 0 .. HeapBytes /\ HeapBytes \in Nat \ {0} /\ Sentinel = HeapBytes
  BY NodeTypes
<1>2. c \in Nat /\ c < HeapBytes
  BY <1>1 DEF Offsets
<1>3. PICK T : T = {d \in Nat : \E o \in DOMAIN h \ {Sentinel} : d = c - o}
  OBVIOUS
<1>4. c \in T
  <2>1. 0 \in DOMAIN h \ {Sentinel} /\ c = c - 0
    BY <1>1, <1>2 DEF Sound
  <2> QED
    BY <1>2, <1>3, <2>1
<1>5. PICK d \in T : \A e \in T : d <= e
  <2>1. T \in SUBSET Nat /\ T # {}
    BY <1>3, <1>4
  <2> QED
    BY <2>1, Least
<1>6. PICK o \in DOMAIN h \ {Sentinel} : d = c - o
  BY <1>3
<1>7. d \in Nat /\ o \in Nat /\ o <= c
  BY <1>1, <1>2, <1>3, <1>6
<1>8. PICK x : x = h[o].next
  OBVIOUS
<1>9. x \in DOMAIN h /\ x \in Nat /\ o < x
  <2>1. x \in DOMAIN h /\ x = o + h[o].bytes /\ h[o].bytes > 0 /\ h[o].bytes \in Nat
    BY <1>8, NodeTypes DEF Sound, Tiled
  <2> QED
    BY <1>7, <2>1
<1>10. c < x
  <2>1. CASE x = Sentinel
    BY <1>1, <1>2, <2>1
  <2>2. CASE x # Sentinel
    <3>1. CASE x <= c
      <4>1. PICK e \in Nat : e = c - x
        BY <1>2, <1>9, <3>1
      <4>2. e \in T
        BY <1>3, <1>9, <2>2, <4>1
      <4> QED
        BY <1>2, <1>5, <1>6, <1>7, <1>9, <4>1, <4>2
    <3> QED
      BY <1>2, <1>9, <3>1
  <2> QED
    BY <2>1, <2>2
<1> QED
  BY <1>6, <1>7, <1>8, <1>10

\* A run of free bytes lies in one free node.
LEMMA RunInNode ==
    ASSUME NEW h, Sound(h), Quiet(h), NEW n \in Nat, NEW b \in Nat \ {0}, n + b <= HeapBytes,
           \A i \in UsedIn(h) : n + b <= i.start \/ i.start + i.count <= n
    PROVE  \E o \in FreeNodes(h) \ {Sentinel} : o <= n /\ n + b <= o + h[o].bytes
<1>1. /\ DOMAIN h \subseteq 0 .. HeapBytes /\ HeapBytes \in Nat \ {0} /\ Sentinel = HeapBytes
      /\ \A m \in DOMAIN h : h[m].bytes \in Nat
  BY NodeTypes
<1>2. \A m \in DOMAIN h \ {Sentinel} : /\ h[m].next = m + h[m].bytes /\ h[m].bytes > 0
                                       /\ h[m].next \in DOMAIN h
  BY DEF Sound, Tiled
<1>3. \A m \in DOMAIN h \ FreeNodes(h) : n + b <= m \/ m + h[m].bytes <= n
  <2> TAKE m \in DOMAIN h \ FreeNodes(h)
  <2>1. PICK i : i = [start |-> m, count |-> h[m].bytes]
    OBVIOUS
  <2>2. i \in UsedIn(h) /\ i.start = m /\ i.count = h[m].bytes
    BY <2>1 DEF UsedIn
  <2> QED
    BY <2>2
<1>4. n \in Offsets
  BY <1>1 DEF Offsets
<1>5. PICK o \in DOMAIN h \ {Sentinel} : o <= n /\ n < h[o].next
  BY <1>4, NodeAround
<1>6. PICK x \in DOMAIN h : x = h[o].next
  BY <1>2
<1>7. o \in Nat /\ x \in Nat /\ x = o + h[o].bytes
  BY <1>1, <1>2, <1>6
<1>8. o \in FreeNodes(h)
  <2>1. CASE o \notin FreeNodes(h)
    <3>1. n + b <= o \/ x <= n
      BY <1>3, <1>7, <2>1
    <3> QED
      BY <1>5, <1>6, <1>7, <3>1
  <2> QED
    BY <2>1
<1>9. n + b <= x
  <2>1. CASE x = Sentinel
    BY <1>1, <2>1
  <2>2. CASE x # Sentinel
    <3>1. x \notin FreeNodes(h)
      BY <1>5, <1>6, <1>8, <2>2 DEF Quiet
    <3>2. (n + b <= x \/ x + h[x].bytes <= n) /\ h[x].bytes \in Nat
      BY <1>1, <1>3, <3>1
    <3> QED
      BY <1>5, <1>6, <1>7, <3>2
  <2> QED
    BY <2>1, <2>2
<1> QED
  BY <1>5, <1>7, <1>8, <1>9

\* HeapFindsSpace (_FindNode): however the heap came to be cut up, a request
\* that finds no node is one that no aligned run of free bytes could serve.
THEOREM HeapFinds == HeapSpec => []HeapFindsSpace
<1>1. HeapOK => HeapFindsSpace
  <2> SUFFICES ASSUME HeapOK, NEW bytes \in Sizes, NEW alignment \in Alignments,
                      FindNode(heap, bytes, alignment) = NoNode,
                      NEW n \in 0 .. HeapBytes - bytes, n % alignment = 0,
                      FreeBytesAt(n, bytes)
               PROVE  FALSE
    BY DEF HeapFindsSpace
  <2>1. Sound(heap) /\ Quiet(heap) /\ HeapAllocated = UsedIn(heap)
    BY AllocatedIsUsed DEF HeapOK
  <2>2. /\ HeapBytes \in Nat \ {0} /\ bytes \in Nat \ {0} /\ alignment \in Nat \ {0}
        /\ n \in Nat /\ n + bytes <= HeapBytes
    BY HeapAssumption
  <2>3. \A i \in UsedIn(heap) : n + bytes <= i.start \/ i.start + i.count <= n
    BY <2>1 DEF FreeBytesAt
  <2>4. PICK o \in FreeNodes(heap) \ {Sentinel} : o <= n /\ n + bytes <= o + heap[o].bytes
    BY <2>1, <2>2, <2>3, RunInNode
  <2>5. o \in Nat /\ heap[o].bytes \in Nat
    BY <2>1, NodeTypes, RingFacts
  <2>6. n >= o + Skip(o, alignment) /\ Skip(o, alignment) \in Nat
    BY <2>2, <2>4, <2>5, AlignedBehind, SkipType
  <2>7. heap[o].bytes >= bytes + Skip(o, alignment)
    BY <2>2, <2>4, <2>5, <2>6
  <2>8. ~(heap[o].bytes >= bytes + Skip(o, alignment))
    BY <2>1, <2>4, FindNodeEffect
  <2> QED
    BY <2>7, <2>8
<1> QED
  BY <1>1, HeapStaysOK, PTL

-----------------------------------------------------------------------------
(* The area: free nodes, pages in use, and the list.                        *)

\* What the words of a map say of a free node.
PagesOf(m, n) == IF m[n].type = "SINGLE" THEN 1 ELSE m[n].value
NextOf(m, n) == IF m[n].type = "SINGLE" THEN m[n].value ELSE m[n + 1].value
IsNode(m, n) == \/ m[n].type = "SINGLE"
                \/ m[n].type = "FREE" /\ m[n].value \in 2 .. Pages /\ n + m[n].value <= Pages

\* The free nodes N are apart from each other and from the pages U in use.
Nodes(m, N, U) ==
    /\ m \in [Indices -> Words] /\ N \subseteq Indices /\ U \subseteq Indices
    /\ \A n \in N : IsNode(m, n)
    /\ \A n \in N, i \in U : i < n \/ n + PagesOf(m, n) <= i
    /\ \A n, k \in N : n = k \/ n + PagesOf(m, n) <= k \/ k + PagesOf(m, k) <= n
    /\ \A i \in U : m[i].type = "USED"

\* Every page before page e is in use or belongs to a node of N.
Covered(m, N, U, e) ==
    \A i \in Indices : i < e => i \in U \/ \E n \in N : n <= i /\ i < n + PagesOf(m, n)

\* The list that begins at h is L, in address order.
Listed(m, h, L) ==
    /\ h \in L \cup {Ones} /\ \A n \in L : h <= n
    /\ \A n \in L : /\ NextOf(m, n) \in L \cup {Ones} /\ n < NextOf(m, n)
                    /\ \A k \in L : k <= n \/ NextOf(m, n) <= k

\* No node ends where another one begins.
Maximal(m, N) == \A n \in N : n + PagesOf(m, n) \notin N

LEMMA AreaNumbers ==
    /\ Pages \in Nat /\ Pages > 1 /\ Ones = Pages + 1 /\ Indices = 0 .. Pages - 1
    /\ \A n \in Indices : n \in Nat /\ n < Pages
  BY PagesAssumption DEF Ones, Indices

LEMMA NodePagesType ==
    ASSUME NEW m \in [Indices -> Words], NEW n \in Indices, IsNode(m, n)
    PROVE  /\ PagesOf(m, n) \in 1 .. Pages /\ n + PagesOf(m, n) <= Pages
           /\ m[n].type # "USED"
           /\ m[n].type = "SINGLE" => PagesOf(m, n) = 1
           /\ m[n].type # "SINGLE" => PagesOf(m, n) >= 2 /\ n + 1 \in Indices
  BY AreaNumbers DEF IsNode, PagesOf

\* What Nodes says of its nodes and pages.
LEMMA NodeApart ==
    ASSUME NEW m, NEW N, NEW U, Nodes(m, N, U)
    PROVE  /\ m \in [Indices -> Words] /\ N \subseteq Indices /\ U \subseteq Indices
           /\ \A k \in N : /\ IsNode(m, k) /\ k \in Nat /\ PagesOf(m, k) \in Nat
                           /\ PagesOf(m, k) > 0 /\ k + PagesOf(m, k) <= Pages
           /\ \A k \in N, i \in U : i < k \/ k + PagesOf(m, k) <= i
           /\ \A k, o \in N : k = o \/ k + PagesOf(m, k) <= o \/ o + PagesOf(m, o) <= k
           /\ \A i \in U : i \in Nat /\ m[i].type = "USED"
<1>1. /\ m \in [Indices -> Words] /\ N \subseteq Indices /\ U \subseteq Indices
      /\ \A k \in N : IsNode(m, k)
      /\ \A k \in N, i \in U : i < k \/ k + PagesOf(m, k) <= i
      /\ \A k, o \in N : k = o \/ k + PagesOf(m, k) <= o \/ o + PagesOf(m, o) <= k
      /\ \A i \in U : m[i].type = "USED"
  BY DEF Nodes
<1>2. \A k \in N : /\ k \in Nat /\ PagesOf(m, k) \in Nat
                  /\ PagesOf(m, k) > 0 /\ k + PagesOf(m, k) <= Pages
  <2> TAKE k \in N
  <2>1. k \in Indices /\ IsNode(m, k)
    BY <1>1
  <2>2. PagesOf(m, k) \in 1 .. Pages /\ k + PagesOf(m, k) <= Pages
    BY <1>1, <2>1, NodePagesType
  <2> QED
    BY <2>1, <2>2, AreaNumbers
<1>3. \A i \in U : i \in Nat
  BY <1>1, AreaNumbers
<1> QED
  BY <1>1, <1>2, <1>3

\* _Link: the word it writes.
LEMMA LinkEffect ==
    ASSUME NEW m, NEW h, NEW index, NEW next, NEW r,
           r = Link([map |-> m, heapList |-> h], index, next)
    PROVE  /\ index >= Pages => r = [map |-> m, heapList |-> next]
           /\ ~(index >= Pages) /\ m[index].type = "SINGLE"
              => r = [map |-> [m EXCEPT ![index] = Word("SINGLE", next)], heapList |-> h]
           /\ ~(index >= Pages) /\ m[index].type # "SINGLE"
              => r = [map |-> [m EXCEPT ![index + 1] = Word("LINK", next)], heapList |-> h]
<1>1. PICK area : area = [map |-> m, heapList |-> h]
  OBVIOUS
<1>2. area.map = m /\ area.heapList = h
  BY <1>1
<1>3. /\ [area EXCEPT !.heapList = next] = [map |-> m, heapList |-> next]
      /\ [area EXCEPT !.map[index] = Word("SINGLE", next)] =
            [map |-> [m EXCEPT ![index] = Word("SINGLE", next)], heapList |-> h]
      /\ [area EXCEPT !.map[index + 1] = Word("LINK", next)] =
            [map |-> [m EXCEPT ![index + 1] = Word("LINK", next)], heapList |-> h]
  BY <1>1, <1>2
<1>4. r = Link(area, index, next)
  BY <1>1
<1> QED
  BY <1>2, <1>3, <1>4 DEF Link

-----------------------------------------------------------------------------
(* The walk along the list.                                                 *)

\* The walk that FreeList takes, and how far it gets.
Hops(area) == CHOOSE f : f = [k \in 0 .. Pages |->
                 IF k = 0 THEN area.heapList
                 ELSE IF f[k - 1] >= Pages THEN Ones ELSE NextNode(area, f[k - 1])]
ListSize(area) == Cardinality({k \in 0 .. Pages : Hops(area)[k] < Pages})

LEMMA ListIsHops ==
    ASSUME NEW area
    PROVE  FreeList(area) = [k \in 1 .. ListSize(area) |-> Hops(area)[k - 1]]
  BY Zenon DEF FreeList, Hops, ListSize

LEMMA HopsFacts ==
    ASSUME NEW m, NEW h, NEW L \in SUBSET Indices, Listed(m, h, L), NEW area,
           area.map = m, area.heapList = h, NEW f, f = Hops(area)
    PROVE  /\ f \in [0 .. Pages -> L \cup {Ones}] /\ f[0] = h
           /\ \A j \in 1 .. Pages :
                 f[j] = IF f[j - 1] = Ones THEN Ones ELSE NextOf(m, f[j - 1])
<1>1. Pages \in Nat /\ Ones \in Nat /\ Ones >= Pages /\ \A n \in L : ~(n >= Pages) /\ n # Ones
  BY AreaNumbers
<1>2. PICK S, g : /\ S = L \cup {Ones}
                  /\ g = [n \in S |-> IF n = Ones THEN Ones ELSE NextOf(m, n)]
  OBVIOUS
<1>3. h \in S /\ \A n \in L : NextOf(m, n) \in S
  BY <1>2 DEF Listed
<1>4. g \in [S -> S]
  BY <1>2, <1>3
<1>5. PICK e \in [0 .. Pages -> S] : e[0] = h /\ \A j \in 1 .. Pages : e[j] = g[e[j - 1]]
  <2>1. \E e : IsWalk(e, S, h, g, Pages)
    BY <1>1, <1>3, <1>4, WalksExist
  <2> QED
    BY <2>1 DEF IsWalk
<1>6. \A n \in S : g[n] = IF n >= Pages THEN Ones ELSE NextNode(area, n)
  BY <1>1, <1>2 DEF NextNode, NextOf
<1>7. e = [k \in 0 .. Pages |->
             IF k = 0 THEN area.heapList
             ELSE IF e[k - 1] >= Pages THEN Ones ELSE NextNode(area, e[k - 1])]
  <2>1. \A k \in 0 .. Pages : k = 0 \/ (k \in 1 .. Pages /\ k - 1 \in 0 .. Pages)
    BY <1>1
  <2>2. \A k \in 0 .. Pages :
           e[k] = IF k = 0 THEN area.heapList
                  ELSE IF e[k - 1] >= Pages THEN Ones ELSE NextNode(area, e[k - 1])
    BY <1>5, <1>6, <2>1
  <2> QED
    BY <1>5, <2>2
<1>8. f = [k \in 0 .. Pages |->
             IF k = 0 THEN area.heapList
             ELSE IF f[k - 1] >= Pages THEN Ones ELSE NextNode(area, f[k - 1])]
  BY <1>7, Zenon DEF Hops
<1>9. /\ f[0] = h
      /\ \A j \in 1 .. Pages :
            f[j] = IF f[j - 1] >= Pages THEN Ones ELSE NextNode(area, f[j - 1])
  <2>1. 0 \in 0 .. Pages /\ \A j \in 1 .. Pages : j \in 0 .. Pages /\ j # 0
    BY <1>1
  <2> QED
    BY <1>8, <2>1
<1>10. \A k \in 0 .. Pages : f[k] \in S
  <2>1. f[0] \in S /\ \A j \in 1 .. Pages : f[j - 1] \in S => f[j] \in S
    BY <1>3, <1>4, <1>6, <1>9
  <2> QED
    BY <1>1, <2>1, WalkStays
<1>11. \A j \in 1 .. Pages : j - 1 \in 0 .. Pages
  BY <1>1
<1>12. \A j \in 1 .. Pages : f[j] = IF f[j - 1] = Ones THEN Ones ELSE NextOf(m, f[j - 1])
  BY <1>2, <1>6, <1>9, <1>10, <1>11
<1> QED
  BY <1>2, <1>8, <1>9, <1>10, <1>12

\* The list has every node of L, in address order.
ListOf(m, h, L, list) ==
    \E z \in Nat :
        /\ DOMAIN list = 1 .. z
        /\ \A k \in 1 .. z : list[k] \in L
        /\ \A k, l \in 1 .. z : k < l => list[k] < list[l]
        /\ \A n \in L : \E k \in 1 .. z : list[k] = n
        /\ \A k \in 1 .. z : IF k = 1 THEN list[k] = h ELSE list[k] = NextOf(m, list[k - 1])

LEMMA ListComplete ==
    ASSUME NEW m, NEW h, NEW L \in SUBSET Indices, Listed(m, h, L), NEW area,
           area.map = m, area.heapList = h
    PROVE  ListOf(m, h, L, FreeList(area))
<1>1. PICK f, S : f = Hops(area) /\ S = L \cup {Ones}
  OBVIOUS
<1>2. /\ f \in [0 .. Pages -> S] /\ f[0] = h
      /\ \A j \in 1 .. Pages :
            f[j] = IF f[j - 1] = Ones THEN Ones ELSE NextOf(m, f[j - 1])
  BY <1>1, HopsFacts
<1>3. /\ S \in SUBSET Nat /\ Pages \in Nat /\ Ones \in S /\ Ones >= Pages
      /\ \A o \in S : o < Pages \/ o = Ones
      /\ \A n \in L : n \in Nat /\ n < Pages /\ n # Ones
  BY <1>1, AreaNumbers
<1>4. \A q \in S : f[0] <= q
  BY <1>1, <1>2, <1>3, AreaNumbers DEF Listed
<1>5. \A j \in 1 .. Pages : f[j - 1] # Ones =>
          f[j - 1] < f[j] /\ \A q \in S : q <= f[j - 1] \/ f[j] <= q
  <2>1. \A n \in L : /\ NextOf(m, n) \in S /\ n < NextOf(m, n)
                     /\ \A q \in S : q <= n \/ NextOf(m, n) <= q
    <3> TAKE n \in L
    <3>1. PICK x : x = NextOf(m, n)
      OBVIOUS
    <3>2. x \in S /\ n < x /\ \A k \in L : k <= n \/ x <= k
      BY <1>1, <3>1 DEF Listed
    <3>3. x <= Ones
      BY <1>1, <1>3, <3>2, AreaNumbers
    <3> QED
      BY <1>1, <3>1, <3>2, <3>3
  <2>2. \A j \in 1 .. Pages : j - 1 \in 0 .. Pages
    BY <1>3
  <2> QED
    BY <1>1, <1>2, <2>1, <2>2
<1>6. PICK z \in 0 .. Pages :
               /\ f[z] = Ones
               /\ \A k \in 0 .. z - 1 : f[k] \in S \ {Ones}
               /\ \A j, k \in 0 .. z : j < k => f[j] < f[k]
               /\ \A q \in S \ {Ones} : \E j \in 0 .. z - 1 : f[j] = q
  <2>1. \E z \in 0 .. Pages : MeetsAll(f, S, Ones, z)
    BY <1>2, <1>3, <1>4, <1>5, WalkMeetsAll
  <2> QED
    BY <2>1 DEF MeetsAll
<1>7. \A k \in z .. Pages : f[k] = Ones
  <2>1. PICK T : T = {k \in z .. Pages : f[k] # Ones}
    OBVIOUS
  <2>2. SUFFICES ASSUME T # {} PROVE FALSE
    BY <2>1
  <2>3. T \in SUBSET Nat
    BY <1>3, <1>6, <2>1
  <2>4. PICK k \in T : \A j \in T : k <= j
    BY <2>2, <2>3, Least
  <2>5. k \in z .. Pages /\ f[k] # Ones /\ k # z
    BY <1>6, <2>1, <2>4
  <2>6. k - 1 \in z .. Pages /\ k - 1 \notin T /\ k \in 1 .. Pages
    BY <1>3, <1>6, <2>3, <2>4, <2>5
  <2> QED
    BY <1>2, <2>1, <2>5, <2>6
<1>8. ListSize(area) = z
  <2>1. {k \in 0 .. Pages : f[k] < Pages} = 0 .. z - 1
    <3>1. \A k \in 0 .. z - 1 : k \in 0 .. Pages /\ f[k] < Pages
      <4>1. \A k \in 0 .. z - 1 : k \in 0 .. Pages
        BY <1>3, <1>6
      <4>2. \A k \in 0 .. z - 1 : f[k] \in S /\ f[k] # Ones
        BY <1>6
      <4> QED
        BY <1>3, <4>1, <4>2
    <3>2. \A k \in 0 .. Pages : k \in 0 .. z - 1 \/ k \in z .. Pages
      BY <1>3, <1>6
    <3>3. ~(Ones < Pages)
      BY AreaNumbers
    <3> QED
      BY <1>7, <3>1, <3>2, <3>3
  <2>2. Cardinality(0 .. z - 1) = z
    BY <1>3, <1>6, FS_Interval
  <2> QED
    BY <1>1, <2>1, <2>2 DEF ListSize
<1>9. PICK list : list = FreeList(area)
  OBVIOUS
<1>10. list = [k \in 1 .. z |-> f[k - 1]]
  BY <1>1, <1>8, <1>9, ListIsHops
<1>11. \A k \in 1 .. z : /\ list[k] = f[k - 1] /\ k - 1 \in 0 .. z - 1 /\ k - 1 \in 0 .. z
                         /\ k # 1 => /\ k - 1 \in 1 .. z /\ k - 1 \in 1 .. Pages
                                     /\ k - 2 \in 0 .. z - 1
  BY <1>3, <1>6, <1>10
<1>12. \A k \in 1 .. z : list[k] \in L
  BY <1>1, <1>6, <1>11
<1>13. ASSUME NEW k \in 1 .. z, NEW l \in 1 .. z, k < l PROVE list[k] < list[l]
  <2>1. k - 1 < l - 1
    BY <1>3, <1>6, <1>13
  <2> QED
    BY <1>6, <1>11, <2>1
<1>14. ASSUME NEW n \in L PROVE \E k \in 1 .. z : list[k] = n
  <2>1. PICK j \in 0 .. z - 1 : f[j] = n
    BY <1>1, <1>3, <1>6
  <2>2. j + 1 \in 1 .. z /\ (j + 1) - 1 = j
    BY <1>3, <1>6
  <2> QED
    BY <1>11, <2>1, <2>2
<1>15. ASSUME NEW k \in 1 .. z
       PROVE  IF k = 1 THEN list[k] = h ELSE list[k] = NextOf(m, list[k - 1])
  <2>1. CASE k = 1
    BY <1>2, <1>11, <2>1
  <2>2. CASE k # 1
    <3>1. list[k] = f[k - 1] /\ list[k - 1] = f[(k - 1) - 1] /\ k - 1 \in 1 .. Pages
      BY <1>11, <2>2
    <3>2. f[(k - 1) - 1] # Ones
      <4>1. (k - 1) - 1 \in 0 .. z - 1
        BY <1>11, <2>2
      <4> QED
        BY <1>6, <4>1
    <3> QED
      BY <1>2, <2>2, <3>1, <3>2
  <2> QED
    BY <2>1, <2>2
<1>16. z \in Nat /\ DOMAIN list = 1 .. z
  BY <1>3, <1>6, <1>10
<1> QED
  BY <1>9, <1>12, <1>13, <1>14, <1>15, <1>16 DEF ListOf

-----------------------------------------------------------------------------
(* Pages are taken.                                                         *)

\* Map m1 has word v at w, in node x, and is m otherwise.
WordWritten(m, N, x, w, v, m1) ==
    /\ m1 \in [Indices -> Words] /\ m1[w] = v
    /\ \A i \in Indices : i # w => m1[i] = m[i]
    /\ \A k \in N : k # x => /\ m1[k] = m[k] /\ PagesOf(m1, k) = PagesOf(m, k)
                             /\ NextOf(m1, k) = NextOf(m, k)
    /\ \A i \in Indices : i < x \/ i >= x + PagesOf(m, x) => m1[i] = m[i]

\* Writing a word inside a node leaves all other nodes alone.
LEMMA WordInNode ==
    ASSUME NEW m, NEW N, NEW U, Nodes(m, N, U), NEW x \in N, NEW w \in Indices,
           x <= w, w < x + PagesOf(m, x), NEW v \in Words, NEW m1, m1 = [m EXCEPT ![w] = v]
    PROVE  WordWritten(m, N, x, w, v, m1)
<1>1. /\ m \in [Indices -> Words] /\ N \subseteq Indices
      /\ \A n \in N : IsNode(m, n)
      /\ \A n, k \in N : n = k \/ n + PagesOf(m, n) <= k \/ k + PagesOf(m, k) <= n
  BY DEF Nodes
<1>2. /\ m1 \in [Indices -> Words] /\ m1[w] = v
      /\ \A i \in Indices : i # w => m1[i] = m[i]
  BY <1>1
<1>3. \A n \in N : /\ n \in Indices /\ PagesOf(m, n) \in 1 .. Pages
                   /\ m[n].type # "SINGLE" => PagesOf(m, n) >= 2 /\ n + 1 \in Indices
  BY <1>1, NodePagesType
<1>4. ASSUME NEW k \in N, k # x
      PROVE  /\ m1[k] = m[k] /\ PagesOf(m1, k) = PagesOf(m, k) /\ NextOf(m1, k) = NextOf(m, k)
  <2>1. /\ k \in Nat /\ x \in Nat /\ w \in Nat /\ PagesOf(m, k) \in Nat /\ PagesOf(m, x) \in Nat
        /\ PagesOf(m, k) >= 1
        /\ k + PagesOf(m, k) <= x \/ x + PagesOf(m, x) <= k
    BY <1>1, <1>3, <1>4, AreaNumbers
  <2>2. w < k \/ k + PagesOf(m, k) <= w
    BY <2>1
  <2>3. m1[k] = m[k]
    BY <1>2, <1>3, <2>1, <2>2
  <2>4. m[k].type # "SINGLE" => m1[k + 1] = m[k + 1]
    BY <1>2, <1>3, <2>1, <2>2
  <2> QED
    BY <2>3, <2>4 DEF PagesOf, NextOf
<1>5. ASSUME NEW i \in Indices, i < x \/ i >= x + PagesOf(m, x)
      PROVE  m1[i] = m[i]
  <2>1. x \in Nat /\ w \in Nat /\ i \in Nat /\ PagesOf(m, x) \in Nat
    BY <1>3, AreaNumbers
  <2> QED
    BY <1>2, <1>5, <2>1
<1> QED
  BY <1>2, <1>4, <1>5 DEF WordWritten

\* _Link writes the link of node x.
Linked(m, N, x, y, m1) ==
    /\ m1 \in [Indices -> Words]
    /\ \A k \in N : /\ m1[k].type = m[k].type /\ IsNode(m1, k) /\ PagesOf(m1, k) = PagesOf(m, k)
                    /\ NextOf(m1, k) = IF k = x THEN y ELSE NextOf(m, k)
    /\ \A i \in Indices : i < x \/ i >= x + PagesOf(m, x) => m1[i] = m[i]

LEMMA LinkNode ==
    ASSUME NEW m, NEW h, NEW N, NEW U, Nodes(m, N, U), NEW x \in N, NEW y \in 0 .. Ones,
           NEW r, r = Link([map |-> m, heapList |-> h], x, y)
    PROVE  \E m1 : r = [map |-> m1, heapList |-> h] /\ Linked(m, N, x, y, m1)
<1>1. /\ m \in [Indices -> Words] /\ N \subseteq Indices /\ \A k \in N : IsNode(m, k)
  BY DEF Nodes
<1>2. /\ PagesOf(m, x) \in 1 .. Pages
      /\ m[x].type # "SINGLE" => PagesOf(m, x) >= 2 /\ x + 1 \in Indices
  BY <1>1, NodePagesType
<1>3. ~(x >= Pages) /\ x \in Indices /\ x \in Nat
  BY <1>1, AreaNumbers
<1>4. Word("SINGLE", y) \in Words /\ Word("LINK", y) \in Words
  BY DEF Word, Words
<1>5. CASE m[x].type = "SINGLE"
  <2>1. PICK m1 : m1 = [m EXCEPT ![x] = Word("SINGLE", y)]
    OBVIOUS
  <2>2. r = [map |-> m1, heapList |-> h]
    BY <1>3, <1>5, <2>1, LinkEffect
  <2>3. x <= x /\ x < x + PagesOf(m, x)
    BY <1>2, <1>3
  <2>4. /\ m1 \in [Indices -> Words] /\ m1[x] = Word("SINGLE", y)
        /\ \A k \in N : k # x => /\ m1[k] = m[k] /\ PagesOf(m1, k) = PagesOf(m, k)
                                 /\ NextOf(m1, k) = NextOf(m, k)
        /\ \A i \in Indices : i < x \/ i >= x + PagesOf(m, x) => m1[i] = m[i]
    <3>1. WordWritten(m, N, x, x, Word("SINGLE", y), m1)
      BY <1>3, <1>4, <2>1, <2>3, WordInNode
    <3> QED
      BY <3>1 DEF WordWritten
  <2>5. /\ m1[x].type = "SINGLE" /\ IsNode(m1, x)
        /\ PagesOf(m1, x) = PagesOf(m, x) /\ NextOf(m1, x) = y
    BY <1>5, <2>4 DEF Word, IsNode, PagesOf, NextOf
  <2>6. \A k \in N : k # x => IsNode(m1, k)
    BY <1>1, <2>4 DEF IsNode
  <2>7. Linked(m, N, x, y, m1)
    BY <1>5, <2>4, <2>5, <2>6 DEF Linked
  <2> QED
    BY <2>2, <2>7
<1>6. CASE m[x].type # "SINGLE"
  <2>1. PICK m1, w : w = x + 1 /\ m1 = [m EXCEPT ![w] = Word("LINK", y)]
    OBVIOUS
  <2>2. r = [map |-> m1, heapList |-> h]
    BY <1>3, <1>6, <2>1, LinkEffect
  <2>3. w \in Indices /\ x <= w /\ w < x + PagesOf(m, x) /\ w # x
    BY <1>2, <1>3, <1>6, <2>1
  <2>4. /\ m1 \in [Indices -> Words] /\ m1[w] = Word("LINK", y) /\ m1[x] = m[x]
        /\ \A k \in N : k # x => /\ m1[k] = m[k] /\ PagesOf(m1, k) = PagesOf(m, k)
                                 /\ NextOf(m1, k) = NextOf(m, k)
        /\ \A i \in Indices : i < x \/ i >= x + PagesOf(m, x) => m1[i] = m[i]
    <3>1. WordWritten(m, N, x, w, Word("LINK", y), m1)
      BY <1>4, <2>1, <2>3, WordInNode
    <3> QED
      BY <1>3, <2>3, <3>1 DEF WordWritten
  <2>5. m1[x].type = m[x].type /\ PagesOf(m1, x) = PagesOf(m, x) /\ NextOf(m1, x) = y
    BY <1>6, <2>1, <2>4 DEF Word, PagesOf, NextOf
  <2>6. \A k \in N : IsNode(m1, k)
    BY <1>1, <2>4 DEF IsNode
  <2>7. Linked(m, N, x, y, m1)
    BY <2>4, <2>5, <2>6 DEF Linked
  <2> QED
    BY <2>2, <2>7
<1> QED
  BY <1>5, <1>6

\* What is left of node n, and of the list, when its last pages are to be taken.
Shortened(m, h, N, n, previous, left, m1, h1) ==
    /\ m1 \in [Indices -> Words]
    /\ h1 = IF left = 0 /\ previous = Ones THEN NextOf(m, n) ELSE h
    /\ \A k \in N : k # n =>
          /\ m1[k].type = m[k].type /\ IsNode(m1, k) /\ PagesOf(m1, k) = PagesOf(m, k)
          /\ NextOf(m1, k) = IF left = 0 /\ k = previous THEN NextOf(m, n) ELSE NextOf(m, k)
    /\ left > 0 => /\ IsNode(m1, n) /\ PagesOf(m1, n) = left /\ NextOf(m1, n) = NextOf(m, n)
                   /\ left = 1 => m1[n].type = "SINGLE"
    /\ \A i \in Indices : (\A k \in N : i < k \/ i >= k + PagesOf(m, k)) => m1[i] = m[i]

LEMMA LastPagesEffect ==
    ASSUME NEW m, NEW h, NEW N, NEW U, Nodes(m, N, U), NEW n \in N,
           NextOf(m, n) \in 0 .. Ones, NEW count \in 1 .. PagesOf(m, n),
           NEW previous, previous = Ones \/ previous \in N \ {n},
           NEW r, r = LastPages([map |-> m, heapList |-> h], previous, n, count)
    PROVE  \E m1, h1 : /\ r = [map |-> m1, heapList |-> h1]
                       /\ Shortened(m, h, N, n, previous, PagesOf(m, n) - count, m1, h1)
<1>1. PICK area, p, x, left : /\ area = [map |-> m, heapList |-> h] /\ p = PagesOf(m, n)
                              /\ x = NextOf(m, n) /\ left = p - count
  OBVIOUS
<1>2. area.map = m /\ area.heapList = h /\ NodePages(area, n) = p /\ NextNode(area, n) = x
  BY <1>1 DEF NodePages, NextNode, PagesOf, NextOf
<1>3. /\ m \in [Indices -> Words] /\ N \subseteq Indices
      /\ \A k \in N : IsNode(m, k)
      /\ \A k \in N : /\ k \in Indices /\ PagesOf(m, k) \in 1 .. Pages
                      /\ k + PagesOf(m, k) <= Pages
                      /\ m[k].type = "SINGLE" => PagesOf(m, k) = 1
                      /\ m[k].type # "SINGLE" => PagesOf(m, k) >= 2 /\ k + 1 \in Indices
  <2>1. /\ m \in [Indices -> Words] /\ N \subseteq Indices
        /\ \A k \in N : IsNode(m, k)
    BY DEF Nodes
  <2> QED
    BY <2>1, NodePagesType
<1>4. /\ p \in Nat /\ count \in Nat /\ count > 0 /\ left \in Nat /\ left < p
      /\ n \in Indices /\ n + p <= Pages
  BY <1>1, <1>3
<1>5. r = LastPages(area, previous, n, count)
  BY <1>1
<1>6. CASE left = 0
  <2>1. r = Link(area, previous, x)
    BY <1>1, <1>2, <1>5, <1>6 DEF LastPages
  <2>2. CASE previous = Ones
    <3>1. r = [map |-> m, heapList |-> x]
      BY <1>1, <2>1, <2>2, LinkEffect, AreaNumbers
    <3>2. Shortened(m, h, N, n, previous, left, m, x)
      BY <1>1, <1>3, <1>4, <1>6, <2>2, AreaNumbers DEF Shortened
    <3> QED
      BY <1>1, <3>1, <3>2
  <2>3. CASE previous \in N \ {n}
    <3>1. PICK m1 : r = [map |-> m1, heapList |-> h] /\ Linked(m, N, previous, x, m1)
      BY <1>1, <2>1, <2>3, LinkNode
    <3>2. /\ m1 \in [Indices -> Words]
          /\ \A k \in N : /\ m1[k].type = m[k].type /\ IsNode(m1, k)
                          /\ PagesOf(m1, k) = PagesOf(m, k)
                          /\ NextOf(m1, k) = IF k = previous THEN x ELSE NextOf(m, k)
          /\ \A i \in Indices : i < previous \/ i >= previous + PagesOf(m, previous)
                                => m1[i] = m[i]
      BY <3>1 DEF Linked
    <3>3. previous # Ones
      BY <1>3, <2>3, AreaNumbers
    <3>4. Shortened(m, h, N, n, previous, left, m1, h)
      BY <1>1, <1>6, <2>3, <3>2, <3>3 DEF Shortened
    <3> QED
      BY <1>1, <3>1, <3>4
  <2> QED
    BY <2>2, <2>3
<1>7. CASE left > 0
  <2>1. p >= 2 /\ m[n].type # "SINGLE" /\ m[n].type = "FREE"
    BY <1>1, <1>3, <1>4, <1>7 DEF IsNode
  <2>2. PICK v : v = IF left = 1 THEN Word("SINGLE", x) ELSE Word("FREE", left)
    OBVIOUS
  <2>3. v \in Words
    BY <1>1, <1>3, <1>4, <2>2, AreaNumbers DEF Word, Words
  <2>4. PICK m1 : m1 = [m EXCEPT ![n] = v]
    OBVIOUS
  <2>5. r = [map |-> m1, heapList |-> h]
    <3>1. r = [area EXCEPT !.map[n] = v]
      BY <1>1, <1>2, <1>5, <1>7, <2>2 DEF LastPages
    <3> QED
      BY <1>1, <2>4, <3>1
  <2>6. n <= n /\ n < n + PagesOf(m, n)
    BY <1>1, <1>4, AreaNumbers
  <2>7. /\ m1 \in [Indices -> Words] /\ m1[n] = v
        /\ \A i \in Indices : i # n => m1[i] = m[i]
        /\ \A k \in N : k # n =>
              /\ m1[k] = m[k] /\ PagesOf(m1, k) = PagesOf(m, k) /\ NextOf(m1, k) = NextOf(m, k)
        /\ \A i \in Indices : i < n \/ i >= n + PagesOf(m, n) => m1[i] = m[i]
    <3>1. WordWritten(m, N, n, n, v, m1)
      BY <1>4, <2>3, <2>4, <2>6, WordInNode
    <3> QED
      BY <3>1 DEF WordWritten
  <2>8. m1[n + 1] = m[n + 1]
    <3>1. n + 1 \in Indices /\ n + 1 # n
      BY <1>3, <1>4, <2>1, AreaNumbers
    <3> QED
      BY <2>7, <3>1
  <2>9. IsNode(m1, n) /\ PagesOf(m1, n) = left /\ NextOf(m1, n) = x
    <3>1. CASE left = 1
      BY <2>2, <2>7, <3>1 DEF Word, IsNode, PagesOf, NextOf
    <3>2. CASE left # 1
      <4>1. left \in 2 .. Pages /\ n + left <= Pages /\ v.type = "FREE" /\ v.value = left
        BY <1>1, <1>3, <1>4, <1>7, <2>2, <3>2, AreaNumbers DEF Word
      <4>2. NextOf(m, n) = m[n + 1].value
        BY <2>1 DEF NextOf
      <4> QED
        BY <1>1, <2>7, <2>8, <4>1, <4>2 DEF IsNode, PagesOf, NextOf
    <3> QED
      BY <3>1, <3>2
  <2>10. \A k \in N : k # n => IsNode(m1, k)
    BY <1>3, <2>7 DEF IsNode
  <2>11. left = 1 => m1[n].type = "SINGLE"
    BY <2>2, <2>7 DEF Word
  <2>12. Shortened(m, h, N, n, previous, left, m1, h)
    BY <1>1, <1>7, <2>7, <2>9, <2>10, <2>11 DEF Shortened
  <2> QED
    BY <1>1, <2>5, <2>12
<1>8. left = 0 \/ left > 0
  BY <1>4
<1> QED
  BY <1>6, <1>7, <1>8, Zenon

\* With pages [s, s + count) in use too, other nodes and another list remain.
NodesLeft(m, N, U, L, s, count, f, h1) ==
    \E N1, L1 :
        /\ Nodes(f, N1, U \cup (s .. s + count - 1))
        /\ Covered(f, N1, U \cup (s .. s + count - 1), Pages)
        /\ L1 \subseteq N1 /\ Listed(f, h1, L1)
        /\ L = N => L1 = N1
        /\ Maximal(m, N) => Maximal(f, N1)

\* The pages [s, s + count) of an area were free and are in use.
TakenAt(m, N, U, L, s, count, f, h1) ==
    /\ s \in Indices /\ s + count <= Pages
    /\ \A i \in s .. s + count - 1 : i \notin U
    /\ \A i \in U : f[i] = m[i]
    /\ f[s] = Word("USED", IF count = 1 THEN Ones ELSE count)
    /\ NodesLeft(m, N, U, L, s, count, f, h1)

\* The words behind, of the node that is shortened and of the others.
LEMMA TakenEffect ==
    ASSUME NEW m, NEW h, NEW N, NEW U, NEW L, Nodes(m, N, U), Covered(m, N, U, Pages),
           L \subseteq N, Listed(m, h, L), NEW n \in L, NEW count \in 1 .. PagesOf(m, n),
           NEW previous,
           \/ previous = Ones /\ h = n
           \/ previous \in L /\ NextOf(m, previous) = n,
           NEW m1, NEW h1, NEW left, left = PagesOf(m, n) - count,
           Shortened(m, h, N, n, previous, left, m1, h1),
           NEW f, f = MarkUsed(m1, n + left, count)
    PROVE  TakenAt(m, N, U, L, n + left, count, f, h1)
<1>1. PICK p, x, s, I, V : /\ p = PagesOf(m, n) /\ x = NextOf(m, n) /\ s = n + left
                           /\ I = s .. s + count - 1 /\ V = U \cup I
  OBVIOUS
<1>2. /\ m \in [Indices -> Words] /\ N \subseteq Indices /\ U \subseteq Indices
      /\ \A k \in N : IsNode(m, k)
      /\ \A k \in N, i \in U : i < k \/ k + PagesOf(m, k) <= i
      /\ \A k, o \in N : k = o \/ k + PagesOf(m, k) <= o \/ o + PagesOf(m, o) <= k
      /\ \A i \in U : m[i].type = "USED"
  BY DEF Nodes
<1>3. \A k \in N : /\ k \in Indices /\ k \in Nat /\ PagesOf(m, k) \in 1 .. Pages
                   /\ PagesOf(m, k) \in Nat /\ PagesOf(m, k) > 0
                   /\ k + PagesOf(m, k) <= Pages
                   /\ m[k].type # "USED"
                   /\ m[k].type = "SINGLE" => PagesOf(m, k) = 1
                   /\ m[k].type # "SINGLE" => PagesOf(m, k) >= 2 /\ k + 1 \in Indices
  <2> TAKE k \in N
  <2>1. k \in Indices /\ IsNode(m, k)
    BY <1>2
  <2>2. /\ PagesOf(m, k) \in 1 .. Pages /\ k + PagesOf(m, k) <= Pages
        /\ m[k].type # "USED"
        /\ m[k].type = "SINGLE" => PagesOf(m, k) = 1
        /\ m[k].type # "SINGLE" => PagesOf(m, k) >= 2 /\ k + 1 \in Indices
    BY <1>2, <2>1, NodePagesType
  <2>3. k \in Nat /\ Pages \in Nat
    BY <2>1, AreaNumbers
  <2> QED
    BY <2>1, <2>2, <2>3
<1>4. /\ p \in Nat /\ count \in Nat /\ count > 0 /\ left \in Nat /\ left < p /\ n \in Nat
      /\ n + p <= Pages /\ s \in Nat /\ s + count = n + p /\ s \in Indices /\ n <= s
      /\ I \subseteq Indices /\ Pages \in Nat /\ Ones \in Nat
      /\ \A i \in I : i \in Nat /\ s <= i /\ i < n + p
      /\ \A i \in Nat : s <= i /\ i < n + p => i \in I
  <2>1. n \in N
    OBVIOUS
  <2>2. p \in Nat /\ n \in Nat /\ n + p <= Pages /\ count \in Nat /\ count > 0 /\ count <= p
    BY <1>1, <1>3, <2>1
  <2>3. /\ left \in Nat /\ left < p /\ s \in Nat /\ s + count = n + p /\ n <= s
        /\ s + count <= Pages
    BY SMTT(20), <1>1, <2>2
  <2>4. Pages \in Nat /\ Ones \in Nat /\ Indices = 0 .. Pages - 1
    BY AreaNumbers
  <2>5. \A i \in Int : i \in I <=> s <= i /\ i < n + p
    <3>1. \A i \in Int : i \in s .. s + count - 1 <=> s <= i /\ i <= s + count - 1
      BY <2>2, <2>3
    <3>2. \A i \in Int : i <= s + count - 1 <=> i < s + count
      BY <2>2, <2>3
    <3>3. I = s .. s + count - 1
      BY <1>1
    <3> QED
      BY <2>3, <3>1, <3>2, <3>3
  <2>6. I \subseteq Int
    BY <1>1
  <2>7. s \in Indices /\ I \subseteq Indices
    BY <2>2, <2>3, <2>4, <2>5, <2>6
  <2> QED
    BY <2>2, <2>3, <2>4, <2>5, <2>6, <2>7
<1>5. /\ m1 \in [Indices -> Words]
      /\ h1 = IF left = 0 /\ previous = Ones THEN x ELSE h
      /\ \A k \in N : k # n =>
            /\ m1[k].type = m[k].type /\ IsNode(m1, k) /\ PagesOf(m1, k) = PagesOf(m, k)
            /\ NextOf(m1, k) = IF left = 0 /\ k = previous THEN x ELSE NextOf(m, k)
      /\ left > 0 => /\ IsNode(m1, n) /\ PagesOf(m1, n) = left /\ NextOf(m1, n) = x
                     /\ left = 1 => m1[n].type = "SINGLE"
      /\ \A i \in Indices : (\A k \in N : i < k \/ i >= k + PagesOf(m, k)) => m1[i] = m[i]
  BY <1>1 DEF Shortened
<1>6. PICK w : w = Word("USED", IF count = 1 THEN Ones ELSE count)
  OBVIOUS
<1>7. /\ f \in [Indices -> Words] /\ f[s] = w
      /\ \A i \in I : f[i].type = "USED"
      /\ \A i \in Indices : i \notin I => f[i] = m1[i]
  <2>1. f = [i \in Indices |-> IF i = s THEN w ELSE IF i \in I THEN Word("USED", 0) ELSE m1[i]]
    BY <1>1, <1>6 DEF MarkUsed
  <2>2. count \in 1 .. Pages /\ count \in 0 .. Ones
    <3>1. p <= Pages /\ count <= p /\ Ones = Pages + 1
      BY SMTT(20), <1>1, <1>4, AreaNumbers
    <3> QED
      BY <1>4, <3>1
  <2>3. w \in Words /\ Word("USED", 0) \in Words /\ w.type = "USED" /\ Word("USED", 0).type = "USED"
    BY <1>4, <1>6, <2>2 DEF Word, Words
  <2>4. f \in [Indices -> Words] /\ f[s] = w
    BY <1>4, <1>5, <2>1, <2>3
  <2>5. \A i \in I : f[i] = w \/ f[i] = Word("USED", 0)
    BY <1>4, <2>1
  <2>6. \A i \in Indices : i \notin I => f[i] = m1[i]
    <3>1. s \in I
      BY <1>4
    <3> QED
      BY <2>1, <3>1
  <2> QED
    BY <2>3, <2>4, <2>5, <2>6
\* The pages that are taken belong to node n only.
<1>8. \A i \in I : i \notin U /\ i \in Nat /\ n <= i /\ i < n + p
  <2>1. \A i \in I : i \in Nat /\ n <= i /\ i < n + p
    BY <1>4
  <2>2. \A i \in U : i \in Nat /\ (i < n \/ n + p <= i)
    BY <1>1, <1>2, AreaNumbers
  <2> QED
    BY <1>4, <2>1, <2>2
<1>9. \A k \in N : k # n =>
          /\ k \notin I /\ (m[k].type # "SINGLE" => k + 1 \notin I)
          /\ \A i \in I : i < k \/ k + PagesOf(m, k) <= i
  <2> TAKE k \in N
  <2> SUFFICES ASSUME k # n
               PROVE  /\ k \notin I /\ (m[k].type # "SINGLE" => k + 1 \notin I)
                      /\ \A i \in I : i < k \/ k + PagesOf(m, k) <= i
    OBVIOUS
  <2>1. k + PagesOf(m, k) <= n \/ n + p <= k
    BY <1>1, <1>2
  <2>2. /\ k \in Nat /\ PagesOf(m, k) \in Nat /\ PagesOf(m, k) > 0
        /\ m[k].type # "SINGLE" => PagesOf(m, k) >= 2
    BY <1>3
  <2>3. \A i \in I : i < k \/ k + PagesOf(m, k) <= i
    BY <1>4, <2>1, <2>2
  <2> QED
    BY <1>4, <2>2, <2>3
<1>10. \A k \in N : k # n =>
          /\ f[k].type = m[k].type /\ IsNode(f, k) /\ PagesOf(f, k) = PagesOf(m, k)
          /\ NextOf(f, k) = IF left = 0 /\ k = previous THEN x ELSE NextOf(m, k)
  <2> TAKE k \in N
  <2> SUFFICES ASSUME k # n
               PROVE  /\ f[k].type = m[k].type /\ IsNode(f, k) /\ PagesOf(f, k) = PagesOf(m, k)
                      /\ NextOf(f, k) = IF left = 0 /\ k = previous THEN x ELSE NextOf(m, k)
    OBVIOUS
  <2>1. f[k] = m1[k] /\ (m[k].type # "SINGLE" => f[k + 1] = m1[k + 1])
    BY <1>3, <1>7, <1>9
  <2>2. /\ m1[k].type = m[k].type /\ IsNode(m1, k) /\ PagesOf(m1, k) = PagesOf(m, k)
        /\ NextOf(m1, k) = IF left = 0 /\ k = previous THEN x ELSE NextOf(m, k)
    BY <1>5
  <2>3. IsNode(f, k) /\ PagesOf(f, k) = PagesOf(m1, k) /\ NextOf(f, k) = NextOf(m1, k)
    BY <2>1, <2>2 DEF IsNode, PagesOf, NextOf
  <2> QED
    BY <2>1, <2>2, <2>3
<1>11. left > 0 => /\ IsNode(f, n) /\ PagesOf(f, n) = left /\ NextOf(f, n) = x
  <2> SUFFICES ASSUME left > 0
               PROVE  /\ IsNode(f, n) /\ PagesOf(f, n) = left /\ NextOf(f, n) = x
    OBVIOUS
  <2>1. n \notin I /\ n \in Indices
    BY <1>1, <1>3, <1>4
  <2>2. m1[n].type # "SINGLE" => n + 1 \notin I /\ n + 1 \in Indices
    <3>1. m1[n].type # "SINGLE" => left >= 2
      BY <1>4, <1>5
    <3>2. Indices = 0 .. Pages - 1
      BY AreaNumbers
    <3>3. s = n + left
      BY <1>1
    <3>4. left >= 2 => n + 1 < s /\ n + 1 \in 0 .. Pages - 1
      BY <1>4, <3>3
    <3> QED
      BY <1>4, <3>1, <3>2, <3>4
  <2>3. f[n] = m1[n] /\ (m1[n].type # "SINGLE" => f[n + 1] = m1[n + 1])
    BY <1>7, <2>1, <2>2
  <2> QED
    BY <1>5, <2>3 DEF IsNode, PagesOf, NextOf
<1>12. \A i \in U : f[i] = m[i]
  <2>1. \A i \in U : i \in Indices /\ i \notin I
    BY <1>2, <1>8
  <2>2. \A i \in U, k \in N : i < k \/ i >= k + PagesOf(m, k)
    BY <1>2, <1>3, AreaNumbers
  <2> QED
    BY <1>5, <1>7, <2>1, <2>2
<1>13. V \subseteq Indices /\ \A i \in V : f[i].type = "USED"
  BY ZenonT(60), <1>1, <1>2, <1>4, <1>7, <1>12
\* The list.
<1>14. /\ h \in L \cup {Ones} /\ \A k \in L : h <= k
       /\ \A k \in L : /\ NextOf(m, k) \in L \cup {Ones} /\ k < NextOf(m, k)
                       /\ \A o \in L : o <= k \/ NextOf(m, k) <= o
       /\ \A k \in L : k \in N /\ k \in Nat /\ k # Ones
  <2>1. \A k \in L : k \in N /\ k \in Indices
    BY <1>3
  <2> QED
    BY <2>1, AreaNumbers DEF Listed
<1>15. x \in L \cup {Ones} /\ n < x /\ (\A o \in L : o <= n \/ x <= o) /\ x \in Nat
  BY <1>1, <1>4, <1>14
<1>16. ASSUME left > 0 PROVE NodesLeft(m, N, U, L, s, count, f, h1)
  <2>1. Nodes(f, N, V)
    <3>1. \A k \in N : IsNode(f, k) /\ PagesOf(f, k) = IF k = n THEN left ELSE PagesOf(m, k)
      BY <1>10, <1>11, <1>16
    <3>2. \A k \in N, i \in V : i < k \/ k + PagesOf(f, k) <= i
      <4> TAKE k \in N, i \in V
      <4>1. CASE k = n
        <5>1. i \in U => i < n \/ n + p <= i
          BY <1>1, <1>2
        <5>2. i \in I => n + left <= i
          BY <1>1, <1>4
        <5> QED
          BY SMTT(20), <1>1, <1>2, <1>4, <3>1, <4>1, <5>1, <5>2, AreaNumbers
      <4>2. CASE k # n
        BY <1>1, <1>2, <1>9, <3>1, <4>2
      <4> QED
        BY <4>1, <4>2
    <3>3. \A k, o \in N : k = o \/ k + PagesOf(f, k) <= o \/ o + PagesOf(f, o) <= k
      <4> TAKE k, o \in N
      <4>1. k = o \/ k + PagesOf(m, k) <= o \/ o + PagesOf(m, o) <= k
        BY <1>2
      <4>2. /\ k + PagesOf(f, k) <= k + PagesOf(m, k) /\ o + PagesOf(f, o) <= o + PagesOf(m, o)
            /\ PagesOf(f, k) \in Nat /\ PagesOf(f, o) \in Nat
        <5>1. \A j \in N : /\ PagesOf(f, j) \in Nat /\ PagesOf(f, j) <= PagesOf(m, j)
                           /\ j \in Nat /\ PagesOf(m, j) \in Nat
          <6> TAKE j \in N
          <6>1. j \in Nat /\ PagesOf(m, j) \in Nat
            BY <1>3
          <6>2. PagesOf(f, j) = IF j = n THEN left ELSE PagesOf(m, j)
            BY <3>1
          <6>3. CASE j = n
            <7>1. PagesOf(f, j) = left /\ PagesOf(m, j) = p
              BY <1>1, <6>2, <6>3
            <7> QED
              BY <1>4, <6>1, <7>1
          <6>4. CASE j # n
            BY <6>1, <6>2, <6>4
          <6> QED
            BY <6>3, <6>4
        <5> QED
          BY <5>1
      <4> QED
        BY <1>3, <4>1, <4>2
    <3> QED
      BY <1>2, <1>7, <1>13, <3>1, <3>2, <3>3 DEF Nodes
  <2>2. Covered(f, N, V, Pages)
    <3> SUFFICES ASSUME NEW i \in Indices
                 PROVE  i \in V \/ \E k \in N : k <= i /\ i < k + PagesOf(f, k)
      BY DEF Covered
    <3>1. i \in Nat /\ i < Pages
      BY AreaNumbers
    <3>2. i \in U \/ \E k \in N : k <= i /\ i < k + PagesOf(m, k)
      BY <3>1 DEF Covered
    <3>3. CASE i \in U
      BY <1>1, <3>3
    <3>4. CASE i \notin U
      <4>1. PICK k \in N : k <= i /\ i < k + PagesOf(m, k)
        BY <3>2, <3>4
      <4>2. CASE k # n
        BY <1>10, <4>1, <4>2
      <4>3. CASE k = n
        <5>1. i \in I \/ i < n + left
          <6>1. s = n + left /\ i < n + p
            BY <1>1, <4>1, <4>3
          <6>2. s <= i \/ i < n + left
            BY <1>4, <3>1, <6>1
          <6> QED
            BY <1>4, <3>1, <6>1, <6>2
        <5> QED
          BY <1>1, <1>11, <1>16, <4>1, <4>3, <5>1
      <4> QED
        BY <4>2, <4>3
    <3> QED
      BY <3>3, <3>4
  <2>3. Listed(f, h1, L)
    <3>1. h1 = h /\ \A k \in L : NextOf(f, k) = NextOf(m, k)
      <4>1. left # 0
        BY <1>4, <1>16
      <4> QED
        BY <1>1, <1>5, <1>10, <1>11, <1>14, <1>16, <4>1
    <3> QED
      BY <1>14, <3>1 DEF Listed
  <2>4. Maximal(m, N) => Maximal(f, N)
    <3> SUFFICES ASSUME Maximal(m, N), NEW k \in N
                 PROVE  k + PagesOf(f, k) \notin N
      BY DEF Maximal
    <3>1. CASE k # n
      BY <1>10, <3>1 DEF Maximal
    <3>2. CASE k = n
      <4>1. PICK o : o = n + left
        OBVIOUS
      <4>2. o \in N => o = n \/ n + p <= o \/ o + PagesOf(m, o) <= n
        BY <1>1, <1>2
      <4>3. o \in N => PagesOf(m, o) \in Nat
        BY <1>3
      <4>4. o \notin N
        BY <1>4, <1>16, <4>1, <4>2, <4>3
      <4> QED
        BY <1>11, <1>16, <3>2, <4>1, <4>4
    <3> QED
      BY <3>1, <3>2
  <2> QED
    BY <1>1, <2>1, <2>2, <2>3, <2>4 DEF NodesLeft
<1>17. ASSUME left = 0 PROVE NodesLeft(m, N, U, L, s, count, f, h1)
  <2>1. PICK N1, L1 : N1 = N \ {n} /\ L1 = L \ {n}
    OBVIOUS
  <2>2. Nodes(f, N1, V)
    <3>1. \A k \in N1 : k \in N /\ k # n /\ IsNode(f, k) /\ PagesOf(f, k) = PagesOf(m, k)
      BY <1>10, <2>1
    <3>2. \A k \in N1, i \in V : i < k \/ k + PagesOf(f, k) <= i
      BY <1>1, <1>2, <1>9, <3>1
    <3>3. \A k, o \in N1 : k = o \/ k + PagesOf(f, k) <= o \/ o + PagesOf(f, o) <= k
      BY <1>2, <3>1
    <3>4. N1 \subseteq Indices
      BY <1>2, <2>1
    <3> QED
      BY <1>7, <1>13, <3>1, <3>2, <3>3, <3>4 DEF Nodes
  <2>3. Covered(f, N1, V, Pages)
    <3> SUFFICES ASSUME NEW i \in Indices
                 PROVE  i \in V \/ \E k \in N1 : k <= i /\ i < k + PagesOf(f, k)
      BY DEF Covered
    <3>1. i \in Nat /\ i < Pages
      BY AreaNumbers
    <3>2. i \in U \/ \E k \in N : k <= i /\ i < k + PagesOf(m, k)
      BY <3>1 DEF Covered
    <3>3. CASE i \in U
      BY <1>1, <3>3
    <3>4. CASE i \notin U
      <4>1. PICK k \in N : k <= i /\ i < k + PagesOf(m, k)
        BY <3>2, <3>4
      <4>2. CASE k # n
        BY <1>10, <2>1, <4>1, <4>2
      <4>3. CASE k = n
        <5>1. s <= i /\ i < n + p
          BY <1>1, <1>4, <1>17, <4>1, <4>3
        <5> QED
          BY <1>1, <1>4, <3>1, <5>1
      <4> QED
        BY <4>2, <4>3
    <3> QED
      BY <3>3, <3>4
  <2>4. Listed(f, h1, L1)
    <3>1. \A k \in L1 : NextOf(f, k) = IF k = previous THEN x ELSE NextOf(m, k)
      BY <1>10, <1>14, <1>17, <2>1
    <3>2. h1 \in L1 \cup {Ones} /\ \A k \in L1 : h1 <= k
      <4>1. CASE previous = Ones
        <5>1. h = n /\ h1 = x
          BY <1>5, <1>14, <1>17, <4>1
        <5>2. \A k \in L1 : x <= k
          BY <1>4, <1>14, <1>15, <2>1, <5>1
        <5>3. x # n
          BY <1>4, <1>15
        <5> QED
          BY <1>15, <2>1, <5>1, <5>2, <5>3
      <4>2. CASE previous # Ones
        <5>1. previous \in L /\ NextOf(m, previous) = n /\ previous < n /\ h1 = h /\ h <= previous
          BY <1>5, <1>14, <4>2
        <5>2. h # n /\ h \in L \cup {Ones}
          BY <1>4, <1>14, <5>1
        <5> QED
          BY <1>14, <2>1, <5>1, <5>2
      <4> QED
        BY <4>1, <4>2
    <3>3. ASSUME NEW k \in L1
          PROVE  /\ NextOf(f, k) \in L1 \cup {Ones} /\ k < NextOf(f, k)
                 /\ \A o \in L1 : o <= k \/ NextOf(f, k) <= o
      <4>1. PICK y : y = NextOf(m, k)
        OBVIOUS
      <4>2. /\ y \in L \cup {Ones} /\ k < y /\ \A o \in L : o <= k \/ y <= o
            /\ k \in Nat /\ k # n /\ k \in L
        BY <1>14, <2>1, <4>1
      <4>3. CASE k = previous
        <5>1. y = n /\ NextOf(f, k) = x
          BY <1>14, <2>1, <3>1, <4>1, <4>2, <4>3
        <5>2. x # n /\ k < x
          BY <1>4, <1>15, <4>2, <5>1
        <5>3. \A o \in L1 : o <= k \/ x <= o
          BY <1>4, <1>14, <1>15, <2>1, <4>2, <5>1
        <5> QED
          BY <1>15, <2>1, <5>1, <5>2, <5>3
      <4>4. CASE k # previous
        <5>1. NextOf(f, k) = y
          BY <3>1, <4>1, <4>4
        <5>2. y # n
          <6>1. CASE previous = Ones
            <7>1. h = n
              BY <1>14, <6>1
            <7> QED
              BY <1>4, <1>14, <4>2, <7>1
          <6>2. CASE previous # Ones
            <7>1. previous \in L /\ NextOf(m, previous) = n /\ previous \in Nat /\ previous < n
              BY <1>14, <6>2
            <7>2. previous <= k \/ y <= previous
              BY <4>2, <7>1
            <7>3. y = n => previous <= k /\ (k <= previous \/ n <= k)
              BY <1>4, <1>14, <4>2, <7>1, <7>2
            <7> QED
              BY <1>4, <4>2, <4>4, <7>1, <7>3
          <6> QED
            BY <6>1, <6>2
        <5> QED
          BY <2>1, <4>2, <5>1, <5>2
      <4> QED
        BY <4>3, <4>4
    <3> QED
      BY <3>2, <3>3 DEF Listed
  <2>5. Maximal(m, N) => Maximal(f, N1)
    BY <1>10, <2>1 DEF Maximal
  <2>6. L1 \subseteq N1 /\ (L = N => L1 = N1)
    BY <2>1
  <2> QED
    BY <1>1, <2>2, <2>3, <2>4, <2>5, <2>6 DEF NodesLeft
<1>18. NodesLeft(m, N, U, L, s, count, f, h1)
  BY <1>4, <1>16, <1>17
<1>19. TakenAt(m, N, U, L, s, count, f, h1)
  <2>1. s + count <= Pages /\ \A i \in s .. s + count - 1 : i \notin U
    BY <1>1, <1>4, <1>8
  <2> QED
    BY <1>4, <1>6, <1>7, <1>12, <1>18, <2>1 DEF TakenAt
<1> QED
  BY <1>1, <1>19

-----------------------------------------------------------------------------
(* Nodes are made and put at the end of the list.                           *)

\* Words that are written elsewhere are not those of node k.
LEMMA NodeElsewhere ==
    ASSUME NEW m \in [Indices -> Words], NEW f, NEW a \in Nat, NEW b \in Nat,
           \A j \in Indices : j < a \/ j >= b => f[j] = m[j],
           NEW k \in Indices, IsNode(m, k), k + PagesOf(m, k) <= a \/ b <= k
    PROVE  IsNode(f, k) /\ PagesOf(f, k) = PagesOf(m, k) /\ NextOf(f, k) = NextOf(m, k)
<1>1. /\ PagesOf(m, k) \in Nat /\ PagesOf(m, k) >= 1 /\ k \in Nat
      /\ m[k].type # "SINGLE" => PagesOf(m, k) >= 2 /\ k + 1 \in Indices
  BY NodePagesType, AreaNumbers
<1>2. k < a \/ k >= b
  BY <1>1
<1>3. f[k] = m[k]
  BY <1>2
<1>4. m[k].type # "SINGLE" => f[k + 1] = m[k + 1]
  <2> SUFFICES ASSUME m[k].type # "SINGLE" PROVE f[k + 1] = m[k + 1]
    OBVIOUS
  <2>1. k + 1 < a \/ k + 1 >= b
    BY <1>1
  <2> QED
    BY <1>1, <2>1
<1> QED
  BY <1>3, <1>4 DEF IsNode, PagesOf, NextOf

\* The words of a node that ends the list.
NodeMade(m, start, count, f) ==
    /\ f \in [Indices -> Words]
    /\ IsNode(f, start) /\ PagesOf(f, start) = count /\ NextOf(f, start) = Ones
    /\ \A j \in Indices : j < start \/ j >= start + count => f[j] = m[j]

LEMMA FreeNodeEffect ==
    ASSUME NEW m \in [Indices -> Words], NEW start \in Nat, NEW count \in Nat \ {0},
           start + count <= Pages, NEW f, f = FreeNodeWords(m, start, count)
    PROVE  NodeMade(m, start, count, f)
<1>1. Pages \in Nat /\ Ones \in Nat /\ Ones > Pages /\ Indices = 0 .. Pages - 1
  BY AreaNumbers
<1>2. start \in Indices /\ count \in 1 .. Pages
  BY <1>1
<1>3. CASE count = 1
  <2>1. f = [m EXCEPT ![start] = Word("SINGLE", Ones)]
    BY <1>3 DEF FreeNodeWords
  <2>2. Word("SINGLE", Ones) \in Words
    BY <1>1 DEF Word, Words
  <2>3. /\ f \in [Indices -> Words] /\ f[start] = Word("SINGLE", Ones)
        /\ \A j \in Indices : j # start => f[j] = m[j]
    BY <1>2, <2>1, <2>2
  <2>4. IsNode(f, start) /\ PagesOf(f, start) = 1 /\ NextOf(f, start) = Ones
    BY <2>3 DEF Word, IsNode, PagesOf, NextOf
  <2>5. \A j \in Indices : j < start \/ j >= start + count => j # start
    BY <1>1, <1>3
  <2> QED
    BY <1>3, <2>3, <2>4, <2>5 DEF NodeMade
<1>4. CASE count # 1
  <2>1. PICK w : w = start + 1
    OBVIOUS
  <2>2. w \in Indices /\ w # start /\ count \in 2 .. Pages
    BY <1>1, <1>2, <1>4, <2>1
  <2>3. f = [m EXCEPT ![start] = Word("FREE", count), ![w] = Word("LINK", Ones)]
    BY <1>4, <2>1 DEF FreeNodeWords
  <2>4. Word("FREE", count) \in Words /\ Word("LINK", Ones) \in Words
    BY <1>1, <1>2 DEF Word, Words
  <2>5. /\ f \in [Indices -> Words] /\ f[start] = Word("FREE", count)
        /\ f[w] = Word("LINK", Ones)
        /\ \A j \in Indices : j # start /\ j # w => f[j] = m[j]
    BY <1>2, <2>2, <2>3, <2>4
  <2>6. IsNode(f, start) /\ PagesOf(f, start) = count /\ NextOf(f, start) = Ones
    BY <2>1, <2>2, <2>5 DEF Word, IsNode, PagesOf, NextOf
  <2>7. \A j \in Indices : j < start \/ j >= start + count => j # start /\ j # w
    BY <1>1, <2>1, <2>2
  <2> QED
    BY <2>5, <2>6, <2>7 DEF NodeMade
<1> QED
  BY <1>3, <1>4

\* Node start has joined the nodes N of m, beside the pages V in use.
Added(m, N, V, start, count, f) ==
    /\ Nodes(f, N \cup {start}, V)
    /\ PagesOf(f, start) = count /\ NextOf(f, start) = Ones
    /\ \A k \in N : PagesOf(f, k) = PagesOf(m, k) /\ NextOf(f, k) = NextOf(m, k) /\ k # start
    /\ \A j \in Indices : j < start \/ j >= start + count => f[j] = m[j]

\* A run of free pages that is a node now: the pages U in use lie outside.
LEMMA NodeAdded ==
    ASSUME NEW m, NEW N, NEW U, Nodes(m, N, U), NEW V \in SUBSET U,
           NEW start \in Nat, NEW count \in Nat \ {0}, start + count <= Pages,
           \A k \in N : k + PagesOf(m, k) <= start \/ start + count <= k,
           \A i \in V : i < start \/ start + count <= i,
           NEW f, f = FreeNodeWords(m, start, count)
    PROVE  Added(m, N, V, start, count, f)
<1>1. /\ m \in [Indices -> Words] /\ N \subseteq Indices /\ U \subseteq Indices
      /\ \A k \in N : /\ IsNode(m, k) /\ k \in Nat /\ PagesOf(m, k) \in Nat
                      /\ PagesOf(m, k) > 0 /\ k + PagesOf(m, k) <= Pages
      /\ \A k \in N, i \in U : i < k \/ k + PagesOf(m, k) <= i
      /\ \A k, o \in N : k = o \/ k + PagesOf(m, k) <= o \/ o + PagesOf(m, o) <= k
      /\ \A i \in U : i \in Nat /\ m[i].type = "USED"
  BY NodeApart
<1>2. /\ f \in [Indices -> Words]
      /\ IsNode(f, start) /\ PagesOf(f, start) = count /\ NextOf(f, start) = Ones
      /\ \A j \in Indices : j < start \/ j >= start + count => f[j] = m[j]
  <2>1. NodeMade(m, start, count, f)
    BY <1>1, FreeNodeEffect
  <2> QED
    BY <2>1 DEF NodeMade
<1>3. \A k \in N : /\ IsNode(f, k) /\ PagesOf(f, k) = PagesOf(m, k)
                   /\ NextOf(f, k) = NextOf(m, k) /\ k # start
  <2> TAKE k \in N
  <2>1. k \in Indices /\ IsNode(m, k) /\ (k + PagesOf(m, k) <= start \/ start + count <= k)
    BY <1>1
  <2>2. PICK b \in Nat : b = start + count
    OBVIOUS
  <2>3. \A j \in Indices : j < start \/ j >= b => f[j] = m[j]
    BY <1>2, <2>2
  <2>4. IsNode(f, k) /\ PagesOf(f, k) = PagesOf(m, k) /\ NextOf(f, k) = NextOf(m, k)
    BY <1>1, <2>1, <2>2, <2>3, NodeElsewhere
  <2>5. k # start
    BY <1>1, <2>1
  <2> QED
    BY <2>4, <2>5
<1>4. start \in Indices
  BY AreaNumbers
<1>5. \A k \in N \cup {start} : IsNode(f, k)
  BY <1>2, <1>3
<1>6. \A k \in N \cup {start}, i \in V : i < k \/ k + PagesOf(f, k) <= i
  BY <1>1, <1>2, <1>3
<1>7. \A k, o \in N \cup {start} : k = o \/ k + PagesOf(f, k) <= o \/ o + PagesOf(f, o) <= k
  <2> TAKE k, o \in N \cup {start}
  <2>1. CASE k \in N /\ o \in N
    BY <1>1, <1>3, <2>1
  <2>2. CASE k \in N /\ o = start
    BY <1>2, <1>3, <2>2
  <2>3. CASE k = start /\ o \in N
    BY <1>2, <1>3, <2>3
  <2> QED
    BY <2>1, <2>2, <2>3
<1>8. \A i \in V : f[i].type = "USED"
  <2> TAKE i \in V
  <2>1. i \in U /\ i \in Indices /\ (i < start \/ i >= start + count)
    BY <1>1
  <2> QED
    BY <1>1, <1>2, <2>1
<1>9. Nodes(f, N \cup {start}, V)
  BY <1>1, <1>2, <1>4, <1>5, <1>6, <1>7, <1>8 DEF Nodes
<1> QED
  BY <1>2, <1>3, <1>9 DEF Added

-----------------------------------------------------------------------------
(* _Collect.                                                                *)

\* The list is C, up to page e: every free page before e is on it, a node of
\* it is followed by a page in use, and the last one is previous.
Built(m, h, C, U, e, previous) ==
    /\ Nodes(m, C, U) /\ Listed(m, h, C) /\ Covered(m, C, U, e)
    /\ \A n \in C : n + PagesOf(m, n) <= e /\ n + PagesOf(m, n) \in U \cup {Pages}
    /\ IF C = {} THEN previous = Ones ELSE previous \in C /\ \A n \in C : n <= previous

\* m1 keeps the words of m from page e on and of the pages U in use.
Kept(m, m1, U, e) == \A j \in Indices : j >= e \/ j \in U => m1[j] = m[j]

\* Area r: node start, that ends at page e, has joined the list C of m.
FreeAdded(m, C, U, start, e, r) ==
    \E m1, h1 : /\ r = [map |-> m1, heapList |-> h1]
                /\ Built(m1, h1, C \cup {start}, U, e, start)
                /\ Kept(m, m1, U, e)

\* A run of free pages joins the list.
LEMMA AddFreeEffect ==
    ASSUME NEW m, NEW h, NEW C, NEW U, NEW start \in Nat, NEW previous,
           Built(m, h, C, U, start, previous),
           NEW count \in Nat \ {0}, NEW e \in Nat, e = start + count, e \in U \cup {Pages},
           e <= Pages, \A i \in U : i < start \/ e <= i,
           NEW r, r = AddFree([map |-> m, heapList |-> h], previous, start, count)
    PROVE  FreeAdded(m, C, U, start, e, r)
<1>1. PICK f, D : f = FreeNodeWords(m, start, count) /\ D = C \cup {start}
  OBVIOUS
<1>2. r = Link([map |-> f, heapList |-> h], previous, start)
  <2>1. PICK area : area = [map |-> m, heapList |-> h]
    OBVIOUS
  <2>2. area.map = m /\ [area EXCEPT !.map = f] = [map |-> f, heapList |-> h]
    BY <2>1
  <2>3. r = AddFree(area, previous, start, count)
    BY <2>1
  <2> QED
    BY <1>1, <2>2, <2>3 DEF AddFree
<1>3. /\ Nodes(m, C, U) /\ Listed(m, h, C) /\ Covered(m, C, U, start)
      /\ \A n \in C : n + PagesOf(m, n) <= start /\ n + PagesOf(m, n) \in U \cup {Pages}
      /\ IF C = {} THEN previous = Ones ELSE previous \in C /\ \A n \in C : n <= previous
  BY DEF Built
<1>4. /\ Pages \in Nat /\ Ones \in Nat /\ Ones > Pages /\ start < Pages
      /\ \A i \in Indices : i \in Nat /\ i < Pages
  BY AreaNumbers
<1>5. /\ Nodes(f, D, U)
      /\ PagesOf(f, start) = count /\ NextOf(f, start) = Ones
      /\ \A k \in C : PagesOf(f, k) = PagesOf(m, k) /\ NextOf(f, k) = NextOf(m, k) /\ k # start
      /\ \A j \in Indices : j < start \/ j >= start + count => f[j] = m[j]
  <2>1. U \in SUBSET U /\ start + count <= Pages
    OBVIOUS
  <2>2. \A k \in C : k + PagesOf(m, k) <= start
    BY <1>3
  <2>3. \A i \in U : i < start \/ start + count <= i
    OBVIOUS
  <2>4. Added(m, C, U, start, count, f)
    BY <1>1, <1>3, <2>1, <2>2, <2>3, NodeAdded
  <2> QED
    BY <1>1, <2>4 DEF Added
<1>6. /\ C \subseteq Indices
      /\ \A k \in C : k \in Nat /\ PagesOf(m, k) \in Nat /\ PagesOf(m, k) > 0
      /\ \A k \in C, i \in U : i < k \/ k + PagesOf(m, k) <= i
      /\ \A i \in U : i \in Nat
  BY <1>3, NodeApart
<1>7. \A k \in C : k < start
  BY <1>3, <1>6
\* With D and its links in place, the rest follows.
<1>8. ASSUME NEW m1 \in [Indices -> Words], NEW h1,
             \A k \in D : /\ m1[k].type = f[k].type /\ IsNode(m1, k)
                          /\ PagesOf(m1, k) = PagesOf(f, k)
                          /\ NextOf(m1, k) = IF k = previous THEN start ELSE NextOf(f, k),
             h1 = IF C = {} THEN start ELSE h,
             Kept(f, m1, U, e)
      PROVE  Built(m1, h1, D, U, e, start) /\ Kept(m, m1, U, e)
  <2>1. Kept(m, m1, U, e)
    BY <1>4, <1>5, <1>8 DEF Kept
  <2>2. \A k \in D : IsNode(m1, k) /\ PagesOf(m1, k) = IF k = start THEN count ELSE PagesOf(m, k)
    BY <1>1, <1>5, <1>8
  <2>3. Nodes(m1, D, U)
    <3>1. /\ f \in [Indices -> Words] /\ D \subseteq Indices /\ U \subseteq Indices
          /\ \A k \in D, i \in U : i < k \/ k + PagesOf(f, k) <= i
          /\ \A k, o \in D : k = o \/ k + PagesOf(f, k) <= o \/ o + PagesOf(f, o) <= k
          /\ \A i \in U : f[i].type = "USED"
      BY <1>5 DEF Nodes
    <3>2. \A i \in U : m1[i].type = "USED"
      BY <1>8, <3>1 DEF Kept
    <3>3. \A k \in D, i \in U : i < k \/ k + PagesOf(m1, k) <= i
      BY <1>8, <3>1
    <3>4. \A k, o \in D : k = o \/ k + PagesOf(m1, k) <= o \/ o + PagesOf(m1, o) <= k
      BY <1>8, <3>1
    <3>5. \A k \in D : IsNode(m1, k)
      BY <2>2
    <3> QED
      BY <1>8, <3>1, <3>2, <3>3, <3>4, <3>5 DEF Nodes
  <2>4. Covered(m1, D, U, e)
    <3> SUFFICES ASSUME NEW i \in Indices, i < e
                 PROVE  i \in U \/ \E n \in D : n <= i /\ i < n + PagesOf(m1, n)
      BY DEF Covered
    <3>1. i \in Nat
      BY <1>4
    <3>2. CASE i < start
      <4>1. i \in U \/ \E n \in C : n <= i /\ i < n + PagesOf(m, n)
        BY <1>3, <3>2 DEF Covered
      <4>2. \A n \in C : n \in D /\ PagesOf(m1, n) = PagesOf(m, n)
        BY <1>1, <1>5, <2>2
      <4> QED
        BY <4>1, <4>2
    <3>3. CASE start <= i
      <4>1. start \in D /\ PagesOf(m1, start) = count
        BY <1>1, <2>2
      <4> QED
        BY <3>3, <4>1
    <3> QED
      BY <3>1, <3>2, <3>3
  <2>5. \A n \in D : n + PagesOf(m1, n) <= e /\ n + PagesOf(m1, n) \in U \cup {Pages}
    <3> TAKE n \in D
    <3>1. CASE n = start
      BY <1>1, <2>2, <3>1
    <3>2. CASE n # start
      <4>1. n \in C /\ PagesOf(m1, n) = PagesOf(m, n)
        BY <1>1, <2>2, <3>2
      <4> QED
        BY <1>3, <1>6, <4>1
    <3> QED
      BY <3>1, <3>2
  <2>6. start \in D /\ \A n \in D : n <= start
    BY <1>1, <1>6, <1>7
  <2>7. Listed(m1, h1, D)
    <3>1. /\ h \in C \cup {Ones} /\ \A n \in C : h <= n
          /\ \A n \in C : /\ NextOf(m, n) \in C \cup {Ones} /\ n < NextOf(m, n)
                          /\ \A k \in C : k <= n \/ NextOf(m, n) <= k
      BY <1>3 DEF Listed
    <3>2. previous # start
      BY <1>3, <1>4, <1>7
    <3>3. NextOf(m1, start) = Ones
      BY <1>1, <1>5, <1>8, <3>2
    <3>4. h1 \in D \cup {Ones} /\ \A n \in D : h1 <= n
      <4>1. CASE C = {}
        BY <1>1, <1>8, <4>1
      <4>2. CASE C # {}
        <5>1. h1 = h /\ previous \in C /\ h <= previous
          BY <1>3, <1>8, <3>1, <4>2
        <5>2. h \in C
          BY <1>4, <1>6, <1>7, <3>1, <5>1
        <5> QED
          BY <1>1, <1>7, <3>1, <5>1, <5>2, <1>6
      <4> QED
        BY <4>1, <4>2
    <3>5. ASSUME NEW n \in D
          PROVE  /\ NextOf(m1, n) \in D \cup {Ones} /\ n < NextOf(m1, n)
                 /\ \A k \in D : k <= n \/ NextOf(m1, n) <= k
      <4>1. CASE n = start
        BY <1>4, <2>6, <3>3, <4>1
      <4>2. CASE n \in C /\ n = previous
        <5>1. NextOf(m1, n) = start /\ \A k \in C : k <= n
          BY <1>3, <1>8, <4>2
        <5> QED
          BY <1>1, <1>7, <2>6, <4>2, <5>1
      <4>3. CASE n \in C /\ n # previous
        <5>1. PICK y : y = NextOf(m, n)
          OBVIOUS
        <5>2. NextOf(m1, n) = y
          BY <1>5, <1>8, <4>3, <5>1
        <5>3. y \in C \cup {Ones} /\ n < y /\ \A k \in C : k <= n \/ y <= k
          BY <3>1, <4>3, <5>1
        <5>4. previous \in C /\ n <= previous /\ n \in Nat /\ previous \in Nat
          BY <1>3, <1>6, <4>3
        <5>5. y <= previous
          BY <4>3, <5>3, <5>4
        <5>6. y <= start
          BY <1>4, <1>6, <1>7, <5>3, <5>4, <5>5
        <5> QED
          BY <1>1, <5>2, <5>3, <5>6
      <4> QED
        BY <1>1, <4>1, <4>2, <4>3
    <3> QED
      BY <3>4, <3>5 DEF Listed
  <2>8. D # {}
    BY <2>6
  <2>9. Built(m1, h1, D, U, e, start)
    BY <2>3, <2>4, <2>5, <2>6, <2>7, <2>8 DEF Built
  <2> QED
    BY <2>1, <2>9
<1>9. CASE C = {}
  <2>1. previous = Ones
    BY <1>3, <1>9
  <2>2. r = [map |-> f, heapList |-> start]
    BY <1>2, <1>4, <2>1, LinkEffect
  <2>3. \A k \in D : IsNode(f, k) /\ k # previous
    BY <1>1, <1>4, <1>5, <1>9, <2>1 DEF Nodes
  <2>4. f \in [Indices -> Words] /\ Kept(f, f, U, e)
    BY <1>5 DEF Nodes, Kept
  <2>5. Built(f, start, D, U, e, start) /\ Kept(m, f, U, e)
    BY <1>8, <1>9, <2>3, <2>4
  <2> QED
    BY <1>1, <2>2, <2>5 DEF FreeAdded
<1>10. CASE C # {}
  <2>1. previous \in C /\ previous \in D
    BY <1>1, <1>3, <1>10
  <2>2. start \in 0 .. Ones
    BY <1>4
  <2>3. PICK m1 : r = [map |-> m1, heapList |-> h] /\ Linked(f, D, previous, start, m1)
    BY <1>2, <1>5, <2>1, <2>2, LinkNode
  <2>4. /\ m1 \in [Indices -> Words]
        /\ \A k \in D : /\ m1[k].type = f[k].type /\ IsNode(m1, k)
                        /\ PagesOf(m1, k) = PagesOf(f, k)
                        /\ NextOf(m1, k) = IF k = previous THEN start ELSE NextOf(f, k)
        /\ \A i \in Indices : i < previous \/ i >= previous + PagesOf(f, previous)
                              => m1[i] = f[i]
    BY <2>3 DEF Linked
  <2>5. Kept(f, m1, U, e)
    <3> SUFFICES ASSUME NEW j \in Indices, j >= e \/ j \in U PROVE m1[j] = f[j]
      BY DEF Kept
    <3>1. j < previous \/ j >= previous + PagesOf(f, previous)
      <4>1. PagesOf(f, previous) = PagesOf(m, previous)
        BY <1>5, <2>1
      <4>2. previous + PagesOf(m, previous) <= start /\ start <= e
        BY <1>3, <1>6, <2>1
      <4>3. j \in U => j < previous \/ previous + PagesOf(m, previous) <= j
        BY <1>6, <2>1
      <4> QED
        BY <1>4, <1>6, <2>1, <4>1, <4>2, <4>3
    <3> QED
      BY <2>4, <3>1
  <2>6. Built(m1, h, D, U, e, start) /\ Kept(m, m1, U, e)
    BY <1>8, <1>10, <2>4, <2>5
  <2> QED
    BY <1>1, <2>3, <2>6 DEF FreeAdded
<1> QED
  BY <1>9, <1>10

\* The states the walk of _Collect over map m may be in: nodes N, and pages U
\* in use, cover m; the open run ends where the walk is.
Collecting(m, N, U) ==
    {s \in [area : [map : [Indices -> Words], heapList : 0 .. Ones], previous : 0 .. Ones,
            start : 0 .. Pages, count : 0 .. Pages, i : 0 .. Pages] :
        /\ s.i \in U \cup N \cup {Pages}
        /\ Kept(m, s.area.map, U, s.i)
        /\ s.count > 0 => /\ s.start + s.count = s.i
                          /\ \A i \in U : i < s.start \/ s.i <= i
        /\ \E C : Built(s.area.map, s.area.heapList, C, U,
                        IF s.count = 0 THEN s.i ELSE s.start, s.previous)}

LEMMA BuiltType ==
    ASSUME NEW m, NEW h, NEW C, NEW U, NEW e, NEW previous, Built(m, h, C, U, e, previous)
    PROVE  m \in [Indices -> Words] /\ h \in 0 .. Ones /\ previous \in 0 .. Ones
<1>1. m \in [Indices -> Words] /\ C \subseteq Indices /\ h \in C \cup {Ones}
  BY DEF Built, Nodes, Listed
<1>2. previous \in C \cup {Ones}
  BY DEF Built
<1> QED
  BY <1>1, <1>2, AreaNumbers

\* The run that is open, if any, is closed.
Closed(m, U, s, r) ==
    /\ r \in [area : [map : [Indices -> Words], heapList : 0 .. Ones], previous : 0 .. Ones,
              start : 0 .. Pages, count : 0 .. Pages, i : 0 .. Pages]
    /\ r.i = s.i /\ r.count = 0
    /\ Kept(m, r.area.map, U, s.i)
    /\ \E C : Built(r.area.map, r.area.heapList, C, U, s.i, r.previous)

LEMMA CloseRunEffect ==
    ASSUME NEW m, NEW N, NEW U, NEW s \in Collecting(m, N, U), s.i \in U \cup {Pages},
           NEW r, r = CloseRun(s)
    PROVE  Closed(m, U, s, r)
<1>1. /\ s \in [area : [map : [Indices -> Words], heapList : 0 .. Ones], previous : 0 .. Ones,
                start : 0 .. Pages, count : 0 .. Pages, i : 0 .. Pages]
      /\ Kept(m, s.area.map, U, s.i)
      /\ s.count > 0 => /\ s.start + s.count = s.i
                        /\ \A i \in U : i < s.start \/ s.i <= i
      /\ \E C : Built(s.area.map, s.area.heapList, C, U,
                      IF s.count = 0 THEN s.i ELSE s.start, s.previous)
  BY DEF Collecting
<1>2. s.count \in Nat /\ s.start \in Nat /\ s.i \in Nat /\ s.i <= Pages /\ s.start \in 0 .. Pages
  BY <1>1, AreaNumbers
<1>3. CASE s.count = 0
  <2>1. r = s
    BY <1>3 DEF CloseRun
  <2> QED
    BY <1>1, <1>3, <2>1 DEF Closed
<1>4. CASE s.count # 0
  <2>1. PICK m0, h0 : /\ m0 = s.area.map /\ h0 = s.area.heapList
                      /\ s.area = [map |-> m0, heapList |-> h0]
    BY <1>1
  <2>2. PICK C : Built(m0, h0, C, U, s.start, s.previous)
    BY <1>1, <1>4, <2>1
  <2>3. PICK a : a = AddFree(s.area, s.previous, s.start, s.count)
    OBVIOUS
  <2>4. FreeAdded(m0, C, U, s.start, s.i, a)
    <3>1. s.count \in Nat \ {0} /\ s.i = s.start + s.count /\ \A i \in U : i < s.start \/ s.i <= i
      BY <1>1, <1>2, <1>4
    <3>2. a = AddFree([map |-> m0, heapList |-> h0], s.previous, s.start, s.count)
      BY <2>1, <2>3
    <3> QED
      BY <1>2, <2>2, <3>1, <3>2, AddFreeEffect
  <2>5. PICK m1, h1 : /\ a = [map |-> m1, heapList |-> h1]
                      /\ Built(m1, h1, C \cup {s.start}, U, s.i, s.start)
                      /\ Kept(m0, m1, U, s.i)
    BY <2>4 DEF FreeAdded
  <2>6. m1 \in [Indices -> Words] /\ h1 \in 0 .. Ones /\ s.start \in 0 .. Ones
    BY <2>5, BuiltType
  <2>7. r = [area |-> a, previous |-> s.start, start |-> s.start, count |-> 0, i |-> s.i]
    <3>1. r = [s EXCEPT !.area = a, !.previous = s.start, !.count = 0]
      BY <1>4, <2>3 DEF CloseRun
    <3> QED
      BY <1>1, <3>1
  <2>8. r \in [area : [map : [Indices -> Words], heapList : 0 .. Ones], previous : 0 .. Ones,
               start : 0 .. Pages, count : 0 .. Pages, i : 0 .. Pages]
    <3>1. 0 \in 0 .. Pages
      BY AreaNumbers
    <3> QED
      BY <1>1, <1>2, <2>5, <2>6, <2>7, <3>1
  <2>9. r.i = s.i /\ r.count = 0 /\ r.area.map = m1 /\ r.area.heapList = h1 /\ r.previous = s.start
    BY <2>5, <2>7
  <2>10. Kept(m, m1, U, s.i)
    BY <1>1, <2>1, <2>5 DEF Kept
  <2> QED
    BY <2>5, <2>8, <2>9, <2>10 DEF Closed
<1> QED
  BY <1>3, <1>4

\* Behind a page in use, and behind a free node, there is one or the other.
LEMMA NextPage ==
    ASSUME NEW m, NEW N, NEW U, Nodes(m, N, U), Covered(m, N, U, Pages), NEW i \in U \cup N
    PROVE  /\ i \in U => i \notin N /\ i + 1 \in U \cup N \cup {Pages}
           /\ i \in N => i + PagesOf(m, i) \in U \cup N \cup {Pages}
<1>1. /\ N \subseteq Indices /\ U \subseteq Indices
      /\ \A k \in N : /\ k \in Nat /\ PagesOf(m, k) \in Nat
                      /\ PagesOf(m, k) > 0 /\ k + PagesOf(m, k) <= Pages
      /\ \A k \in N, u \in U : u < k \/ k + PagesOf(m, k) <= u
      /\ \A k, o \in N : k = o \/ k + PagesOf(m, k) <= o \/ o + PagesOf(m, o) <= k
      /\ \A u \in U : u \in Nat
  BY NodeApart
<1>2. i \in Nat /\ i < Pages /\ Pages \in Nat /\ Indices = 0 .. Pages - 1
  BY <1>1, AreaNumbers
<1>3. ASSUME i \in U PROVE i \notin N /\ i + 1 \in U \cup N \cup {Pages}
  <2>1. i \notin N
    BY <1>1, <1>3
  <2>2. PICK e \in Nat : e = i + 1
    BY <1>2
  <2>3. CASE e < Pages
    <3>1. e \in Indices
      BY <1>2, <2>3
    <3>2. e \in U \/ \E n \in N : n <= e /\ e < n + PagesOf(m, n)
      BY <2>3, <3>1 DEF Covered
    <3>3. ASSUME NEW n \in N, n <= e, e < n + PagesOf(m, n) PROVE n = e
      <4>1. i < n \/ n + PagesOf(m, n) <= i
        BY <1>1, <1>3
      <4> QED
        BY <1>1, <1>2, <2>2, <3>3, <4>1
    <3> QED
      BY <2>1, <2>2, <3>2, <3>3
  <2>4. CASE e >= Pages
    <3>1. e = Pages
      BY <1>2, <2>2, <2>4
    <3> QED
      BY <2>1, <2>2, <3>1
  <2> QED
    BY <1>2, <2>2, <2>3, <2>4
<1>4. ASSUME i \in N PROVE i + PagesOf(m, i) \in U \cup N \cup {Pages}
  <2>1. PICK e : e = i + PagesOf(m, i)
    OBVIOUS
  <2>2. e \in Nat /\ e <= Pages
    BY <1>1, <1>4, <2>1
  <2>3. CASE e < Pages
    <3>1. e \in Indices
      BY <1>2, <2>2, <2>3
    <3>2. e \in U \/ \E n \in N : n <= e /\ e < n + PagesOf(m, n)
      BY <2>3, <3>1 DEF Covered
    <3>3. ASSUME NEW n \in N, n <= e, e < n + PagesOf(m, n) PROVE n = e
      <4>1. n = i \/ n + PagesOf(m, n) <= i \/ e <= n
        BY <1>1, <1>4, <2>1
      <4>2. n # i
        BY <2>1, <2>2, <3>3
      <4>3. ~(n + PagesOf(m, n) <= i)
        BY <1>1, <1>4, <2>1, <3>3
      <4> QED
        BY <1>1, <2>2, <3>3, <4>1, <4>2, <4>3
    <3> QED
      BY <2>1, <3>2, <3>3
  <2> QED
    BY <1>2, <2>1, <2>2, <2>3
<1> QED
  BY <1>3, <1>4

\* One round of _Collect keeps to these states, and gets on.
LEMMA CollectWordEffect ==
    ASSUME NEW m, NEW N, NEW U, Nodes(m, N, U), Covered(m, N, U, Pages),
           NEW s \in Collecting(m, N, U), NEW r, r = CollectWord(s)
    PROVE  r \in Collecting(m, N, U) /\ (s.i = Pages \/ s.i < r.i)
<1>1. /\ s \in [area : [map : [Indices -> Words], heapList : 0 .. Ones], previous : 0 .. Ones,
                start : 0 .. Pages, count : 0 .. Pages, i : 0 .. Pages]
      /\ s.i \in U \cup N \cup {Pages}
      /\ Kept(m, s.area.map, U, s.i)
      /\ s.count > 0 => /\ s.start + s.count = s.i
                        /\ \A i \in U : i < s.start \/ s.i <= i
      /\ \E C : Built(s.area.map, s.area.heapList, C, U,
                      IF s.count = 0 THEN s.i ELSE s.start, s.previous)
  BY DEF Collecting
<1>2. PICK i, m0 : i = s.i /\ m0 = s.area.map
  OBVIOUS
<1>3. /\ i \in Nat /\ i <= Pages /\ Pages \in Nat /\ i \in 0 .. Pages
      /\ s.count \in Nat /\ s.start \in Nat /\ s.start \in 0 .. Pages
  BY <1>1, <1>2, AreaNumbers
<1>4. /\ N \subseteq Indices /\ U \subseteq Indices
      /\ \A k \in N : /\ IsNode(m, k) /\ k \in Nat /\ PagesOf(m, k) \in Nat
                      /\ PagesOf(m, k) > 0 /\ k + PagesOf(m, k) <= Pages
      /\ \A k \in N, u \in U : u < k \/ k + PagesOf(m, k) <= u
      /\ \A u \in U : u \in Nat /\ m[u].type = "USED"
  BY NodeApart
<1>5. CASE i = Pages
  <2>1. r = s
    BY <1>2, <1>3, <1>5 DEF CollectWord
  <2> QED
    BY <1>2, <1>5, <2>1
<1>6. CASE i \in U
  <2>1. ~(i >= Pages) /\ i \in Indices /\ m0[i] = m[i] /\ m0[i].type = "USED"
    <3>1. i \in Indices
      BY <1>4, <1>6
    <3>2. ~(i >= Pages)
      BY <3>1, AreaNumbers
    <3>3. m0[i] = m[i]
      BY <1>1, <1>2, <1>6, <3>1 DEF Kept
    <3> QED
      BY <1>4, <1>6, <3>1, <3>2, <3>3
  <2>2. PICK c : c = CloseRun(s)
    OBVIOUS
  <2>3. r = [c EXCEPT !.i = c.i + 1]
    BY <1>2, <2>1, <2>2 DEF CollectWord
  <2>4. /\ c \in [area : [map : [Indices -> Words], heapList : 0 .. Ones], previous : 0 .. Ones,
                  start : 0 .. Pages, count : 0 .. Pages, i : 0 .. Pages]
        /\ c.i = i /\ c.count = 0
        /\ Kept(m, c.area.map, U, i)
        /\ \E C : Built(c.area.map, c.area.heapList, C, U, i, c.previous)
    <3>1. Closed(m, U, s, c)
      BY <1>2, <1>6, <2>2, CloseRunEffect
    <3> QED
      BY <1>2, <3>1 DEF Closed
  <2>5. /\ r.area = c.area /\ r.previous = c.previous /\ r.start = c.start /\ r.count = 0
        /\ r.i = i + 1
    BY <2>3, <2>4
  <2>6. i + 1 \in 0 .. Pages
    BY <1>3, <2>1
  <2>7. r \in [area : [map : [Indices -> Words], heapList : 0 .. Ones], previous : 0 .. Ones,
               start : 0 .. Pages, count : 0 .. Pages, i : 0 .. Pages]
    BY <2>3, <2>4, <2>6
  <2>8. i + 1 \in U \cup N \cup {Pages}
    BY <1>6, NextPage
  <2>9. Kept(m, c.area.map, U, i + 1)
    <3>1. \A j \in Indices : j >= i + 1 => j >= i
      BY <1>3, AreaNumbers
    <3> QED
      BY <2>4, <3>1 DEF Kept
  <2>10. PICK C : Built(c.area.map, c.area.heapList, C, U, i, c.previous)
    BY <2>4
  <2>11. Built(c.area.map, c.area.heapList, C, U, i + 1, c.previous)
    <3>1. \A j \in Indices : j < i + 1 => j < i \/ j \in U
      BY <1>3, <1>6, AreaNumbers
    <3>2. Covered(c.area.map, C, U, i + 1)
      BY <2>10, <3>1 DEF Built, Covered
    <3>3. \A n \in C : n + PagesOf(c.area.map, n) <= i + 1
      <4>1. Nodes(c.area.map, C, U)
        BY <2>10 DEF Built
      <4>2. \A n \in C : n \in Nat /\ PagesOf(c.area.map, n) \in Nat
        BY <4>1, NodeApart
      <4>3. \A n \in C : n + PagesOf(c.area.map, n) <= i
        BY <2>10 DEF Built
      <4> QED
        BY <1>3, <4>2, <4>3
    <3> QED
      BY <2>10, <3>2, <3>3 DEF Built
  <2>12. r \in Collecting(m, N, U)
    BY <2>5, <2>7, <2>8, <2>9, <2>11 DEF Collecting
  <2> QED
    BY <1>2, <1>3, <2>5, <2>12
<1>7. CASE i \in N
  <2>1. i \in Indices /\ ~(i >= Pages) /\ IsNode(m, i)
    BY <1>4, <1>7, AreaNumbers
  <2>2. PICK p : p = PagesOf(m, i)
    OBVIOUS
  <2>3. /\ p \in Nat /\ p > 0 /\ i + p <= Pages
        /\ m[i].type # "USED" /\ \A u \in U : u < i \/ i + p <= u
    BY <1>4, <1>7, <2>1, <2>2, NodePagesType DEF IsNode
  <2>4. m0[i] = m[i]
    BY <1>1, <1>2, <1>3, <2>1 DEF Kept
  <2>5. NodePages(s.area, i) = p
    BY <1>2, <2>2, <2>4 DEF NodePages, PagesOf
  <2>6. PICK b : b = IF s.count = 0 THEN i ELSE s.start
    OBVIOUS
  <2>7. r = [s EXCEPT !.start = b, !.count = s.count + p, !.i = i + p]
    <3>1. /\ s.area.map[s.i].type # "USED"
          /\ ~(s.i >= Pages)
      BY <1>2, <2>1, <2>3, <2>4
    <3> QED
      BY <1>2, <2>5, <2>6, <3>1 DEF CollectWord
  <2>8. /\ r.area = s.area /\ r.previous = s.previous /\ r.start = b /\ r.count = s.count + p
        /\ r.i = i + p
    BY <1>1, <2>7
  <2>9. b + (s.count + p) = i + p /\ b \in Nat /\ b <= i
    BY <1>1, <1>2, <1>3, <2>3, <2>6
  <2>10. b \in 0 .. Pages /\ s.count + p \in 0 .. Pages /\ i + p \in 0 .. Pages
    BY <1>3, <2>3, <2>9
  <2>11. r \in [area : [map : [Indices -> Words], heapList : 0 .. Ones], previous : 0 .. Ones,
                start : 0 .. Pages, count : 0 .. Pages, i : 0 .. Pages]
    BY <1>1, <2>7, <2>10
  <2>12. i + p \in U \cup N \cup {Pages}
    BY <1>7, <2>2, NextPage
  <2>13. Kept(m, m0, U, i + p)
    <3>1. \A j \in Indices : j >= i + p => j >= i
      BY <1>3, <2>3, AreaNumbers
    <3> QED
      BY <1>1, <1>2, <3>1 DEF Kept
  <2>14. \A u \in U : u < b \/ i + p <= u
    <3> TAKE u \in U
    <3>1. u \in Nat /\ (u < i \/ i + p <= u)
      BY <1>4, <2>3
    <3>2. s.count # 0 => u < b \/ i <= u
      BY <1>1, <1>2, <1>3, <2>6
    <3> QED
      BY <1>3, <2>3, <2>6, <3>1, <3>2
  <2>15. s.count + p # 0
    BY <1>3, <2>3
  <2>16. \E C : Built(r.area.map, r.area.heapList, C, U, r.start, r.previous)
    BY <1>1, <1>2, <2>6, <2>8
  <2>17. r \in Collecting(m, N, U)
    BY <1>2, <2>8, <2>9, <2>11, <2>12, <2>13, <2>14, <2>15, <2>16 DEF Collecting
  <2> QED
    BY <1>2, <1>3, <2>3, <2>8, <2>17
<1> QED
  BY <1>1, <1>2, <1>5, <1>6, <1>7

\* Where _Collect begins, and its walk.
CollectFrom(area) == [area |-> [area EXCEPT !.heapList = Ones],
                      previous |-> Ones, start |-> 0, count |-> 0, i |-> 0]
CollectWalk(area) == CHOOSE f : f = [k \in 0 .. Pages |->
                        IF k = 0 THEN CollectFrom(area) ELSE CollectWord(f[k - 1])]

LEMMA CollectIsWalk ==
    ASSUME NEW area
    PROVE  Collect(area) = CloseRun(CollectWalk(area)[Pages]).area
  BY Zenon DEF Collect, CollectWalk, CollectFrom

\* Area r is area m collected: its list has every free page, and no node of it
\* ends where another begins.
Collected(m, U, r) ==
    \E m1, h1, N1 :
        /\ r = [map |-> m1, heapList |-> h1]
        /\ Nodes(m1, N1, U) /\ Covered(m1, N1, U, Pages) /\ Listed(m1, h1, N1)
        /\ Maximal(m1, N1)
        /\ \A i \in U : m1[i] = m[i]

LEMMA CollectEffect ==
    ASSUME NEW m, NEW h \in 0 .. Ones, NEW N, NEW U, Nodes(m, N, U), Covered(m, N, U, Pages),
           NEW area, area = [map |-> m, heapList |-> h]
    PROVE  Collected(m, U, Collect(area))
<1>1. PICK S, g, f, b : /\ S = Collecting(m, N, U) /\ g = [s \in S |-> CollectWord(s)]
                        /\ f = CollectWalk(area) /\ b = CollectFrom(area)
  OBVIOUS
<1>2. /\ Pages \in Nat /\ Ones \in Nat /\ Ones > Pages /\ Indices = 0 .. Pages - 1
      /\ 0 \in Indices
  BY AreaNumbers
<1>3. /\ m \in [Indices -> Words] /\ N \subseteq Indices /\ U \subseteq Indices
      /\ \A k \in N, u \in U : u < k \/ k + PagesOf(m, k) <= u
      /\ \A u \in U : u \in Nat /\ m[u].type = "USED"
      /\ \A k \in N : k \in Nat
  BY NodeApart
<1>4. /\ b = [area |-> [map |-> m, heapList |-> Ones], previous |-> Ones, start |-> 0,
              count |-> 0, i |-> 0]
      /\ b.area.map = m /\ b.area.heapList = Ones /\ b.count = 0 /\ b.i = 0 /\ b.previous = Ones
  <2>1. [area EXCEPT !.heapList = Ones] = [map |-> m, heapList |-> Ones]
    OBVIOUS
  <2>2. b = [area |-> [map |-> m, heapList |-> Ones], previous |-> Ones, start |-> 0,
             count |-> 0, i |-> 0]
    BY <1>1, <2>1 DEF CollectFrom
  <2> QED
    BY <2>2
<1>5. b \in S
  <2>1. b \in [area : [map : [Indices -> Words], heapList : 0 .. Ones], previous : 0 .. Ones,
               start : 0 .. Pages, count : 0 .. Pages, i : 0 .. Pages]
    <3>1. Ones \in 0 .. Ones /\ 0 \in 0 .. Pages
      BY <1>2
    <3> QED
      BY <1>3, <1>4, <3>1
  <2>2. 0 \in U \cup N
    <3>1. 0 \in U \/ \E n \in N : n <= 0 /\ 0 < n + PagesOf(m, n)
      BY <1>2 DEF Covered
    <3>2. \A n \in N : n <= 0 => n = 0
      BY <1>3
    <3> QED
      BY <3>1, <3>2
  <2>3. Kept(m, m, U, 0)
    BY DEF Kept
  <2>4. Built(m, Ones, {}, U, 0, Ones)
    <3>1. Nodes(m, {}, U) /\ Listed(m, Ones, {})
      BY <1>3 DEF Nodes, Listed
    <3>2. Covered(m, {}, U, 0)
      BY AreaNumbers DEF Covered
    <3> QED
      BY <3>1, <3>2 DEF Built
  <2>5. \E C : Built(b.area.map, b.area.heapList, C, U,
                     IF b.count = 0 THEN b.i ELSE b.start, b.previous)
    BY <1>4, <2>4
  <2>6. b.i \in U \cup N \cup {Pages} /\ Kept(m, b.area.map, U, b.i) /\ ~(b.count > 0)
    BY <1>4, <2>2, <2>3
  <2> QED
    BY <1>1, <2>1, <2>5, <2>6 DEF Collecting
<1>6. g \in [S -> S] /\ \A s \in S : s.i = Pages \/ s.i < g[s].i
  <2>1. \A s \in S : CollectWord(s) \in S /\ (s.i = Pages \/ s.i < CollectWord(s).i)
    BY <1>1, CollectWordEffect
  <2> QED
    BY <1>1, <2>1
<1>7. PICK e \in [0 .. Pages -> S] : e[0] = b /\ \A j \in 1 .. Pages : e[j] = g[e[j - 1]]
  <2>1. \E e : IsWalk(e, S, b, g, Pages)
    BY <1>2, <1>5, <1>6, WalksExist
  <2> QED
    BY <2>1 DEF IsWalk
<1>8. e = [k \in 0 .. Pages |-> IF k = 0 THEN CollectFrom(area) ELSE CollectWord(e[k - 1])]
  <2>1. \A k \in 0 .. Pages : k = 0 \/ (k \in 1 .. Pages /\ k - 1 \in 0 .. Pages)
    BY <1>2
  <2>2. \A k \in 0 .. Pages :
           e[k] = IF k = 0 THEN CollectFrom(area) ELSE CollectWord(e[k - 1])
    BY <1>1, <1>7, <2>1
  <2> QED
    BY <1>7, <2>2
<1>9. f = [k \in 0 .. Pages |-> IF k = 0 THEN CollectFrom(area) ELSE CollectWord(f[k - 1])]
  BY <1>1, <1>8, Zenon DEF CollectWalk
<1>10. \A j \in 0 .. Pages : f[j] \in S
  <2>1. f[0] = b /\ \A j \in 1 .. Pages : f[j] = CollectWord(f[j - 1])
    <3>1. 0 \in 0 .. Pages /\ \A j \in 1 .. Pages : j \in 0 .. Pages /\ j # 0
      BY <1>2
    <3> QED
      BY <1>1, <1>9, <3>1
  <2>2. \A j \in 1 .. Pages : f[j - 1] \in S => f[j] \in S
    BY <1>1, <1>6, <2>1
  <2> QED
    BY <1>2, <1>5, <2>1, <2>2, WalkStays
<1>11. \A s \in S : s.i \in Nat /\ s.i <= Pages
  BY <1>1, <1>2 DEF Collecting
\* After k rounds the walk is at page k at least.
<1>12. \A k \in 0 .. Pages : k <= f[k].i
  <2>1. PICK T : T = {k \in 0 .. Pages : ~(k <= f[k].i)}
    OBVIOUS
  <2>2. SUFFICES ASSUME T # {} PROVE FALSE
    BY <2>1
  <2>3. T \in SUBSET Nat
    BY <2>1
  <2>4. PICK k \in T : \A j \in T : k <= j
    BY <2>2, <2>3, Least
  <2>5. k \in 0 .. Pages /\ ~(k <= f[k].i)
    BY <2>1, <2>4
  <2>6. f[k] \in S /\ f[k].i \in Nat
    BY <1>10, <1>11, <2>5
  <2>7. k # 0
    BY <2>5, <2>6
  <2>8. PICK j \in 0 .. Pages : k = j + 1 /\ j \notin T
    <3>1. k - 1 \in 0 .. Pages /\ k = (k - 1) + 1
      BY <1>2, <2>5, <2>7
    <3>2. \A j \in T : j \in Nat /\ k <= j
      BY <2>3, <2>4
    <3>3. k - 1 \notin T
      BY <2>5, <3>2
    <3> QED
      BY <3>1, <3>3
  <2>9. j <= f[j].i /\ f[j] \in S /\ f[j].i \in Nat /\ f[j].i <= Pages
    BY <1>10, <1>11, <2>1, <2>8
  <2>10. f[k] = g[f[j]]
    <3>1. f[k] = CollectWord(f[k - 1]) /\ k - 1 = j
      BY <1>9, <2>5, <2>7, <2>8
    <3> QED
      BY <1>1, <2>9, <3>1
  <2>11. f[j].i = Pages \/ f[j].i < f[k].i
    BY <1>6, <2>9, <2>10
  <2>12. f[j].i = Pages => f[k].i >= f[j].i
    <3> SUFFICES ASSUME f[j].i = Pages PROVE f[k].i >= f[j].i
      OBVIOUS
    <3>1. CollectWord(f[j]) = f[j]
      BY <1>2, <2>9 DEF CollectWord
    <3> QED
      BY <1>1, <2>6, <2>9, <2>10, <3>1
  <2> QED
    BY <1>2, <2>5, <2>6, <2>8, <2>9, <2>11, <2>12
<1>13. PICK s, r : s = f[Pages] /\ r = CloseRun(s)
  OBVIOUS
<1>14. s \in S /\ s.i = Pages
  <2>1. Pages \in 0 .. Pages
    BY <1>2
  <2>2. s \in S /\ Pages <= s.i
    BY <1>10, <1>12, <1>13, <2>1
  <2> QED
    BY <1>2, <1>11, <2>2
<1>15. /\ r \in [area : [map : [Indices -> Words], heapList : 0 .. Ones], previous : 0 .. Ones,
                 start : 0 .. Pages, count : 0 .. Pages, i : 0 .. Pages]
       /\ Kept(m, r.area.map, U, Pages)
       /\ \E C : Built(r.area.map, r.area.heapList, C, U, Pages, r.previous)
  <2>1. Closed(m, U, s, r)
    BY <1>1, <1>13, <1>14, CloseRunEffect
  <2> QED
    BY <1>14, <2>1 DEF Closed
<1>16. PICK m1, h1 : /\ m1 = r.area.map /\ h1 = r.area.heapList
                     /\ r.area = [map |-> m1, heapList |-> h1]
  BY <1>15
<1>17. PICK C : Built(m1, h1, C, U, Pages, r.previous)
  BY <1>15, <1>16
<1>18. /\ Nodes(m1, C, U) /\ Covered(m1, C, U, Pages) /\ Listed(m1, h1, C)
       /\ \A n \in C : n + PagesOf(m1, n) \in U \cup {Pages}
  BY <1>17 DEF Built
<1>19. Maximal(m1, C)
  <2>1. Pages \notin C /\ \A u \in U : u \notin C
    <3>1. /\ C \subseteq Indices
          /\ \A k \in C, u \in U : u < k \/ k + PagesOf(m1, k) <= u
          /\ \A k \in C : k \in Nat /\ PagesOf(m1, k) \in Nat /\ PagesOf(m1, k) > 0
      BY <1>18, NodeApart
    <3>2. Pages \notin C
      BY <1>2, <3>1
    <3>3. ASSUME NEW u \in U, u \in C PROVE FALSE
      <4>1. u < u \/ u + PagesOf(m1, u) <= u
        BY <3>1, <3>3
      <4> QED
        BY <3>1, <3>3, <4>1
    <3> QED
      BY <3>2, <3>3
  <2> QED
    BY <1>18, <2>1 DEF Maximal
<1>20. \A i \in U : m1[i] = m[i]
  BY <1>3, <1>15, <1>16 DEF Kept
<1>21. Collect(area) = [map |-> m1, heapList |-> h1]
  BY <1>1, <1>13, <1>16, CollectIsWalk
<1> QED
  BY <1>18, <1>19, <1>20, <1>21 DEF Collected

-----------------------------------------------------------------------------
(* The area and the runs in use.                                            *)

\* The pages of the runs T.
PagesIn(T) == {i \in Indices : \E t \in T : i \in t.start .. t.start + t.count - 1}

\* The runs T lie in the area, apart from each other, with their sizes on record.
Runs(m, T) ==
    /\ T \subseteq [start : Indices, count : 1 .. Pages]
    /\ \A t \in T : t.start + t.count <= Pages /\ PageCountOfUsedNode(m[t.start]) = t.count
    /\ \A t, u \in T : t = u \/ t.start + t.count <= u.start \/ u.start + u.count <= t.start

\* Free nodes N and runs T fill the area; L are the nodes on its list.
AreaHolds(m, h, N, L, T) ==
    /\ Nodes(m, N, PagesIn(T)) /\ Covered(m, N, PagesIn(T), Pages)
    /\ L \subseteq N /\ Listed(m, h, L)
    /\ Runs(m, T)

\* Unless pages were freed since the last _Collect, every free node is on the
\* list, and no two could be one.
AreaOK == /\ freeNodes \in BOOLEAN
          /\ \E N, L : /\ AreaHolds(map, heapList, N, L, pageTables)
                       /\ freeNodes \/ (L = N /\ Maximal(map, N))

LEMMA RunsType ==
    ASSUME NEW m, NEW T, Runs(m, T)
    PROVE  /\ \A t \in T : /\ t.start \in Nat /\ t.count \in Nat /\ t.count > 0
                           /\ t.start \in Indices /\ t.count \in 1 .. Pages
                           /\ t.start + t.count <= Pages
                           /\ PageCountOfUsedNode(m[t.start]) = t.count
                           /\ t = [start |-> t.start, count |-> t.count]
           /\ \A t, u \in T : t = u \/ t.start + t.count <= u.start
                              \/ u.start + u.count <= t.start
<1>1. /\ T \subseteq [start : Indices, count : 1 .. Pages]
      /\ \A t \in T : t.start + t.count <= Pages /\ PageCountOfUsedNode(m[t.start]) = t.count
      /\ \A t, u \in T : t = u \/ t.start + t.count <= u.start \/ u.start + u.count <= t.start
  BY DEF Runs
<1>2. \A t \in T : t.start \in Indices /\ t.count \in 1 .. Pages
                   /\ t = [start |-> t.start, count |-> t.count]
  BY <1>1
<1>3. \A t \in T : t.start \in Nat /\ t.count \in Nat /\ t.count > 0
  BY <1>2, AreaNumbers
<1> QED
  BY <1>1, <1>2, <1>3

LEMMA PagesInFacts ==
    ASSUME NEW m, NEW T, Runs(m, T), NEW U, U = PagesIn(T)
    PROVE  /\ \A i \in Int : i \in U <=> \E t \in T : t.start <= i /\ i < t.start + t.count
           /\ \A t \in T : t.start \in U
<1>1. \A t \in T : /\ t.start \in Nat /\ t.count \in Nat /\ t.count > 0
                   /\ t.start + t.count <= Pages
  BY RunsType
<1>2. ASSUME NEW t \in T, NEW i \in Int
      PROVE  i \in t.start .. t.start + t.count - 1 <=> t.start <= i /\ i < t.start + t.count
  BY <1>1
<1>3. ASSUME NEW t \in T, NEW i \in Int, t.start <= i, i < t.start + t.count
      PROVE  i \in U
  <2>1. i \in Indices
    BY <1>1, <1>3, AreaNumbers
  <2> QED
    BY <1>2, <1>3, <2>1 DEF PagesIn
<1>4. ASSUME NEW i \in Int, i \in U
      PROVE  \E t \in T : t.start <= i /\ i < t.start + t.count
  BY <1>2, <1>4 DEF PagesIn
<1>5. \A t \in T : t.start \in U
  <2> TAKE t \in T
  <2>1. t.start \in Int /\ t.start <= t.start /\ t.start < t.start + t.count
    BY <1>1
  <2> QED
    BY <1>3, <2>1
<1> QED
  BY <1>3, <1>4, <1>5

\* The runs stay good when their words and those of their pages do.
LEMMA RunsKept ==
    ASSUME NEW m, NEW T, Runs(m, T), NEW f, \A i \in PagesIn(T) : f[i] = m[i]
    PROVE  Runs(f, T)
<1>1. \A t \in T : f[t.start] = m[t.start]
  BY PagesInFacts
<1> QED
  BY <1>1 DEF Runs

\* A run of pages that are not in use is apart from the runs that are.
LEMMA RunApart ==
    ASSUME NEW m, NEW T, Runs(m, T), NEW s \in Nat, NEW count \in Nat \ {0},
           \A i \in s .. s + count - 1 : i \notin PagesIn(T), NEW u \in T
    PROVE  u.start + u.count <= s \/ s + count <= u.start
<1>1. u.start \in Nat /\ u.count \in Nat /\ u.count > 0
  BY RunsType
<1>2. PICK U : U = PagesIn(T)
  OBVIOUS
<1>3. u.start \in U /\ \A i \in Int : u.start <= i /\ i < u.start + u.count => i \in U
  BY <1>2, PagesInFacts
<1>4. s \in s .. s + count - 1
  OBVIOUS
<1>5. s \notin U
  BY <1>2, <1>4
<1>6. s < u.start \/ u.start + u.count <= s
  BY <1>1, <1>3, <1>5
<1>7. s < u.start => s + count <= u.start
  <2> SUFFICES ASSUME s < u.start, u.start < s + count PROVE FALSE
    BY <1>1
  <2>1. u.start \in s .. s + count - 1
    BY <1>1
  <2> QED
    BY <1>2, <1>3, <2>1
<1> QED
  BY <1>6, <1>7

\* Runs T and t, of count pages from s, are those in use.
RunsWith(f, T, s, count, t) ==
    /\ Runs(f, T \cup {t})
    /\ PagesIn(T \cup {t}) = PagesIn(T) \cup (s .. s + count - 1)
    /\ \A u \in T : u.start + u.count <= s \/ s + count <= u.start

\* The pages that are taken become a run.
LEMMA RunAdded ==
    ASSUME NEW m, NEW N, NEW L, NEW T, Runs(m, T), NEW s, NEW count \in 1 .. Pages,
           NEW f, NEW h1, TakenAt(m, N, PagesIn(T), L, s, count, f, h1),
           NEW t, t = [start |-> s, count |-> count]
    PROVE  RunsWith(f, T, s, count, t)
<1>1. PICK U, R : U = PagesIn(T) /\ R = T \cup {t}
  OBVIOUS
<1>2. /\ s \in Indices /\ s + count <= Pages
      /\ \A i \in s .. s + count - 1 : i \notin U
      /\ \A i \in U : f[i] = m[i]
      /\ f[s] = Word("USED", IF count = 1 THEN Ones ELSE count)
  BY <1>1 DEF TakenAt
<1>3. s \in Nat /\ count \in Nat \ {0} /\ Pages \in Nat /\ Ones > Pages
  BY <1>2, AreaNumbers
<1>4. \A u \in T : u.start + u.count <= s \/ s + count <= u.start
  BY <1>1, <1>2, <1>3, RunApart
<1>5. PageCountOfUsedNode(f[s]) = count
  BY <1>2, <1>3 DEF PageCountOfUsedNode, Word
<1>6. t.start = s /\ t.count = count /\ t \in [start : Indices, count : 1 .. Pages]
  BY <1>2
<1>7. Runs(f, T)
  BY <1>1, <1>2, RunsKept
<1>8. Runs(f, R)
  <2>1. /\ T \subseteq [start : Indices, count : 1 .. Pages]
        /\ \A u \in T : u.start + u.count <= Pages /\ PageCountOfUsedNode(f[u.start]) = u.count
        /\ \A u, v \in T : u = v \/ u.start + u.count <= v.start \/ v.start + v.count <= u.start
    BY <1>7 DEF Runs
  <2>2. R \subseteq [start : Indices, count : 1 .. Pages]
    BY <1>1, <1>6, <2>1
  <2>3. \A u \in R : u.start + u.count <= Pages /\ PageCountOfUsedNode(f[u.start]) = u.count
    BY <1>1, <1>2, <1>5, <1>6, <2>1
  <2>4. \A u, v \in R : u = v \/ u.start + u.count <= v.start \/ v.start + v.count <= u.start
    BY <1>1, <1>4, <1>6, <2>1
  <2> QED
    BY <2>2, <2>3, <2>4 DEF Runs
<1>9. PagesIn(R) = U \cup (s .. s + count - 1)
  <2>1. \A i \in s .. s + count - 1 : i \in Indices
    BY <1>2, <1>3, AreaNumbers
  <2>2. \A i \in Indices : i \in PagesIn(R) <=> i \in U \/ i \in s .. s + count - 1
    BY <1>1, <1>6 DEF PagesIn
  <2>3. PagesIn(R) \subseteq Indices /\ U \subseteq Indices
    BY <1>1 DEF PagesIn
  <2> QED
    BY <2>1, <2>2, <2>3
<1> QED
  BY <1>1, <1>4, <1>8, <1>9 DEF RunsWith

\* After m, N and L pages were taken.
AreaTaken(m, N, L, m1, h1, T1) ==
    \E N1, L1 : /\ AreaHolds(m1, h1, N1, L1, T1)
                /\ L = N => L1 = N1
                /\ Maximal(m, N) => Maximal(m1, N1)

\* Take, with the list and the place in it as parameters.
FirstLarge(area, count) ==
    CHOOSE k \in LargeEnough(area, count) : \A l \in LargeEnough(area, count) : k <= l
TakeFrom(area, count, list, k) ==
    /\ map' = MarkUsed(LastPages(area, IF k = 1 THEN Ones ELSE list[k - 1], list[k], count).map,
                       list[k] + NodePages(area, list[k]) - count, count)
    /\ heapList' = LastPages(area, IF k = 1 THEN Ones ELSE list[k - 1], list[k], count).heapList
    /\ pageTables' = pageTables \cup
          {[start |-> list[k] + NodePages(area, list[k]) - count, count |-> count]}

\* The second half of _AllocatePages: it takes pages that were free.
LEMMA TakeStep ==
    ASSUME NEW m, NEW h, NEW N, NEW L, AreaHolds(m, h, N, L, pageTables),
           NEW count \in 1 .. Pages, NEW area, area = [map |-> m, heapList |-> h],
           LargeEnough(area, count) # {}, Take(area, count)
    PROVE  AreaTaken(m, N, L, map', heapList', pageTables') /\ AreaSpace!Next
<1>1. PICK U, list, E : /\ U = PagesIn(pageTables) /\ list = FreeList(area)
                        /\ E = LargeEnough(area, count)
  OBVIOUS
<1>2. /\ Nodes(m, N, U) /\ Covered(m, N, U, Pages)
      /\ L \subseteq N /\ Listed(m, h, L) /\ Runs(m, pageTables)
  BY <1>1 DEF AreaHolds
<1>3. /\ m \in [Indices -> Words] /\ N \subseteq Indices
      /\ \A k \in N : k \in Nat /\ PagesOf(m, k) \in Nat
      /\ \A k \in Indices : k \in Nat /\ k # Ones
      /\ Pages \in Nat /\ Ones \in Nat /\ Pages < Ones
  BY <1>2, NodeApart, AreaNumbers
<1>4. area.map = m /\ area.heapList = h
  OBVIOUS
<1>5. PICK z \in Nat :
        /\ DOMAIN list = 1 .. z
        /\ \A k \in 1 .. z : list[k] \in L
        /\ \A k, l \in 1 .. z : k < l => list[k] < list[l]
        /\ \A k \in 1 .. z : IF k = 1 THEN list[k] = h ELSE list[k] = NextOf(m, list[k - 1])
  <2>1. L \in SUBSET Indices
    BY <1>2, <1>3
  <2>2. ListOf(m, h, L, list)
    BY <1>1, <1>2, <1>4, <2>1, ListComplete
  <2> QED
    BY <2>2 DEF ListOf
<1>6. \A n \in Indices : NodePages(area, n) = PagesOf(m, n)
  BY <1>4 DEF NodePages, PagesOf
<1>7. PICK k : k = FirstLarge(area, count)
  OBVIOUS
<1>8. k \in 1 .. z /\ NodePages(area, list[k]) >= count
  <2>1. E = {j \in 1 .. z : NodePages(area, list[j]) >= count}
    BY <1>1, <1>5 DEF LargeEnough
  <2>2. E \in SUBSET Nat /\ E # {}
    BY <1>1, <2>1
  <2>3. \E j \in E : \A l \in E : j <= l
    BY <2>2, Least
  <2>4. k \in E
    BY <1>1, <1>7, <2>3 DEF FirstLarge
  <2> QED
    BY <2>1, <2>4
<1>9. PICK n, previous, left, s : /\ n = list[k] /\ previous = IF k = 1 THEN Ones ELSE list[k - 1]
                                  /\ left = PagesOf(m, n) - count /\ s = n + left
  OBVIOUS
<1>10. /\ n \in L /\ n \in N /\ n \in Indices
       /\ PagesOf(m, n) >= count /\ NodePages(area, n) = PagesOf(m, n)
  BY <1>2, <1>3, <1>5, <1>6, <1>8, <1>9
<1>11. count \in 1 .. PagesOf(m, n)
  BY <1>3, <1>10
<1>12. /\ \/ previous = Ones /\ h = n
          \/ previous \in L /\ NextOf(m, previous) = n
       /\ previous = Ones \/ previous \in N \ {n}
  <2>1. CASE k = 1
    BY <1>5, <1>8, <1>9, <2>1
  <2>2. CASE k # 1
    <3>1. k - 1 \in 1 .. z /\ k - 1 < k
      BY <1>8, <2>2
    <3>2. previous = list[k - 1] /\ previous \in L /\ previous < n /\ NextOf(m, previous) = n
      BY <1>5, <1>8, <1>9, <2>2, <3>1
    <3> QED
      BY <1>2, <1>3, <1>10, <3>2
  <2> QED
    BY <2>1, <2>2
<1>13. NextOf(m, n) \in 0 .. Ones
  <2>1. NextOf(m, n) \in L \cup {Ones}
    BY <1>2, <1>10 DEF Listed
  <2>2. \A o \in L : o \in 0 .. Ones
    <3>1. \A o \in L : o \in Indices
      BY <1>2, <1>3
    <3> QED
      BY <1>3, <3>1, AreaNumbers
  <2>3. Ones \in 0 .. Ones
    BY <1>3
  <2> QED
    BY <2>1, <2>2, <2>3
<1>14. PICK rest : rest = LastPages(area, previous, n, count)
  OBVIOUS
<1>15. \E m1, h1 : /\ rest = [map |-> m1, heapList |-> h1]
                   /\ Shortened(m, h, N, n, previous, PagesOf(m, n) - count, m1, h1)
  BY <1>2, <1>10, <1>11, <1>12, <1>13, <1>14, LastPagesEffect
<1>16. PICK m1, h1 : /\ rest = [map |-> m1, heapList |-> h1]
                     /\ Shortened(m, h, N, n, previous, left, m1, h1)
  BY <1>9, <1>15
<1>17. PICK f, t : f = MarkUsed(m1, n + left, count) /\ t = [start |-> s, count |-> count]
  OBVIOUS
<1>18. map' = f /\ heapList' = h1 /\ pageTables' = pageTables \cup {t}
  <2>1. rest.map = m1 /\ rest.heapList = h1
    BY <1>16
  <2>2. list[k] + NodePages(area, list[k]) - count = s
    BY <1>3, <1>9, <1>10
  <2>3. /\ map' = MarkUsed(rest.map, s, count)
        /\ heapList' = rest.heapList
        /\ pageTables' = pageTables \cup {[start |-> s, count |-> count]}
    <3>1. rest = LastPages(area, IF k = 1 THEN Ones ELSE list[k - 1], list[k], count)
      BY <1>9, <1>14
    <3>2. TakeFrom(area, count, FreeList(area), FirstLarge(area, count))
      BY Zenon DEF Take, TakeFrom, FirstLarge
    <3>3. TakeFrom(area, count, list, k)
      BY <1>1, <1>7, <3>2
    <3> QED
      BY <2>2, <3>1, <3>3 DEF TakeFrom
  <2> QED
    BY <1>9, <1>17, <2>1, <2>3
<1>19. TakenAt(m, N, U, L, s, count, f, h1)
  BY <1>2, <1>9, <1>10, <1>11, <1>12, <1>16, <1>17, TakenEffect
<1>20. PICK T1 : T1 = pageTables \cup {t}
  OBVIOUS
<1>21. /\ Runs(f, T1) /\ PagesIn(T1) = U \cup (s .. s + count - 1)
       /\ \A u \in pageTables : u.start + u.count <= s \/ s + count <= u.start
  <2>1. RunsWith(f, pageTables, s, count, t)
    BY <1>1, <1>2, <1>17, <1>19, RunAdded
  <2> QED
    BY <1>1, <1>20, <2>1 DEF RunsWith
<1>22. PICK N1, L1 :
        /\ Nodes(f, N1, PagesIn(T1)) /\ Covered(f, N1, PagesIn(T1), Pages)
        /\ L1 \subseteq N1 /\ Listed(f, h1, L1)
        /\ L = N => L1 = N1
        /\ Maximal(m, N) => Maximal(f, N1)
  BY <1>19, <1>21 DEF TakenAt, NodesLeft
<1>23. AreaTaken(m, N, L, f, h1, T1)
  <2>1. AreaHolds(f, h1, N1, L1, T1)
    BY <1>21, <1>22 DEF AreaHolds
  <2> QED
    BY <1>22, <2>1 DEF AreaTaken
<1>24. AreaSpace!Next
  <2>1. /\ s \in Indices /\ s \in Nat /\ count \in Nat /\ count > 0 /\ s + count <= Pages
        /\ t.start = s /\ t.count = count
    BY <1>3, <1>17, <1>19, AreaNumbers DEF TakenAt
  <2>2. t \in AreaSpace!Interval /\ AreaSpace!Fits(t)
    BY <1>17, <2>1, AreaNumbers DEF AreaSpace!Interval, AreaSpace!Fits
  <2>3. ASSUME NEW j \in pageTables PROVE AreaSpace!Cells(t) \cap AreaSpace!Cells(j) = {}
    <3>1. j.start \in Nat /\ j.count \in Nat
      BY <1>2, RunsType
    <3>2. j.start + j.count <= s \/ s + count <= j.start
      BY <1>21
    <3> QED
      BY <2>1, <3>1, <3>2 DEF AreaSpace!Cells
  <2> QED
    BY <1>18, <2>2, <2>3 DEF AreaSpace!Next, AreaSpace!Allocate
<1> QED
  BY <1>18, <1>20, <1>23, <1>24

\* _Collect: the runs in use stay, and the list has all free pages again.
AreaCollected(T, r) ==
    \E m1, h1, N1 : /\ r = [map |-> m1, heapList |-> h1]
                    /\ AreaHolds(m1, h1, N1, N1, T) /\ Maximal(m1, N1)

LEMMA CollectStep ==
    ASSUME NEW m, NEW h, NEW N, NEW L, NEW T, AreaHolds(m, h, N, L, T),
           NEW area, area = [map |-> m, heapList |-> h]
    PROVE  AreaCollected(T, Collect(area))
<1>1. PICK U, r : U = PagesIn(T) /\ r = Collect(area)
  OBVIOUS
<1>2. Nodes(m, N, U) /\ Covered(m, N, U, Pages) /\ Listed(m, h, L) /\ L \subseteq N /\ Runs(m, T)
  BY <1>1 DEF AreaHolds
<1>3. h \in 0 .. Ones
  <2>1. h \in L \cup {Ones} /\ L \subseteq Indices
    BY <1>2 DEF Listed, Nodes
  <2> QED
    BY <2>1, AreaNumbers
<1>4. Collected(m, U, r)
  BY <1>1, <1>2, <1>3, CollectEffect
<1>5. PICK m1, h1, N1 :
        /\ r = [map |-> m1, heapList |-> h1]
        /\ Nodes(m1, N1, U) /\ Covered(m1, N1, U, Pages) /\ Listed(m1, h1, N1)
        /\ Maximal(m1, N1)
        /\ \A i \in U : m1[i] = m[i]
  BY <1>4 DEF Collected
<1>6. Runs(m1, T)
  BY <1>1, <1>2, <1>5, RunsKept
<1>7. AreaHolds(m1, h1, N1, N1, T)
  BY <1>1, <1>5, <1>6 DEF AreaHolds
<1> QED
  BY <1>1, <1>5, <1>7 DEF AreaCollected

\* _FreePages: the run becomes a free node that is not on the list.
LEMMA FreeStep ==
    ASSUME NEW m, NEW h, NEW N, NEW L, NEW T, AreaHolds(m, h, N, L, T), NEW t \in T,
           NEW f, f = FreeNodeWords(m, t.start, t.count)
    PROVE  AreaHolds(f, h, N \cup {t.start}, L, T \ {t})
<1>1. PICK U, V, s, c, e, D, R : /\ U = PagesIn(T) /\ V = PagesIn(R) /\ s = t.start /\ c = t.count
                                 /\ e = s + c /\ D = N \cup {s} /\ R = T \ {t}
  <2>1. PICK R : R = T \ {t}
    OBVIOUS
  <2> QED
    BY <2>1
<1>2. Nodes(m, N, U) /\ Covered(m, N, U, Pages) /\ Listed(m, h, L) /\ L \subseteq N /\ Runs(m, T)
  BY <1>1 DEF AreaHolds
<1>3. /\ m \in [Indices -> Words] /\ N \subseteq Indices /\ U \subseteq Indices
      /\ \A k \in N : /\ k \in Nat /\ PagesOf(m, k) \in Nat
                      /\ PagesOf(m, k) > 0 /\ k + PagesOf(m, k) <= Pages
      /\ \A k \in N, i \in U : i < k \/ k + PagesOf(m, k) <= i
      /\ \A i \in U : i \in Nat
  BY <1>2, NodeApart
<1>4. /\ s \in Nat /\ c \in Nat /\ c > 0 /\ s + c <= Pages
      /\ s \in Indices /\ e \in Nat /\ e <= Pages
      /\ \A u \in R : /\ u.start \in Nat /\ u.count \in Nat
                      /\ u.start + u.count <= s \/ e <= u.start
  <2>1. /\ \A u \in T : /\ u.start \in Nat /\ u.count \in Nat /\ u.count > 0
                        /\ u.start \in Indices /\ u.start + u.count <= Pages
        /\ \A u, v \in T : u = v \/ u.start + u.count <= v.start \/ v.start + v.count <= u.start
    BY <1>2, RunsType
  <2>2. \A u \in R : u.start + u.count <= s \/ e <= u.start
    BY <1>1, <2>1
  <2>3. \A u \in R : u.start \in Nat /\ u.count \in Nat
    BY <1>1, <2>1
  <2>4. s \in Nat /\ c \in Nat /\ c > 0 /\ s + c <= Pages /\ s \in Indices
    BY <1>1, <2>1
  <2> QED
    BY <1>1, <2>2, <2>3, <2>4
<1>5. \A i \in Int : i \in U <=> \E u \in T : u.start <= i /\ i < u.start + u.count
  BY <1>1, <1>2, PagesInFacts
<1>6. Runs(m, R)
  BY <1>1, <1>2 DEF Runs
<1>7. \A i \in Int : i \in V <=> \E u \in R : u.start <= i /\ i < u.start + u.count
  BY <1>1, <1>6, PagesInFacts
<1>8. /\ V \subseteq U /\ \A i \in V : i < s \/ e <= i
      /\ \A i \in Nat : s <= i /\ i < e => i \in U
      /\ \A i \in U : i \in V \/ (s <= i /\ i < e)
  <2>1. V \subseteq Indices /\ \A i \in Indices : i \in Int
    BY <1>1, AreaNumbers DEF PagesIn
  <2>2. \A i \in V : i < s \/ e <= i
    BY <1>4, <1>7, <2>1
  <2>3. V \subseteq U
    BY <1>1, <1>5, <1>7, <2>1
  <2>4. \A i \in Nat : s <= i /\ i < e => i \in U
    BY <1>1, <1>5
  <2>5. \A i \in U : i \in V \/ (s <= i /\ i < e)
    <3> TAKE i \in U
    <3>1. i \in Int
      BY <1>3
    <3>2. PICK u \in T : u.start <= i /\ i < u.start + u.count
      BY <1>5, <3>1
    <3>3. CASE u = t
      BY <1>1, <3>2, <3>3
    <3>4. CASE u # t
      <4>1. u \in R
        BY <1>1, <3>4
      <4> QED
        BY <1>7, <3>1, <3>2, <4>1
    <3> QED
      BY <3>3, <3>4
  <2> QED
    BY <2>2, <2>3, <2>4, <2>5
<1>9. \A k \in N : k + PagesOf(m, k) <= s \/ e <= k
  <2> TAKE k \in N
  <2>1. s \in U
    BY <1>1, <1>4, <1>8
  <2>2. s < k \/ k + PagesOf(m, k) <= s
    BY <1>3, <2>1
  <2>3. k \notin U
    <3>1. k \in U => k < k \/ k + PagesOf(m, k) <= k
      BY <1>3
    <3> QED
      BY <1>3, <3>1
  <2> QED
    BY <1>3, <1>4, <1>8, <2>2, <2>3
<1>10. Added(m, N, V, s, c, f)
  <2>1. V \in SUBSET U /\ c \in Nat \ {0} /\ f = FreeNodeWords(m, s, c)
    <3>1. f = FreeNodeWords(m, s, c)
      BY <1>1
    <3>2. V \in SUBSET U /\ c \in Nat \ {0}
      BY <1>4, <1>8
    <3> QED
      BY <3>1, <3>2
  <2>2. \A k \in N : k + PagesOf(m, k) <= s \/ s + c <= k
    BY <1>1, <1>9
  <2>3. \A i \in V : i < s \/ s + c <= i
    BY <1>1, <1>8
  <2> QED
    BY <1>2, <1>4, <2>1, <2>2, <2>3, NodeAdded
<1>11. /\ Nodes(f, D, V) /\ PagesOf(f, s) = c
       /\ \A k \in N : PagesOf(f, k) = PagesOf(m, k) /\ NextOf(f, k) = NextOf(m, k)
       /\ \A j \in Indices : j < s \/ j >= e => f[j] = m[j]
  BY <1>1, <1>10 DEF Added
<1>12. Covered(f, D, V, Pages)
  <2> SUFFICES ASSUME NEW i \in Indices
               PROVE  i \in V \/ \E k \in D : k <= i /\ i < k + PagesOf(f, k)
    BY DEF Covered
  <2>1. i \in U \/ \E k \in N : k <= i /\ i < k + PagesOf(m, k)
    BY <1>2, AreaNumbers DEF Covered
  <2>2. CASE i \in U /\ i \notin V
    <3>1. s <= i /\ i < s + PagesOf(f, s) /\ s \in D
      BY <1>1, <1>8, <1>11, <2>2
    <3> QED
      BY <3>1
  <2>3. CASE \E k \in N : k <= i /\ i < k + PagesOf(m, k)
    BY <1>1, <1>11, <2>3
  <2> QED
    BY <2>1, <2>2, <2>3
<1>13. Listed(f, h, L)
  <2>1. \A k \in L : NextOf(f, k) = NextOf(m, k)
    BY <1>2, <1>11
  <2> QED
    BY <1>2, <2>1 DEF Listed
<1>14. Runs(f, R)
  <2>1. \A i \in V : f[i] = m[i]
    <3> TAKE i \in V
    <3>1. i \in Indices /\ i \in Nat /\ (i < s \/ i >= e)
      BY <1>3, <1>4, <1>8
    <3> QED
      BY <1>11, <3>1
  <2> QED
    BY <1>1, <1>6, <2>1, RunsKept
<1>15. AreaHolds(f, h, D, L, R)
  BY <1>1, <1>2, <1>11, <1>12, <1>13, <1>14 DEF AreaHolds
<1> QED
  BY <1>1, <1>15

LEMMA AreaStarts ==
    ASSUME AreaInit
    PROVE  AreaOK
<1>1. /\ Pages \in Nat /\ Pages > 1 /\ Ones \in Nat /\ Ones = Pages + 1 /\ Indices = 0 .. Pages - 1
      /\ 0 \in Indices /\ 1 \in Indices
  BY AreaNumbers
<1>2. map \in [Indices -> Words] /\ map[0] = Word("FREE", Pages) /\ map[1] = Word("LINK", Ones)
  <2>1. /\ Word("FREE", Pages) \in Words /\ Word("LINK", Ones) \in Words
        /\ Word("USED", 0) \in Words
    BY <1>1 DEF Word, Words
  <2>2. map = [i \in Indices |-> IF i = 0 THEN Word("FREE", Pages)
                                 ELSE IF i = 1 THEN Word("LINK", Ones) ELSE Word("USED", 0)]
    BY DEF AreaInit
  <2> QED
    BY <1>1, <2>1, <2>2
<1>3. IsNode(map, 0) /\ PagesOf(map, 0) = Pages /\ NextOf(map, 0) = Ones
  BY <1>1, <1>2 DEF IsNode, PagesOf, NextOf, Word
<1>4. heapList = 0 /\ freeNodes = FALSE /\ pageTables = {} /\ PagesIn(pageTables) = {}
  BY DEF AreaInit, PagesIn
<1>5. Nodes(map, {0}, {})
  BY <1>1, <1>2, <1>3 DEF Nodes
<1>6. Covered(map, {0}, {}, Pages)
  BY <1>1, <1>3 DEF Covered
<1>7. Listed(map, 0, {0})
  BY <1>1, <1>3 DEF Listed
<1>8. Runs(map, {})
  BY DEF Runs
<1>9. Maximal(map, {0})
  BY <1>1, <1>3 DEF Maximal
<1>10. AreaHolds(map, heapList, {0}, {0}, pageTables)
  BY <1>4, <1>5, <1>6, <1>7, <1>8 DEF AreaHolds
<1> QED
  BY <1>4, <1>9, <1>10 DEF AreaOK

\* Every step keeps AreaOK and is one that AddressSpace allows.
LEMMA AreaStays ==
    ASSUME AreaOK, [AreaNext]_areaVars
    PROVE  AreaOK' /\ [AreaSpace!Next]_pageTables
<1>1. PICK N, L : /\ AreaHolds(map, heapList, N, L, pageTables)
                  /\ freeNodes \/ (L = N /\ Maximal(map, N))
  BY DEF AreaOK
<1>2. freeNodes \in BOOLEAN /\ Area = [map |-> map, heapList |-> heapList]
  BY DEF AreaOK, Area
<1>3. PageCounts \subseteq 1 .. Pages
  BY PagesAssumption
<1>4. CASE AllocatePages
  <2>1. PICK count \in PageCounts : /\ LargeEnough(Area, count) # {}
                                    /\ Take(Area, count)
                                    /\ UNCHANGED freeNodes
    BY <1>4 DEF AllocatePages
  <2>2. AreaTaken(map, N, L, map', heapList', pageTables') /\ AreaSpace!Next
    BY <1>1, <1>2, <1>3, <2>1, TakeStep
  <2>3. PICK N1, L1 : /\ AreaHolds(map', heapList', N1, L1, pageTables')
                      /\ L = N => L1 = N1
                      /\ Maximal(map, N) => Maximal(map', N1)
    BY <2>2 DEF AreaTaken
  <2>4. freeNodes' = freeNodes
    BY <2>1
  <2> QED
    BY <1>1, <1>2, <2>2, <2>3, <2>4 DEF AreaOK
<1>5. CASE AllocateCollected
  <2>1. PICK count \in PageCounts : /\ LargeEnough(Collect(Area), count) # {}
                                    /\ Take(Collect(Area), count)
                                    /\ freeNodes' = FALSE
    BY <1>5 DEF AllocateCollected
  <2>2. AreaCollected(pageTables, Collect(Area))
    BY <1>1, <1>2, CollectStep
  <2>3. PICK m1, h1, N1 : /\ Collect(Area) = [map |-> m1, heapList |-> h1]
                          /\ AreaHolds(m1, h1, N1, N1, pageTables) /\ Maximal(m1, N1)
    BY <2>2 DEF AreaCollected
  <2>4. AreaTaken(m1, N1, N1, map', heapList', pageTables') /\ AreaSpace!Next
    BY <1>3, <2>1, <2>3, TakeStep
  <2>5. PICK N2, L2 : /\ AreaHolds(map', heapList', N2, L2, pageTables')
                      /\ L2 = N2 /\ Maximal(map', N2)
    BY <2>3, <2>4 DEF AreaTaken
  <2> QED
    BY <2>1, <2>4, <2>5 DEF AreaOK
<1>6. CASE AllocateFails
  <2>1. /\ map' = Collect(Area).map /\ heapList' = Collect(Area).heapList
        /\ freeNodes' = FALSE /\ pageTables' = pageTables
    BY <1>6 DEF AllocateFails
  <2>2. AreaCollected(pageTables, Collect(Area))
    BY <1>1, <1>2, CollectStep
  <2>3. PICK m1, h1, N1 : /\ Collect(Area) = [map |-> m1, heapList |-> h1]
                          /\ AreaHolds(m1, h1, N1, N1, pageTables) /\ Maximal(m1, N1)
    BY <2>2 DEF AreaCollected
  <2>4. map' = m1 /\ heapList' = h1
    BY <2>1, <2>3
  <2> QED
    BY <2>1, <2>3, <2>4 DEF AreaOK
<1>7. CASE FreePages
  <2>1. PICK t \in pageTables : /\ map' = FreeNodeWords(map, t.start, t.count)
                                /\ freeNodes' = TRUE
                                /\ pageTables' = pageTables \ {t}
                                /\ heapList' = heapList
    BY <1>7 DEF FreePages
  <2>2. PICK f : f = FreeNodeWords(map, t.start, t.count)
    OBVIOUS
  <2>3. AreaHolds(f, heapList, N \cup {t.start}, L, pageTables \ {t})
    BY <1>1, <2>2, FreeStep
  <2>4. AreaHolds(map', heapList', N \cup {t.start}, L, pageTables')
    BY <2>1, <2>2, <2>3
  <2>5. AreaSpace!Next
    BY <2>1 DEF AreaSpace!Next, AreaSpace!Free
  <2> QED
    BY <2>1, <2>4, <2>5 DEF AreaOK
<1>8. CASE UNCHANGED areaVars
  <2>1. map' = map /\ heapList' = heapList /\ freeNodes' = freeNodes /\ pageTables' = pageTables
    BY <1>8 DEF areaVars
  <2> QED
    BY <1>1, <1>2, <2>1 DEF AreaOK
<1> QED
  BY <1>4, <1>5, <1>6, <1>7, <1>8 DEF AreaNext

LEMMA AreaStaysOK == AreaSpec => []AreaOK
<1>1. AreaOK /\ [AreaNext]_areaVars => AreaOK'
  BY AreaStays
<1> QED
  BY <1>1, AreaStarts, PTL DEF AreaSpec

(* Every behaviour of the area of GPU addresses is one that AddressSpace     *)
(* allows: _AllocatePages hands out pages that are free, inside the area,   *)
(* wherever _FreePages and _Collect have left them, and nothing but          *)
(* _FreePages takes a run from its owner.                                    *)
THEOREM AreaRefines == AreaSpec => AreaImplements
<1>1. AreaInit => AreaSpace!Init
  BY DEF AreaInit, AreaSpace!Init
<1>2. AreaOK /\ [AreaNext]_areaVars => [AreaSpace!Next]_pageTables
  BY AreaStays
<1> QED
  BY <1>1, <1>2, AreaStaysOK, PTL DEF AreaSpec, AreaImplements, AreaSpace!Spec

(* No page of GPU addresses is in use twice, and none lies outside the area. *)
THEOREM AreaNeverShares == AreaSpec => []AreaSpace!Disjoint
<1>1. AreaOK => AreaSpace!Disjoint
  <2> SUFFICES ASSUME AreaOK PROVE AreaSpace!Disjoint
    OBVIOUS
  <2>1. Runs(map, pageTables)
    BY DEF AreaOK, AreaHolds
  <2>2. /\ \A t \in pageTables : /\ t.start \in Nat /\ t.count \in Nat /\ t.count > 0
                                 /\ t.start + t.count <= Pages
                                 /\ t.start \in Indices /\ t.count \in 1 .. Pages
                                 /\ t = [start |-> t.start, count |-> t.count]
        /\ \A t, u \in pageTables : t = u \/ t.start + t.count <= u.start
                                    \/ u.start + u.count <= t.start
    BY <2>1, RunsType
  <2>3. \A t \in pageTables : t \in AreaSpace!Interval /\ AreaSpace!Fits(t)
    BY <2>2 DEF AreaSpace!Interval, AreaSpace!Fits, Indices
  <2>4. ASSUME NEW t \in pageTables, NEW u \in pageTables, t # u
        PROVE  AreaSpace!Cells(t) \cap AreaSpace!Cells(u) = {}
    <3>1. /\ t.start \in Nat /\ t.count \in Nat /\ u.start \in Nat /\ u.count \in Nat
          /\ t.start + t.count <= u.start \/ u.start + u.count <= t.start
      BY <2>2, <2>4
    <3> QED
      BY <3>1 DEF AreaSpace!Cells
  <2> QED
    BY <2>3, <2>4 DEF AreaSpace!Disjoint
<1> QED
  BY <1>1, AreaStaysOK, PTL

\* Pages of the runs are pages in use.
LEMMA InUseIsIn ==
    ASSUME AreaOK, NEW U, U = PagesIn(pageTables), NEW i \in Int
    PROVE  InUse(i) <=> i \in U
<1>1. Runs(map, pageTables)
  BY DEF AreaOK, AreaHolds
<1>2. \A t \in pageTables : t.start \in Nat /\ t.count \in Nat
  BY <1>1, RunsType
<1>3. i \in U <=> \E t \in pageTables : t.start <= i /\ i < t.start + t.count
  BY <1>1, PagesInFacts
<1>4. \A t \in pageTables : i \in t.start .. t.start + t.count - 1
                            <=> t.start <= i /\ i < t.start + t.count
  BY <1>2
<1> QED
  BY <1>3, <1>4 DEF InUse

(* The list _Collect and _AllocatePages leave behind is in address order,    *)
(* holds free pages only, and every free page unless some were freed since;  *)
(* each run in use has its size on record, so _FreePages takes it back.      *)
THEOREM AreaInOrder == AreaSpec => []AreaList
<1>1. AreaOK => AreaList
  <2> SUFFICES ASSUME AreaOK PROVE AreaList
    OBVIOUS
  <2>1. PICK N, L : /\ AreaHolds(map, heapList, N, L, pageTables)
                    /\ freeNodes \/ (L = N /\ Maximal(map, N))
    BY DEF AreaOK
  <2>2. PICK U, list : U = PagesIn(pageTables) /\ list = FreeList(Area)
    OBVIOUS
  <2>3. /\ Nodes(map, N, U) /\ Covered(map, N, U, Pages)
        /\ L \subseteq N /\ Listed(map, heapList, L) /\ Runs(map, pageTables)
    BY <2>1, <2>2 DEF AreaHolds
  <2>4. /\ N \subseteq Indices
        /\ \A k \in N : /\ IsNode(map, k) /\ k \in Nat /\ PagesOf(map, k) \in Nat
                        /\ PagesOf(map, k) > 0 /\ k + PagesOf(map, k) <= Pages
        /\ \A k \in N, i \in U : i < k \/ k + PagesOf(map, k) <= i
        /\ \A k, o \in N : k = o \/ k + PagesOf(map, k) <= o \/ o + PagesOf(map, o) <= k
    BY <2>3, NodeApart
  <2>5. Area.map = map /\ Area.heapList = heapList /\ L \in SUBSET Indices
    BY <2>3, <2>4 DEF Area
  <2>6. PICK z \in Nat :
          /\ DOMAIN list = 1 .. z
          /\ \A k \in 1 .. z : list[k] \in L
          /\ \A k, l \in 1 .. z : k < l => list[k] < list[l]
          /\ \A n \in L : \E k \in 1 .. z : list[k] = n
    <3>1. ListOf(map, heapList, L, list)
      BY <2>2, <2>3, <2>5, ListComplete
    <3> QED
      BY <3>1 DEF ListOf
  <2>7. \A n \in Indices : NodePages(Area, n) = PagesOf(map, n)
    BY <2>5 DEF NodePages, PagesOf
  <2>8. \A i \in Int : InUse(i) <=> i \in U
    BY <2>2, InUseIsIn
  <2>9. ASSUME NEW k \in DOMAIN list
        PROVE  /\ map[list[k]].type \in {"SINGLE", "FREE"}
               /\ \A i \in list[k] .. list[k] + NodePages(Area, list[k]) - 1 :
                     i < Pages /\ ~InUse(i)
               /\ k > 1 => list[k] > list[k - 1] + NodePages(Area, list[k - 1]) - 1
    <3>1. PICK n : n = list[k]
      OBVIOUS
    <3>2. /\ k \in 1 .. z /\ n \in L /\ n \in N /\ NodePages(Area, n) = PagesOf(map, n)
          /\ IsNode(map, n) /\ n \in Nat /\ PagesOf(map, n) \in Nat /\ PagesOf(map, n) > 0
          /\ n + PagesOf(map, n) <= Pages /\ Pages \in Nat
      BY <2>3, <2>4, <2>6, <2>7, <3>1, AreaNumbers
    <3>3. map[n].type \in {"SINGLE", "FREE"}
      BY <3>2 DEF IsNode
    <3>4. ASSUME NEW i \in n .. n + PagesOf(map, n) - 1 PROVE i < Pages /\ ~InUse(i)
      <4>1. i \in Int /\ n <= i /\ i < n + PagesOf(map, n)
        BY <3>2
      <4>2. i < Pages
        BY <3>2, <4>1
      <4>3. i \notin U
        BY <2>4, <3>2, <4>1
      <4> QED
        BY <2>8, <4>1, <4>2, <4>3
    <3>5. ASSUME k > 1 PROVE list[k] > list[k - 1] + NodePages(Area, list[k - 1]) - 1
      <4>1. PICK o : o = list[k - 1]
        OBVIOUS
      <4>2. k - 1 \in 1 .. z /\ k - 1 < k
        BY <3>2, <3>5
      <4>3. o \in L /\ o < n
        BY <2>6, <3>1, <3>2, <4>1, <4>2
      <4>4. o \in N /\ NodePages(Area, o) = PagesOf(map, o) /\ o \in Nat /\ PagesOf(map, o) \in Nat
        BY <2>3, <2>4, <2>7, <4>3
      <4>5. o + PagesOf(map, o) <= n
        BY <2>4, <3>2, <4>3, <4>4
      <4> QED
        BY <3>1, <3>2, <4>1, <4>4, <4>5
    <3> QED
      BY <3>1, <3>2, <3>3, <3>4, <3>5
  <2>10. freeNodes \/ \A i \in Indices :
            InUse(i) \/ \E k \in DOMAIN list :
                           i \in list[k] .. list[k] + NodePages(Area, list[k]) - 1
    <3> SUFFICES ASSUME ~freeNodes, NEW i \in Indices, i \notin U
                 PROVE  \E k \in DOMAIN list :
                           i \in list[k] .. list[k] + NodePages(Area, list[k]) - 1
      BY <2>8, AreaNumbers
    <3>1. PICK n \in N : n <= i /\ i < n + PagesOf(map, n)
      BY <2>3, AreaNumbers DEF Covered
    <3>2. PICK k \in 1 .. z : list[k] = n
      BY <2>1, <2>6, <3>1
    <3>3. i \in Nat /\ n \in Nat /\ PagesOf(map, n) \in Nat /\ NodePages(Area, n) = PagesOf(map, n)
      BY <2>4, <2>7, AreaNumbers
    <3>4. i \in n .. n + PagesOf(map, n) - 1
      BY <3>1, <3>3
    <3> QED
      BY <2>6, <3>2, <3>3, <3>4
  <2>11. \A t \in pageTables : PageCountOfUsedNode(map[t.start]) = t.count
    BY <2>3, RunsType
  <2> QED
    BY <2>2, <2>9, <2>10, <2>11 DEF AreaList
<1> QED
  BY <1>1, AreaStaysOK, PTL

\* With every free page on the list, and no two nodes that could be one, a
\* run of free pages lies inside one node of it.
LEMMA FindsSound ==
    ASSUME NEW m, NEW h, NEW N, NEW U, Nodes(m, N, U), Covered(m, N, U, Pages), Listed(m, h, N),
           Maximal(m, N), NEW area, area = [map |-> m, heapList |-> h],
           NEW count \in 1 .. Pages, LargeEnough(area, count) = {}, NEW i \in 0 .. Pages - count
    PROVE  \E j \in i .. i + count - 1 : j \in U
<1>1. SUFFICES ASSUME \A j \in i .. i + count - 1 : j \notin U PROVE FALSE
  OBVIOUS
<1>2. /\ N \subseteq Indices
      /\ \A k \in N : /\ k \in Nat /\ PagesOf(m, k) \in Nat
                      /\ PagesOf(m, k) > 0 /\ k + PagesOf(m, k) <= Pages
      /\ \A k, o \in N : k = o \/ k + PagesOf(m, k) <= o \/ o + PagesOf(m, o) <= k
  BY NodeApart
<1>3. Pages \in Nat /\ i \in Nat /\ count \in Nat /\ count > 0 /\ i + count <= Pages
  BY AreaNumbers
<1>4. \A j \in Nat : i <= j /\ j < i + count => \E n \in N : n <= j /\ j < n + PagesOf(m, n)
  <2> TAKE j \in Nat
  <2> SUFFICES ASSUME i <= j, j < i + count
               PROVE  \E n \in N : n <= j /\ j < n + PagesOf(m, n)
    OBVIOUS
  <2>1. j \in i .. i + count - 1 /\ j \in Indices /\ j < Pages
    BY <1>3, AreaNumbers
  <2> QED
    BY <1>1, <2>1 DEF Covered
<1>5. PICK n \in N : n <= i /\ i < n + PagesOf(m, n)
  BY <1>3, <1>4
<1>6. PICK e : e = n + PagesOf(m, n)
  OBVIOUS
<1>7. e \in Nat /\ n \in Nat /\ PagesOf(m, n) \in Nat
  BY <1>2, <1>6
<1>8. CASE e < i + count
  <2>1. PICK o \in N : o <= e /\ e < o + PagesOf(m, o)
    BY <1>3, <1>4, <1>5, <1>6, <1>7, <1>8
  <2>2. o # n
    BY <1>6, <1>7, <2>1
  <2>3. e <= o \/ o + PagesOf(m, o) <= n
    BY <1>2, <1>6, <2>2
  <2>4. o = e
    BY <1>2, <1>6, <1>7, <2>1, <2>3
  <2> QED
    BY <1>6, <2>4 DEF Maximal
<1>9. CASE e >= i + count
  <2>1. PagesOf(m, n) >= count
    BY <1>3, <1>5, <1>6, <1>7, <1>9
  <2>2. area.map = m /\ area.heapList = h /\ N \in SUBSET Indices
    BY <1>2
  <2>3. NodePages(area, n) = PagesOf(m, n)
    BY <2>2 DEF NodePages, PagesOf
  <2>4. ListOf(m, h, N, FreeList(area))
    BY <2>2, ListComplete
  <2>5. PICK k \in DOMAIN FreeList(area) : FreeList(area)[k] = n
    BY <2>4 DEF ListOf
  <2>6. k \in LargeEnough(area, count)
    BY <2>1, <2>3, <2>5 DEF LargeEnough
  <2> QED
    BY <2>6
<1> QED
  BY <1>3, <1>7, <1>8, <1>9

(* _AllocatePages finds pages whenever enough of them lie free in a row: the *)
(* first search sees all of them, or else the second one does, behind        *)
(* _Collect, in whatever order they were freed.                              *)
THEOREM AreaFinds == AreaSpec => []AreaFindsPages
<1>1. AreaOK => AreaFindsPages
  <2> SUFFICES ASSUME AreaOK, NEW count \in PageCounts,
                      LargeEnough(IF freeNodes THEN Collect(Area) ELSE Area, count) = {},
                      NEW i \in 0 .. Pages - count
               PROVE  \E j \in i .. i + count - 1 : InUse(j)
    BY DEF AreaFindsPages
  <2>1. PICK N, L : /\ AreaHolds(map, heapList, N, L, pageTables)
                    /\ freeNodes \/ (L = N /\ Maximal(map, N))
    BY DEF AreaOK
  <2>2. PICK area, U : /\ area = IF freeNodes THEN Collect(Area) ELSE Area
                       /\ U = PagesIn(pageTables)
    OBVIOUS
  <2>3. Area = [map |-> map, heapList |-> heapList] /\ count \in 1 .. Pages
    BY PagesAssumption DEF Area
  <2>4. PICK m1, h1, N1 : /\ area = [map |-> m1, heapList |-> h1]
                          /\ AreaHolds(m1, h1, N1, N1, pageTables) /\ Maximal(m1, N1)
    <3>1. CASE freeNodes
      <4>1. AreaCollected(pageTables, Collect(Area))
        BY <2>1, <2>3, CollectStep
      <4> QED
        BY <2>2, <3>1, <4>1 DEF AreaCollected
    <3>2. CASE ~freeNodes
      BY <2>1, <2>2, <2>3, <3>2
    <3> QED
      BY <3>1, <3>2
  <2>5. /\ Nodes(m1, N1, U) /\ Covered(m1, N1, U, Pages) /\ Listed(m1, h1, N1)
        /\ LargeEnough(area, count) = {}
    BY <2>2, <2>4 DEF AreaHolds
  <2>6. PICK j \in i .. i + count - 1 : j \in U
    BY <2>3, <2>4, <2>5, FindsSound
  <2>7. j \in Int
    OBVIOUS
  <2> QED
    BY <2>2, <2>6, <2>7, InUseIsIn
<1> QED
  BY <1>1, AreaStaysOK, PTL

-----------------------------------------------------------------------------
(* Types.                                                                   *)

\* The types of the heap follow.
LEMMA HeapTyped == HeapOK => HeapTypeOK
<1> SUFFICES ASSUME HeapOK PROVE HeapTypeOK
  OBVIOUS
<1>1. /\ DOMAIN heap \subseteq Offsets \cup {Sentinel} /\ Sentinel \in DOMAIN heap
      /\ heap \in [DOMAIN heap -> HeapNode]
  BY DEF HeapOK, Sound, FreeNodes
<1>2. freeBytes \in 0 .. HeapBytes
  BY CellsFinite DEF HeapOK
<1> QED
  BY <1>1, <1>2 DEF HeapTypeOK

\* The types of the area follow.
LEMMA AreaTyped == AreaOK => AreaTypeOK
<1> SUFFICES ASSUME AreaOK PROVE AreaTypeOK
  OBVIOUS
<1>1. PICK N, L : AreaHolds(map, heapList, N, L, pageTables)
  BY DEF AreaOK
<1>2. /\ map \in [Indices -> Words] /\ L \subseteq Indices /\ heapList \in L \cup {Ones}
      /\ pageTables \subseteq [start : Indices, count : 1 .. Pages]
  BY <1>1 DEF AreaHolds, Nodes, Listed, Runs
<1>3. heapList \in 0 .. Ones
  BY <1>2, AreaNumbers
<1> QED
  BY <1>2, <1>3 DEF AreaTypeOK, AreaOK

PartsOK == part \in {"heap", "area", "recovery"} /\ HeapOK /\ AreaOK /\ TInv

LEMMA PartsStart == Init => PartsOK
  BY HeapInitOK, AreaStarts, InitTInv DEF Init, PartsOK

LEMMA PartsStep == PartsOK /\ [Next]_vars => PartsOK'
<1> SUFFICES ASSUME PartsOK, [Next]_vars PROVE PartsOK'
  OBVIOUS
<1>1. part' = part
  BY DEF Next, vars
<1>2. [HeapNext]_heapVars /\ [AreaNext]_areaVars /\ [RecoveryNext]_recoveryVars
  BY DEF Next, vars
<1>3. HeapOK'
  BY <1>2, HeapStepOK DEF PartsOK
<1>4. AreaOK'
  BY <1>2, AreaStays DEF PartsOK
<1>5. TInv'
  BY <1>2, TInvNext DEF PartsOK
<1> QED
  BY <1>1, <1>3, <1>4, <1>5 DEF PartsOK

(* The types of the heap's nodes, of the words of the page tables and of the *)
(* fields that the monitor and gckKERNEL_Recovery keep.                      *)
THEOREM PartsTyped == Spec => []TypeOK
<1>1. PartsOK => TypeOK
  BY HeapTyped, AreaTyped DEF PartsOK, TypeOK, TInv
<1> QED
  BY <1>1, PartsStart, PartsStep, PTL DEF Spec
=============================================================================
