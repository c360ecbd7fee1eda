------------------------- MODULE CommandQueueProofs -------------------------
(***************************************************************************)
(* Theorems about CommandQueue, for every number of threads, contexts,     *)
(* pages and units of a page.                                              *)
(*                                                                         *)
(* The chain of WAIT/LINKs is not in the state: a WAIT that the FE has     *)
(* passed is a LINK, and one that a page was taken over is gone.  The      *)
(* invariant therefore says that there is a function W, from the number of *)
(* an item to the place of the WAIT/LINK behind it, along which everything *)
(* from the FE to the last WAIT is linked (Chain), and where on it the FE  *)
(* is (FEAt).  A page on that chain is neither free nor raised.            *)
(*                                                                         *)
(* Nor is the context the GPU will have in front of an item, which decides *)
(* whether the driver has to go through the context's own buffer.  It is a *)
(* second function, G, from the number of an item to the context behind it *)
(* (Loaded): what is linked agrees with G, the GPU has G of the last item  *)
(* executed, and the driver remembers G of the last item linked.           *)
(***************************************************************************)
EXTENDS CommandQueue, TLAPS, FiniteSetTheorems

Offsets == 0 .. PageSize - 1
Records == [source : {gcvKERNEL_COMMAND, gcvKERNEL_PIXEL}, pages : SUBSET Pages]

\* The places at which an actor holds the queue, and those of power management.
InQueue == {"flush", "space", "write", "link", "loop", "reserve", "fill", "execute"}
PowerPlaces == {"on", "stall", "stop", "stopping", "off", "start", "run"}
ThreadPlaces == {"idle", "enter", "flush", "space", "write", "link", "events"}

-----------------------------------------------------------------------------
(* What the ring is, who holds the queue, and what is written where.       *)

Shaped(m) == m = [p \in Pages |-> [o \in Offsets |-> m[p][o]]]

QTypes ==
    /\ Shaped(mem)
    /\ index \in Pages \cup {-1} /\ offset \in 0 .. PageSize
    /\ newQueue \in BOOLEAN /\ running \in BOOLEAN /\ waitPos \in PagePlaces
    /\ pageSignal \in [Pages -> BOOLEAN]
    /\ list \in Seq(Records)
    /\ command \in KernelCommands /\ batch \subseteq Pages /\ raised \subseteq Pages
    /\ pc \in [Actors -> PCs] /\ ctx \in [Threads -> Contexts \cup {NoContext}]
    /\ loading \in BOOLEAN
    /\ issued \in Nat /\ executed \in Nat

\* One actor is in the queue, and power management only while it holds off the
\* commits.
Locks ==
    /\ \A a \in Actors : pc[a] \in InQueue <=> mutexQueue = a
    /\ \A t \in Threads : powerSemaphore = t <=> pc[t] \in InQueue
    /\ powerSemaphore = Power <=> pc[Power] # "on"
    /\ \A t \in Threads : pc[t] \notin PowerPlaces
    /\ pc[Power] \notin ThreadPlaces
    /\ running <=> pc[Power] \notin {"off", "start", "run"}
    /\ pc[Power] \in {"reserve", "fill", "execute"} => command = "event"

\* There is room for what is about to be written.
Shape ==
    /\ newQueue => offset = 0
    /\ index = -1 => pc[Power] \in {"off", "start"}
    /\ \A a \in Actors : pc[a] \in {"write", "link", "run"} => offset < PageSize
    /\ \A a \in Actors : pc[a] \in {"fill", "execute"} => offset + 1 < PageSize
    /\ batch # {} => command = "event" /\ \E a \in Actors : pc[a] \in {"reserve", "fill", "execute"}

Control == QTypes /\ Locks /\ Shape

\* Where an actor goes, and that the others stay where they are.
LEMMA Went ==
    ASSUME pc \in [Actors -> PCs], NEW a \in Actors, NEW place \in PCs, Goto(a, place)
    PROVE  /\ pc' \in [Actors -> PCs]
           /\ \A b \in Actors : pc'[b] = IF b = a THEN place ELSE pc[b]
  BY DEF Goto

\* One command is written to a page.
LEMMA Put ==
    ASSUME NEW m, NEW n, NEW p \in Pages, NEW o \in Offsets, NEW x,
           Shaped(m), n = [m EXCEPT ![p][o] = x]
    PROVE  /\ Shaped(n)
           /\ \A q \in Pages : \A k \in Offsets :
                n[q][k] = IF q = p /\ k = o THEN x ELSE m[q][k]
  BY DEF Shaped

\* A command and the WAIT/LINK behind it are written to a page.
PutsTwo(m, n, p, o, x, y) == n = [m EXCEPT ![p] = [@ EXCEPT ![o] = x, ![o + 1] = y]]

LEMMA PutTwo ==
    ASSUME NEW m, NEW n, NEW p \in Pages, NEW o \in Offsets, NEW x, NEW y, o + 1 \in Offsets,
           Shaped(m), PutsTwo(m, n, p, o, x, y)
    PROVE  /\ Shaped(n)
           /\ \A q \in Pages : \A k \in Offsets :
                n[q][k] = IF q = p /\ k = o THEN x
                          ELSE IF q = p /\ k = o + 1 THEN y ELSE m[q][k]
<1>1. n = [m EXCEPT ![p] = [m[p] EXCEPT ![o] = x, ![o + 1] = y]]
  BY DEF PutsTwo
<1>2. o \in Int /\ o # o + 1
  BY SizesAssumption DEF Offsets
<1>3. \A q \in Pages : n[q] = IF q = p THEN [m[p] EXCEPT ![o] = x, ![o + 1] = y] ELSE m[q]
  BY <1>1 DEF Shaped
<1>4. m[p] = [k \in Offsets |-> m[p][k]]
  BY DEF Shaped
<1>5. \A k \in Offsets : n[p][k] = IF k = o THEN x ELSE IF k = o + 1 THEN y ELSE m[p][k]
  <2>1. PICK r : r = m[p]
    OBVIOUS
  <2>2. DOMAIN r = Offsets /\ n[p] = [r EXCEPT ![o] = x, ![o + 1] = y]
    BY <1>3, <1>4, <2>1
  <2>. QED
    BY <1>2, <2>1, <2>2
<1>6. \A q \in Pages : n[q] = [k \in Offsets |-> n[q][k]]
  BY <1>2, <1>3, <1>4 DEF Shaped
<1>7. n = [q \in Pages |-> n[q]]
  BY <1>1 DEF Shaped
<1>. QED
  BY <1>3, <1>5, <1>6, <1>7 DEF Shaped

\* There are two pages at least, so the next one is another one.
LEMMA NextPageOther ==
    ASSUME index \in Pages \cup {-1}
    PROVE  NextPage \in Pages /\ NextPage # index
<1>1. NumPages \in Nat /\ NumPages >= 2
  BY SizesAssumption
<1>2. CASE index = -1
  <2>1. NextPage = 0
    BY <1>1, <1>2 DEF NextPage
  <2>. QED
    BY <1>1, <1>2, <2>1 DEF Pages
<1>3. CASE index \in Pages /\ index = NumPages - 1
  <2>1. NextPage = 0
    BY <1>1, <1>3 DEF NextPage
  <2>. QED
    BY <1>1, <1>3, <2>1 DEF Pages
<1>4. CASE index \in Pages /\ index # NumPages - 1
  <2>1. index \in Int /\ 0 <= index /\ index + 1 < NumPages
    BY <1>1, <1>4 DEF Pages
  <2>2. NextPage = index + 1
    BY <1>1, <2>1 DEF NextPage
  <2>. QED
    BY <1>1, <2>1, <2>2 DEF Pages
<1>. QED
  BY <1>2, <1>3, <1>4

\* Some queue of the event manager's list holds the signal of page p.
OnL(p) == \E k \in DOMAIN list : p \in list[k].pages

\* No signal is on the list twice.
ListApart ==
    \A j, k \in DOMAIN list : \A p \in Pages : p \in list[j].pages /\ p \in list[k].pages => j = k

\* AddRecord adds its signals to the list, and nothing else.
LEMMA Recorded ==
    ASSUME list \in Seq(Records), NEW source \in {gcvKERNEL_COMMAND, gcvKERNEL_PIXEL},
           NEW pages \in SUBSET Pages, AddRecord(source, pages)
    PROVE  /\ list' \in Seq(Records)
           /\ \A p \in Pages : OnL(p)' <=> OnL(p) \/ p \in pages
           /\ ListApart /\ (\A p \in pages : ~OnL(p)) => ListApart'
<1>1. CASE list' = Append(list, [source |-> source, pages |-> pages])
  <2> DEFINE new == [source |-> source, pages |-> pages]
  <2>1. new \in Records /\ new.pages = pages
    BY DEF Records
  <2> HIDE DEF new
  <2>2. list' = Append(list, new)
    BY <1>1 DEF new
  <2>3. /\ list' \in Seq(Records) /\ Len(list) \in Nat /\ DOMAIN list = 1 .. Len(list)
        /\ DOMAIN list' = 1 .. Len(list) + 1
        /\ \A k \in DOMAIN list : list'[k] = list[k]
        /\ list'[Len(list) + 1] = new
    BY <2>1, <2>2
  <2>4. \A k \in DOMAIN list' : k \in DOMAIN list \/ k = Len(list) + 1
    BY <2>3
  <2>5. /\ DOMAIN list \subseteq DOMAIN list' /\ Len(list) + 1 \in DOMAIN list'
        /\ Len(list) + 1 \notin DOMAIN list
    BY <2>3
  <2>6. \A p \in Pages : OnL(p)' <=> OnL(p) \/ p \in pages
    BY <2>1, <2>3, <2>4, <2>5 DEF OnL
  <2>7. ListApart /\ (\A p \in pages : ~OnL(p)) => ListApart'
    BY <2>1, <2>3, <2>4, <2>5 DEF OnL, ListApart
  <2>. QED
    BY <2>3, <2>6, <2>7
<1>2. CASE list # <<>> /\ list' = [list EXCEPT ![Len(list)].pages = @ \cup pages]
  <2> DEFINE last == Len(list)
             new == [list[last] EXCEPT !.pages = @ \cup pages]
  <2>1. /\ last \in DOMAIN list /\ DOMAIN list = 1 .. last /\ last \in Nat
        /\ \A k \in DOMAIN list : list[k] \in Records
    BY <1>2
  <2>2. new \in Records /\ new.pages = list[last].pages \cup pages
    BY <2>1 DEF Records
  <2>3. list' = [list EXCEPT ![last] = new]
    BY <1>2
  <2> HIDE DEF last, new
  <2>4. /\ list' \in Seq(Records) /\ DOMAIN list' = DOMAIN list
        /\ \A k \in DOMAIN list : list'[k] = IF k = last THEN new ELSE list[k]
    BY <2>1, <2>2, <2>3
  <2>5. \A p \in Pages : OnL(p)' <=> OnL(p) \/ p \in pages
    BY <2>1, <2>2, <2>4 DEF OnL
  <2>6. ListApart /\ (\A p \in pages : ~OnL(p)) => ListApart'
    <3>1. SUFFICES ASSUME ListApart, \A p \in pages : ~OnL(p), NEW j \in DOMAIN list,
                          NEW k \in DOMAIN list, NEW p \in Pages,
                          p \in list'[j].pages, p \in list'[k].pages
                   PROVE  j = k
      BY <2>4 DEF ListApart
    <3>2. \A i \in DOMAIN list : p \in list'[i].pages => p \in list[i].pages \/ (i = last /\ p \in pages)
      BY <2>2, <2>4
    <3>3. \A i \in DOMAIN list : p \in list[i].pages => p \notin pages
      BY <3>1 DEF OnL
    <3>. QED
      BY <3>1, <3>2, <3>3 DEF ListApart
  <2>. QED
    BY <2>4, <2>5, <2>6
<1>. QED
  BY <1>1, <1>2 DEF AddRecord

\* _NewQueue takes the next page and puts the page it leaves on the list.
LEMMA NewQueued ==
    ASSUME QTypes, index # -1, NewQueue
    PROVE  /\ index' \in Pages /\ index' # index /\ offset' = 0 /\ newQueue' = TRUE
           /\ pageSignal[index'] /\ pageSignal' \in [Pages -> BOOLEAN]
           /\ \A p \in Pages : pageSignal'[p] <=> pageSignal[p] /\ p # index'
           /\ list' \in Seq(Records)
           /\ \A p \in Pages : OnL(p)' <=> OnL(p) \/ p = index
           /\ ListApart /\ ~OnL(index) => ListApart'
<1>1. index \in Pages /\ NextPage \in Pages /\ NextPage # index /\ index' = NextPage
  BY NextPageOther DEF QTypes, NewQueue, TakePage
<1>2. AddRecord(gcvKERNEL_COMMAND, {index})
  BY DEF NewQueue
<1>3. /\ list' \in Seq(Records)
      /\ \A p \in Pages : OnL(p)' <=> OnL(p) \/ p \in {index}
      /\ ListApart /\ (\A p \in {index} : ~OnL(p)) => ListApart'
  BY <1>1, <1>2, Recorded DEF QTypes
<1>4. pageSignal' \in [Pages -> BOOLEAN] /\ \A p \in Pages : pageSignal'[p] <=> pageSignal[p] /\ p # index'
  BY <1>1, Zenon DEF QTypes, NewQueue
<1>. QED
  BY <1>1, <1>3, <1>4 DEF NewQueue, TakePage

\* With a stopped FE the page left is free at once.
LEMMA NewQueuedStalled ==
    ASSUME QTypes, NewQueueStalled
    PROVE  /\ index' \in Pages /\ index' # index /\ offset' = 0 /\ newQueue' = TRUE
           /\ pageSignal[index'] /\ pageSignal' \in [Pages -> BOOLEAN]
           /\ \A p \in Pages : pageSignal'[p] <=> (pageSignal[p] \/ p = index) /\ p # index'
<1>1. NextPage \in Pages /\ NextPage # index /\ index' = NextPage
  BY NextPageOther DEF QTypes, NewQueueStalled, TakePage
<1>2. \A p \in Pages : pageSignal[p] \in BOOLEAN
  BY DEF QTypes
<1>3. pageSignal' = [p \in Pages |-> IF p = index' THEN FALSE ELSE p = index \/ pageSignal[p]]
  BY <1>1 DEF NewQueueStalled
<1>4. pageSignal' \in [Pages -> BOOLEAN] /\ \A p \in Pages : pageSignal'[p] <=> (pageSignal[p] \/ p = index) /\ p # index'
  BY <1>2, <1>3, Zenon
<1>. QED
  BY <1>1, <1>4 DEF NewQueueStalled, TakePage

-----------------------------------------------------------------------------
(* Every step keeps the types, the locks and the room. *)

\* The page of a queue that has none is no page.
LEMMA NoPage == -1 \notin Pages
  BY SizesAssumption DEF Pages

\* An actor in the queue is alone in it, and the queue has a page.
LEMMA InQueueAlone ==
    ASSUME Control, NEW a \in Actors, pc[a] \in InQueue
    PROVE  /\ \A b \in Actors : pc[b] \in InQueue => b = a
           /\ index \in Pages /\ running /\ pc[Power] \notin {"stop", "stopping"}
           /\ a # Power => pc[Power] = "on"
<1>1. \A b \in Actors : pc[b] \in InQueue => b = a
  BY DEF Control, Locks
<1>2. a \in Threads \/ a = Power
  BY DEF Actors
<1>3. pc[Power] = "on" \/ a = Power
  BY <1>2, ActorsAssumption DEF Control, Locks
<1>. QED
  BY <1>1, <1>3 DEF Control, QTypes, Locks, Shape, InQueue

\* The last WAIT becomes a LINK, and the last WAIT is another one.
LEMMA Linked ==
    ASSUME QTypes, index \in Pages, NEW to, NEW size \in {1, 2}, offset + size <= PageSize,
           LinkTo(to, size)
    PROVE  /\ Shaped(mem)' /\ waitPos' \in PagePlaces /\ offset' \in 0 .. PageSize
           /\ newQueue' = FALSE /\ issued' \in Nat /\ offset' = offset + size
           /\ waitPos'.page = index /\ waitPos'.off = offset + size - 1
           /\ \A p \in Pages : \A o \in Offsets :
                mem'[p][o] = IF p = waitPos.page /\ o = waitPos.off THEN Link(to) ELSE mem[p][o]
<1>1. waitPos.page \in Pages /\ waitPos.off \in Offsets
  BY DEF QTypes, PagePlaces, Offsets
<1>2. /\ Shaped(mem)'
      /\ \A p \in Pages : \A o \in Offsets :
           mem'[p][o] = IF p = waitPos.page /\ o = waitPos.off THEN Link(to) ELSE mem[p][o]
  <2>1. PICK p \in Pages, o \in Offsets : p = waitPos.page /\ o = waitPos.off
    BY <1>1
  <2>2. PICK x : x = Link(to)
    OBVIOUS
  <2>3. mem' = [mem EXCEPT ![p][o] = x] /\ Shaped(mem)
    BY <2>1, <2>2 DEF LinkTo, QTypes
  <2>4. /\ Shaped(mem')
        /\ \A q \in Pages : \A k \in Offsets :
             mem'[q][k] = IF q = p /\ k = o THEN x ELSE mem[q][k]
    BY <2>3 DEF Shaped
  <2>. QED
    BY <2>1, <2>2, <2>4 DEF Shaped
<1>3. offset \in Nat /\ PageSize \in Nat /\ offset + size - 1 \in Offsets
  BY SizesAssumption DEF QTypes, Offsets
<1>4. waitPos' \in PagePlaces /\ waitPos'.page = index /\ waitPos'.off = offset + size - 1
  BY <1>3 DEF LinkTo, At, PagePlaces, Offsets
<1>. QED
  BY <1>2, <1>3, <1>4 DEF QTypes, LinkTo

\* In the pages, that is one cell.
LEMMA LinkedCells ==
    ASSUME QTypes, index \in Pages, NEW to, NEW size \in {1, 2}, offset + size <= PageSize,
           LinkTo(to, size)
    PROVE  \A p \in Pages : \A o \in Offsets :
             mem'[p][o] = IF p = waitPos.page /\ o = waitPos.off THEN Link(to) ELSE mem[p][o]
<1>1. PICK p \in Pages, o \in Offsets : p = waitPos.page /\ o = waitPos.off
  BY DEF QTypes, PagePlaces, Offsets
<1>2. PICK x : x = Link(to)
  OBVIOUS
<1>3. mem' = [mem EXCEPT ![p][o] = x] /\ Shaped(mem)
  BY <1>1, <1>2 DEF LinkTo, QTypes
<1>4. \A q \in Pages : \A k \in Offsets :
        mem'[q][k] = IF q = p /\ k = o THEN x ELSE mem[q][k]
  BY <1>3 DEF Shaped
<1>. QED
  BY <1>1, <1>2, <1>4

\* A commit starts with the device's mutex, and holds nothing else.
LEMMA StartCommitControl ==
    ASSUME Control, NEW t \in Threads, StartCommit(t)
    PROVE  Control'
<1>0. QTypes /\ Locks /\ Shape /\ t \in Actors /\ pc[t] = "idle"
  BY DEF Control, StartCommit, Actors
<1>1. PICK place \in {"enter"} : Goto(t, place)
  BY DEF StartCommit
<1>3. pc' \in [Actors -> PCs] /\ \A b \in Actors : pc'[b] = IF b = t THEN place ELSE pc[b]
  BY <1>0, <1>1, Went DEF QTypes, PCs
<1>4. QTypes'
  BY <1>0, <1>3 DEF QTypes, StartCommit, queueVars, lockVars, eventVars, actorVars, gpuVars
<1>5. Locks'
  BY <1>0, <1>3, ActorsAssumption DEF Locks, StartCommit, InQueue, PowerPlaces, ThreadPlaces, Actors, queueVars, lockVars, eventVars, actorVars, gpuVars
<1>6. Shape'
  BY <1>0, <1>3, ActorsAssumption DEF Locks, Shape, StartCommit, InQueue, Actors, queueVars, lockVars, eventVars, actorVars, gpuVars
<1>. QED
  BY <1>4, <1>5, <1>6 DEF Control

\* A commit enters the queue.
LEMMA CommitEnterControl ==
    ASSUME Control, NEW t \in Threads, CommitEnter(t)
    PROVE  Control'
<1>0. QTypes /\ Locks /\ Shape /\ t \in Actors /\ pc[t] = "enter"
  BY DEF Control, CommitEnter, Actors, EnterCommit
<1>1. PICK place \in {"flush"} : Goto(t, place)
  BY DEF CommitEnter, EnterCommit
<1>3. pc' \in [Actors -> PCs] /\ \A b \in Actors : pc'[b] = IF b = t THEN place ELSE pc[b]
  BY <1>0, <1>1, Went DEF QTypes, PCs
<1>4. QTypes'
  BY <1>0, <1>3 DEF QTypes, CommitEnter, EnterCommit, queueVars, lockVars, eventVars, actorVars, gpuVars
<1>5. Locks'
  BY <1>0, <1>3, ActorsAssumption DEF Locks, CommitEnter, EnterCommit, InQueue, PowerPlaces, ThreadPlaces, Actors, queueVars, lockVars, eventVars, actorVars, gpuVars
<1>6. Shape'
  BY <1>0, <1>3, ActorsAssumption DEF Locks, Shape, CommitEnter, EnterCommit, InQueue, Actors, queueVars, lockVars, eventVars, actorVars, gpuVars
<1>. QED
  BY <1>4, <1>5, <1>6 DEF Control

\* The page tables are flushed, or not.
LEMMA CommitFlushControl ==
    ASSUME Control, NEW t \in Threads, CommitFlush(t)
    PROVE  Control'
<1>0. QTypes /\ Locks /\ Shape /\ t \in Actors /\ pc[t] = "flush"
  BY DEF Control, CommitFlush, Actors
<1>1. PICK place \in {"space", "reserve"} : Goto(t, place)
  BY DEF CommitFlush
<1>3. pc' \in [Actors -> PCs] /\ \A b \in Actors : pc'[b] = IF b = t THEN place ELSE pc[b]
  BY <1>0, <1>1, Went DEF QTypes, PCs
<1>4. QTypes'
  BY <1>0, <1>3 DEF QTypes, CommitFlush, KernelCommands, queueVars, lockVars, eventVars, actorVars, gpuVars
<1>5. Locks'
  BY <1>0, <1>3, ActorsAssumption DEF Locks, CommitFlush, InQueue, PowerPlaces, ThreadPlaces, Actors, queueVars, lockVars, eventVars, actorVars, gpuVars
<1>6. Shape'
  BY <1>0, <1>3, ActorsAssumption DEF Locks, Shape, CommitFlush, InQueue, Actors, queueVars, lockVars, eventVars, actorVars, gpuVars
<1>. QED
  BY <1>4, <1>5, <1>6 DEF Control

\* A commit finds a page with room.
LEMMA CommitSpaceControl ==
    ASSUME Control, NEW t \in Threads, CommitSpace(t)
    PROVE  Control'
<1>0. QTypes /\ Locks /\ Shape /\ t \in Actors /\ pc[t] = "space"
  BY DEF Control, CommitSpace, Actors
<1>1. PICK place \in {"write"} : Goto(t, place)
  BY DEF CommitSpace
<1>3. pc' \in [Actors -> PCs] /\ \A b \in Actors : pc'[b] = IF b = t THEN place ELSE pc[b]
  BY <1>0, <1>1, Went DEF QTypes, PCs
<1>a. index \in Pages
  BY <1>0, InQueueAlone DEF InQueue
<1>b. PageSize \in Nat /\ PageSize >= 2 /\ offset \in Nat
  BY <1>0, SizesAssumption DEF QTypes
<1>4. QTypes'
  <2>1. CASE Room >= 1
    BY <1>0, <1>3, <2>1 DEF QTypes, CommitSpace, queueVars, lockVars, eventVars, actorVars, gpuVars
  <2>2. CASE ~(Room >= 1)
    <3>1. NewQueue
      BY <2>2 DEF CommitSpace
    <3>2. /\ index' \in Pages /\ offset' = 0 /\ newQueue' = TRUE
          /\ pageSignal' \in [Pages -> BOOLEAN] /\ list' \in Seq(Records)
      BY <1>0, <1>a, <1>b, <3>1, NoPage, NewQueued
    <3>. QED
      BY <1>0, <1>3, <1>b, <3>2 DEF QTypes, CommitSpace, queueVars, lockVars, eventVars, actorVars, gpuVars
  <2>. QED
    BY <2>1, <2>2
<1>5. Locks'
  BY <1>0, <1>3, ActorsAssumption DEF Locks, CommitSpace, InQueue, PowerPlaces, ThreadPlaces, Actors, queueVars, lockVars, eventVars, actorVars, gpuVars
<1>6. Shape'
  <2>1. \A b \in Actors : pc[b] \in InQueue => b = t
    BY InQueueAlone, <1>0 DEF InQueue
  <2>2. \/ offset + 1 <= PageSize /\ index' = index /\ offset' = offset /\ newQueue' = newQueue
        \/ index' \in Pages /\ offset' = 0 /\ newQueue' = TRUE
    <3>1. CASE Room >= 1
      BY <1>b, <3>1 DEF CommitSpace, Room
    <3>2. CASE ~(Room >= 1)
      BY <1>0, <1>a, <3>2, NoPage, NewQueued DEF CommitSpace
    <3>. QED
      BY <3>1, <3>2
  <2>3. index' # -1
    BY <1>a, <2>2, NoPage
  <2>. QED
    BY <1>0, <1>3, <1>b, <2>1, <2>2, <2>3 DEF Shape, CommitSpace, InQueue, queueVars, lockVars, eventVars, actorVars, gpuVars
<1>. QED
  BY <1>4, <1>5, <1>6 DEF Control

\* A commit that fails leaves the queue.
LEMMA CommitFailControl ==
    ASSUME Control, NEW t \in Threads, CommitFail(t)
    PROVE  Control'
<1>0. QTypes /\ Locks /\ Shape /\ t \in Actors /\ pc[t] = "write"
  BY DEF Control, CommitFail, Actors
<1>1. PICK place \in {"idle"} : Goto(t, place)
  BY DEF CommitFail, AbandonCommit
<1>3. pc' \in [Actors -> PCs] /\ \A b \in Actors : pc'[b] = IF b = t THEN place ELSE pc[b]
  BY <1>0, <1>1, Went DEF QTypes, PCs
<1>4. QTypes'
  BY <1>0, <1>3 DEF QTypes, CommitFail, AbandonCommit, queueVars, lockVars, eventVars, actorVars, gpuVars
<1>5. Locks'
  BY <1>0, <1>3, ActorsAssumption DEF Locks, CommitFail, AbandonCommit, ExitCommit, InQueue, PowerPlaces, ThreadPlaces, Actors, queueVars, lockVars, eventVars, actorVars, gpuVars
<1>6. Shape'
  BY <1>0, <1>3, ActorsAssumption DEF Locks, Shape, CommitFail, AbandonCommit, ExitCommit, InQueue, Actors, queueVars, lockVars, eventVars, actorVars, gpuVars
<1>. QED
  BY <1>4, <1>5, <1>6 DEF Control

\* A commit writes its WAIT/LINK into the room it found.
LEMMA CommitWriteControl ==
    ASSUME Control, NEW t \in Threads, CommitWrite(t)
    PROVE  Control'
<1>0. QTypes /\ Locks /\ Shape /\ t \in Actors /\ pc[t] = "write"
  BY DEF Control, CommitWrite, Actors
<1>1. PICK place \in {"link"} : Goto(t, place)
  BY DEF CommitWrite
<1>3. pc' \in [Actors -> PCs] /\ \A b \in Actors : pc'[b] = IF b = t THEN place ELSE pc[b]
  BY <1>0, <1>1, Went DEF QTypes, PCs
<1>a. index \in Pages
  BY <1>0, InQueueAlone DEF InQueue
<1>4. QTypes'
  <2>1. offset \in Offsets
    BY <1>0, SizesAssumption DEF QTypes, Shape, Offsets
  <2>2. Shaped(mem)'
    BY <1>0, <1>a, <2>1, Put DEF QTypes, CommitWrite
  <2>3. loading' \in BOOLEAN
    BY DEF CommitWrite, Switches
  <2>. QED
    BY <1>0, <1>3, <2>2, <2>3 DEF QTypes, CommitWrite, queueVars, lockVars, eventVars, actorVars, gpuVars
<1>5. Locks'
  BY <1>0, <1>3, ActorsAssumption DEF Locks, CommitWrite, InQueue, PowerPlaces, ThreadPlaces, Actors, queueVars, lockVars, eventVars, actorVars, gpuVars
<1>6. Shape'
  BY <1>0, <1>3, ActorsAssumption DEF Locks, Shape, CommitWrite, InQueue, Actors, queueVars, lockVars, eventVars, actorVars, gpuVars
<1>. QED
  BY <1>4, <1>5, <1>6 DEF Control

\* A commit links its buffer and leaves the queue.
LEMMA CommitLinkControl ==
    ASSUME Control, NEW t \in Threads, CommitLink(t)
    PROVE  Control'
<1>0. QTypes /\ Locks /\ Shape /\ t \in Actors /\ pc[t] = "link"
  BY DEF Control, CommitLink, Actors
<1>1. PICK place \in {"events", "enter"} : Goto(t, place)
  BY DEF CommitLink
<1>3. pc' \in [Actors -> PCs] /\ \A b \in Actors : pc'[b] = IF b = t THEN place ELSE pc[b]
  BY <1>0, <1>1, Went DEF QTypes, PCs
<1>a. index \in Pages /\ offset + 1 <= PageSize
  BY <1>0, InQueueAlone, SizesAssumption DEF InQueue, QTypes, Shape
<1>b. PICK to : LinkTo(to, 1)
  BY DEF CommitLink
<1>c. /\ Shaped(mem)' /\ waitPos' \in PagePlaces /\ offset' \in 0 .. PageSize
      /\ newQueue' = FALSE /\ issued' \in Nat
  BY <1>0, <1>a, <1>b, Linked
<1>4. QTypes'
  BY <1>0, <1>3, <1>c DEF QTypes, CommitLink, queueVars, lockVars, eventVars, actorVars, gpuVars
<1>5. Locks'
  BY <1>0, <1>3, ActorsAssumption DEF Locks, CommitLink, ExitCommit, InQueue, PowerPlaces, ThreadPlaces, Actors, queueVars, lockVars, eventVars, actorVars, gpuVars
<1>6. Shape'
  <2>1. \A b \in Actors : pc[b] \in InQueue => b = t
    BY <1>0, InQueueAlone DEF InQueue
  <2>2. pc'[Power] = "on"
    BY <1>0, <1>3, InQueueAlone, ActorsAssumption DEF InQueue, Actors
  <2>3. \A b \in Actors : pc'[b] \notin {"write", "link", "run", "fill", "execute", "reserve"}
    BY <1>0, <1>3, <2>1, <2>2 DEF Locks, InQueue, PowerPlaces, Actors
  <2>4. index' = index /\ batch' = batch /\ index # -1
    BY <1>a, NoPage DEF CommitLink, eventVars
  <2>5. batch = {}
    BY <1>0, <2>1 DEF Shape, InQueue
  <2>. QED
    BY <1>c, <2>3, <2>4, <2>5 DEF Shape
<1>. QED
  BY <1>4, <1>5, <1>6 DEF Control

\* The events of a commit are put on the list.
LEMMA UserEventsControl ==
    ASSUME Control, NEW t \in Threads, UserEvents(t)
    PROVE  Control'
<1>0. QTypes /\ Locks /\ Shape /\ t \in Actors /\ pc[t] = "events"
  BY DEF Control, UserEvents, Actors
<1>1. PICK place \in {"check"} : Goto(t, place)
  BY DEF UserEvents
<1>3. pc' \in [Actors -> PCs] /\ \A b \in Actors : pc'[b] = IF b = t THEN place ELSE pc[b]
  BY <1>0, <1>1, Went DEF QTypes, PCs
<1>a. list' = list \/ AddRecord(gcvKERNEL_PIXEL, {})
  BY DEF UserEvents
<1>b. list' \in Seq(Records)
  BY <1>0, <1>a, Recorded DEF QTypes
<1>4. QTypes'
  BY <1>0, <1>3, <1>b DEF QTypes, UserEvents, queueVars, lockVars, eventVars, actorVars, gpuVars
<1>5. Locks'
  BY <1>0, <1>3, ActorsAssumption DEF Locks, UserEvents, InQueue, PowerPlaces, ThreadPlaces, Actors, queueVars, lockVars, eventVars, actorVars, gpuVars
<1>6. Shape'
  BY <1>0, <1>3, ActorsAssumption DEF Locks, Shape, UserEvents, InQueue, Actors, queueVars, lockVars, eventVars, actorVars, gpuVars
<1>. QED
  BY <1>4, <1>5, <1>6 DEF Control

\* A stall puts its record on the list.
LEMMA StallControl ==
    ASSUME Control, NEW t \in Threads, Stall(t)
    PROVE  Control'
<1>0. QTypes /\ Locks /\ Shape /\ t \in Actors /\ pc[t] = "idle"
  BY DEF Control, Stall, Actors
<1>1. PICK place \in {"check"} : Goto(t, place)
  BY DEF Stall
<1>3. pc' \in [Actors -> PCs] /\ \A b \in Actors : pc'[b] = IF b = t THEN place ELSE pc[b]
  BY <1>0, <1>1, Went DEF QTypes, PCs
<1>a. AddRecord(gcvKERNEL_PIXEL, {})
  BY DEF Stall
<1>b. list' \in Seq(Records)
  BY <1>0, <1>a, Recorded DEF QTypes
<1>4. QTypes'
  BY <1>0, <1>3, <1>b DEF QTypes, Stall, queueVars, lockVars, eventVars, actorVars, gpuVars
<1>5. Locks'
  BY <1>0, <1>3, ActorsAssumption DEF Locks, Stall, InQueue, PowerPlaces, ThreadPlaces, Actors, queueVars, lockVars, eventVars, actorVars, gpuVars
<1>6. Shape'
  BY <1>0, <1>3, ActorsAssumption DEF Locks, Shape, Stall, InQueue, Actors, queueVars, lockVars, eventVars, actorVars, gpuVars
<1>. QED
  BY <1>4, <1>5, <1>6 DEF Control

\* Nothing to submit, or the queue is entered.
LEMMA SubmitCheckControl ==
    ASSUME Control, NEW a \in Actors, SubmitCheck(a)
    PROVE  Control'
<1>0. QTypes /\ Locks /\ Shape /\ a \in Actors /\ pc[a] = "check"
  BY DEF Control, SubmitCheck, Actors
<1>1. PICK place \in IF a = Power THEN {"stall", "submit"} ELSE {"idle", "submit"} : Goto(a, place)
  BY DEF SubmitCheck, Return
<1>3. pc' \in [Actors -> PCs] /\ \A b \in Actors : pc'[b] = IF b = a THEN place ELSE pc[b]
  BY <1>0, <1>1, Went DEF QTypes, PCs
<1>4. QTypes'
  BY <1>0, <1>3 DEF QTypes, SubmitCheck, queueVars, lockVars, eventVars, actorVars, gpuVars
<1>5. Locks'
  BY <1>0, <1>3, ActorsAssumption DEF Locks, SubmitCheck, InQueue, PowerPlaces, ThreadPlaces, Actors, queueVars, lockVars, eventVars, actorVars, gpuVars
<1>6. Shape'
  BY <1>0, <1>3, ActorsAssumption DEF Locks, Shape, SubmitCheck, InQueue, Actors, queueVars, lockVars, eventVars, actorVars, gpuVars
<1>. QED
  BY <1>4, <1>5, <1>6 DEF Control

\* A submission enters the queue.
LEMMA SubmitEnterControl ==
    ASSUME Control, NEW a \in Actors, SubmitEnter(a)
    PROVE  Control'
<1>0. QTypes /\ Locks /\ Shape /\ a \in Actors /\ pc[a] = "submit"
  BY DEF Control, SubmitEnter, Actors, EnterCommit
<1>1. PICK place \in {"loop"} : Goto(a, place)
  BY DEF SubmitEnter, EnterCommit
<1>3. pc' \in [Actors -> PCs] /\ \A b \in Actors : pc'[b] = IF b = a THEN place ELSE pc[b]
  BY <1>0, <1>1, Went DEF QTypes, PCs
<1>4. QTypes'
  BY <1>0, <1>3 DEF QTypes, SubmitEnter, EnterCommit, queueVars, lockVars, eventVars, actorVars, gpuVars
<1>5. Locks'
  BY <1>0, <1>3, ActorsAssumption DEF Locks, SubmitEnter, EnterCommit, InQueue, PowerPlaces, ThreadPlaces, Actors, queueVars, lockVars, eventVars, actorVars, gpuVars
<1>6. Shape'
  BY <1>0, <1>3, ActorsAssumption DEF Locks, Shape, SubmitEnter, EnterCommit, InQueue, Actors, queueVars, lockVars, eventVars, actorVars, gpuVars
<1>. QED
  BY <1>4, <1>5, <1>6 DEF Control

\* The first queue of the list becomes a batch.
LEMMA SubmitNextControl ==
    ASSUME Control, NEW a \in Actors, SubmitNext(a)
    PROVE  Control'
<1>0. QTypes /\ Locks /\ Shape /\ a \in Actors /\ pc[a] = "loop"
  BY DEF Control, SubmitNext, Actors
<1>1. PICK place \in {"reserve"} : Goto(a, place)
  BY DEF SubmitNext
<1>3. pc' \in [Actors -> PCs] /\ \A b \in Actors : pc'[b] = IF b = a THEN place ELSE pc[b]
  BY <1>0, <1>1, Went DEF QTypes, PCs
<1>4. QTypes'
  <2>1. list # <<>> /\ list \in Seq(Records)
    BY <1>0 DEF QTypes, SubmitNext
  <2>2. Tail(list) \in Seq(Records) /\ list[1] \in Records
    BY <2>1
  <2>3. list[1].pages \subseteq Pages
    BY <2>2 DEF Records
  <2>. QED
    BY <1>0, <1>3, <2>2, <2>3 DEF QTypes, SubmitNext, KernelCommands, queueVars, lockVars, eventVars, actorVars, gpuVars
<1>5. Locks'
  BY <1>0, <1>3, ActorsAssumption DEF Locks, SubmitNext, InQueue, PowerPlaces, ThreadPlaces, Actors, queueVars, lockVars, eventVars, actorVars, gpuVars
<1>6. Shape'
  BY <1>0, <1>3, ActorsAssumption DEF Locks, Shape, SubmitNext, InQueue, Actors, queueVars, lockVars, eventVars, actorVars, gpuVars
<1>. QED
  BY <1>4, <1>5, <1>6 DEF Control

\* A submission leaves the queue when the list is empty.
LEMMA SubmitExitControl ==
    ASSUME Control, NEW a \in Actors, SubmitExit(a)
    PROVE  Control'
<1>0. QTypes /\ Locks /\ Shape /\ a \in Actors /\ pc[a] = "loop"
  BY DEF Control, SubmitExit, Actors
<1>1. PICK place \in IF a = Power THEN {"stall"} ELSE {"idle"} : Goto(a, place)
  BY DEF SubmitExit, Return
<1>3. pc' \in [Actors -> PCs] /\ \A b \in Actors : pc'[b] = IF b = a THEN place ELSE pc[b]
  BY <1>0, <1>1, Went DEF QTypes, PCs
<1>4. QTypes'
  BY <1>0, <1>3 DEF QTypes, SubmitExit, queueVars, lockVars, eventVars, actorVars, gpuVars
<1>5. Locks'
  BY <1>0, <1>3, ActorsAssumption DEF Locks, SubmitExit, ExitCommit, InQueue, PowerPlaces, ThreadPlaces, Actors, queueVars, lockVars, eventVars, actorVars, gpuVars
<1>6. Shape'
  BY <1>0, <1>3, ActorsAssumption DEF Locks, Shape, SubmitExit, ExitCommit, InQueue, Actors, queueVars, lockVars, eventVars, actorVars, gpuVars
<1>. QED
  BY <1>4, <1>5, <1>6 DEF Control

\* A submission finds a page with room for two.
LEMMA ReserveControl ==
    ASSUME Control, NEW a \in Actors, Reserve(a)
    PROVE  Control'
<1>0. QTypes /\ Locks /\ Shape /\ a \in Actors /\ pc[a] = "reserve"
  BY DEF Control, Reserve, Actors
<1>1. PICK place \in {"fill"} : Goto(a, place)
  BY DEF Reserve
<1>3. pc' \in [Actors -> PCs] /\ \A b \in Actors : pc'[b] = IF b = a THEN place ELSE pc[b]
  BY <1>0, <1>1, Went DEF QTypes, PCs
<1>a. index \in Pages
  BY <1>0, InQueueAlone DEF InQueue
<1>b. PageSize \in Nat /\ PageSize >= 2 /\ offset \in Nat
  BY <1>0, SizesAssumption DEF QTypes
<1>4. QTypes'
  <2>1. CASE Room >= 2
    BY <1>0, <1>3, <2>1 DEF QTypes, Reserve, queueVars, lockVars, eventVars, actorVars, gpuVars
  <2>2. CASE ~(Room >= 2)
    <3>1. NewQueue
      BY <2>2 DEF Reserve
    <3>2. /\ index' \in Pages /\ offset' = 0 /\ newQueue' = TRUE
          /\ pageSignal' \in [Pages -> BOOLEAN] /\ list' \in Seq(Records)
      BY <1>0, <1>a, <1>b, <3>1, NoPage, NewQueued
    <3>. QED
      BY <1>0, <1>3, <1>b, <3>2 DEF QTypes, Reserve, queueVars, lockVars, eventVars, actorVars, gpuVars
  <2>. QED
    BY <2>1, <2>2
<1>5. Locks'
  BY <1>0, <1>3, ActorsAssumption DEF Locks, Reserve, InQueue, PowerPlaces, ThreadPlaces, Actors, queueVars, lockVars, eventVars, actorVars, gpuVars
<1>6. Shape'
  <2>1. \A b \in Actors : pc[b] \in InQueue => b = a
    BY InQueueAlone, <1>0 DEF InQueue
  <2>2. \/ offset + 2 <= PageSize /\ index' = index /\ offset' = offset /\ newQueue' = newQueue
        \/ index' \in Pages /\ offset' = 0 /\ newQueue' = TRUE
    <3>1. CASE Room >= 2
      BY <1>b, <3>1 DEF Reserve, Room
    <3>2. CASE ~(Room >= 2)
      BY <1>0, <1>a, <3>2, NoPage, NewQueued DEF Reserve
    <3>. QED
      BY <3>1, <3>2
  <2>3. index' # -1
    BY <1>a, <2>2, NoPage
  <2>. QED
    BY <1>0, <1>3, <1>b, <2>1, <2>2, <2>3 DEF Shape, Reserve, InQueue, queueVars, lockVars, eventVars, actorVars, gpuVars
<1>. QED
  BY <1>4, <1>5, <1>6 DEF Control

\* A command and its WAIT/LINK are written into the room.
LEMMA FillControl ==
    ASSUME Control, NEW a \in Actors, Fill(a)
    PROVE  Control'
<1>0. QTypes /\ Locks /\ Shape /\ a \in Actors /\ pc[a] = "fill"
  BY DEF Control, Fill, Actors
<1>1. PICK place \in {"execute"} : Goto(a, place)
  BY DEF Fill
<1>3. pc' \in [Actors -> PCs] /\ \A b \in Actors : pc'[b] = IF b = a THEN place ELSE pc[b]
  BY <1>0, <1>1, Went DEF QTypes, PCs
<1>a. index \in Pages
  BY <1>0, InQueueAlone DEF InQueue
<1>4. QTypes'
  <2>1. offset \in Offsets /\ offset + 1 \in Offsets
    BY <1>0, SizesAssumption DEF QTypes, Shape, Offsets
  <2>2. Shaped(mem)'
    <3>1. PICK x, y : PutsTwo(mem, mem', index, offset, x, y)
      BY DEF Fill, PutsTwo
    <3>2. Shaped(mem) /\ Shaped(mem)' <=> Shaped(mem) /\ Shaped(mem')
      BY <1>0 DEF QTypes, Shaped
    <3>. QED
      BY <1>0, <1>a, <2>1, <3>1, PutTwo DEF QTypes
  <2>. QED
    BY <1>0, <1>3, <2>2 DEF QTypes, Fill, queueVars, lockVars, eventVars, actorVars, gpuVars
<1>5. Locks'
  BY <1>0, <1>3, ActorsAssumption DEF Locks, Fill, InQueue, PowerPlaces, ThreadPlaces, Actors, queueVars, lockVars, eventVars, actorVars, gpuVars
<1>6. Shape'
  BY <1>0, <1>3, ActorsAssumption DEF Locks, Shape, Fill, InQueue, Actors, queueVars, lockVars, eventVars, actorVars, gpuVars
<1>. QED
  BY <1>4, <1>5, <1>6 DEF Control

\* A command is linked.
LEMMA ExecuteControl ==
    ASSUME Control, NEW a \in Actors, Execute(a)
    PROVE  Control'
<1>0. QTypes /\ Locks /\ Shape /\ a \in Actors /\ pc[a] = "execute"
  BY DEF Control, Execute, Actors
<1>1. PICK place \in {"loop", "space", "reserve"} : Goto(a, place)
  BY DEF Execute
<1>3. pc' \in [Actors -> PCs] /\ \A b \in Actors : pc'[b] = IF b = a THEN place ELSE pc[b]
  BY <1>0, <1>1, Went DEF QTypes, PCs
<1>a. index \in Pages /\ offset + 2 <= PageSize
  BY <1>0, InQueueAlone, SizesAssumption DEF InQueue, QTypes, Shape
<1>b. LinkTo(Entry, 2)
  BY DEF Execute
<1>c. /\ Shaped(mem)' /\ waitPos' \in PagePlaces /\ offset' \in 0 .. PageSize
      /\ newQueue' = FALSE /\ issued' \in Nat
  BY <1>0, <1>a, <1>b, Linked
<1>d. \A b \in Actors : pc[b] \in InQueue => b = a
  BY <1>0, InQueueAlone DEF InQueue
<1>e. a = Power => command = "event"
  BY <1>0 DEF Locks
<1>f. command' = "event" \/ (a # Power /\ pc[Power] = "on")
  BY <1>0, <1>e, InQueueAlone DEF Execute, InQueue
<1>g. batch' = {}
  BY DEF Execute
<1>4. QTypes'
  BY <1>0, <1>3, <1>c, <1>g DEF QTypes, Execute, KernelCommands, queueVars, lockVars, eventVars, actorVars, gpuVars
<1>5. Locks'
  <2>1. place \in {"loop", "space", "reserve"} /\ (a = Power => place # "space")
    <3>1. a = Power => Goto(Power, "loop")
      BY <1>e DEF Execute
    <3>2. a = Power => pc'[Power] = "loop"
      BY <1>0, <3>1, Went DEF QTypes, PCs, Actors
    <3>. QED
      BY <1>1, <1>3, <3>2
  <2>. QED
    BY <1>0, <1>3, <1>f, <2>1, ActorsAssumption DEF Locks, Execute, InQueue, PowerPlaces, ThreadPlaces, Actors, queueVars, lockVars, eventVars, actorVars, gpuVars
<1>6. Shape'
  <2>1. index # -1
    BY <1>a, NoPage
  <2>2. pc'[Power] # "run" /\ Power \in Actors
    BY <1>0, <1>3, InQueueAlone DEF InQueue, Actors
  <2>3. \A b \in Threads : pc'[b] # "run"
    BY <1>0, <1>3 DEF Locks, PowerPlaces, Actors
  <2>4. \A b \in Actors : pc'[b] \notin {"write", "link", "run", "fill", "execute"}
    BY <1>0, <1>3, <1>d, <2>2, <2>3 DEF InQueue, Actors
  <2>5. index' = index
    BY DEF Execute
  <2>. QED
    BY <1>c, <1>g, <2>1, <2>4, <2>5 DEF Shape
<1>. QED
  BY <1>4, <1>5, <1>6 DEF Control

\* Nobody moves when the GPU or the interrupt thread does something.
LEMMA GPUControl ==
    ASSUME Control, FrontEnd \/ ResumeWaitLinkFE \/ NotifyPage, raised' \subseteq Pages, executed' \in Nat
    PROVE  Control'
<1>1. UNCHANGED <<queueVars, running, lockVars, list, command, batch, actorVars, issued>>
  BY DEF FrontEnd, ResumeWaitLinkFE, NotifyPage, eventVars
<1>2. pageSignal' \in [Pages -> BOOLEAN]
  <2>1. CASE NotifyPage
    BY <2>1 DEF NotifyPage, Control, QTypes
  <2>2. CASE FrontEnd \/ ResumeWaitLinkFE
    BY <2>2 DEF FrontEnd, ResumeWaitLinkFE, Control, QTypes
  <2>. QED
    BY <2>1, <2>2
<1>3. QTypes'
  BY <1>1, <1>2 DEF Control, QTypes, queueVars, actorVars
<1>4. Locks'
  BY <1>1 DEF Control, Locks, lockVars, actorVars
<1>5. Shape'
  BY <1>1 DEF Control, Shape, queueVars, actorVars
<1>. QED
  BY <1>3, <1>4, <1>5 DEF Control

\* Power management holds off the commits.
LEMMA PowerAcquireControl ==
    ASSUME Control, PowerAcquire
    PROVE  Control'
<1>0. QTypes /\ Locks /\ Shape /\ Power \in Actors /\ pc[Power] = "on"
  BY DEF Control, PowerAcquire, Actors
<1>1. PICK place \in {"stop", "check"} : Goto(Power, place)
  BY DEF PowerAcquire
<1>2. pc' \in [Actors -> PCs] /\ \A b \in Actors : pc'[b] = IF b = Power THEN place ELSE pc[b]
  BY <1>0, <1>1, Went DEF QTypes, PCs
<1>3. list' = list \/ AddRecord(gcvKERNEL_PIXEL, {})
  BY DEF PowerAcquire
<1>4. list' \in Seq(Records)
  BY <1>0, <1>3, Recorded DEF QTypes
<1>5. QTypes'
  BY <1>0, <1>2, <1>4 DEF QTypes, PowerAcquire, queueVars, actorVars, gpuVars
<1>6. Locks'
  BY <1>0, <1>2, ActorsAssumption
  DEF Locks, PowerAcquire, InQueue, PowerPlaces, ThreadPlaces, Actors
<1>7. Shape'
  BY <1>0, <1>2 DEF Locks, Shape, PowerAcquire, InQueue, Actors, queueVars
<1>. QED
  BY <1>5, <1>6, <1>7 DEF Control

\* Between the stall and the start no page is written but by Stop.
LEMMA PowerMovesControl ==
    ASSUME Control, PowerStalled \/ Stopping \/ InitializeHardware
    PROVE  Control'
<1>0. /\ QTypes /\ Locks /\ Shape /\ Power \in Actors
      /\ pc[Power] \in {"stall", "stopping", "off"}
  BY DEF Control, PowerStalled, Stopping, InitializeHardware, Actors
<1>1. PICK place \in {"stop", "off", "start"} :
          /\ Goto(Power, place) /\ (place = "stop" <=> pc[Power] = "stall")
          /\ running' \in BOOLEAN /\ (running' <=> place = "stop")
  <2>1. CASE PowerStalled
    BY <1>0, <2>1 DEF PowerStalled, Locks, QTypes
  <2>2. CASE Stopping
    BY <1>0, <2>2 DEF Stopping
  <2>3. CASE InitializeHardware
    BY <1>0, <2>3 DEF InitializeHardware, Locks, QTypes
  <2>. QED
    BY <2>1, <2>2, <2>3
<1>2. pc' \in [Actors -> PCs] /\ \A b \in Actors : pc'[b] = IF b = Power THEN place ELSE pc[b]
  BY <1>0, <1>1, Went DEF QTypes, PCs
<1>3. UNCHANGED <<queueVars, pageSignal, lockVars, eventVars, left, ctx, loading, executed, issued>>
  BY DEF PowerStalled, Stopping, InitializeHardware, gpuVars
<1>4. QTypes'
  BY <1>0, <1>1, <1>2, <1>3 DEF QTypes, queueVars, eventVars
<1>5. Locks'
  BY <1>0, <1>1, <1>2, <1>3, ActorsAssumption
  DEF Locks, InQueue, PowerPlaces, ThreadPlaces, Actors, lockVars
<1>6. Shape'
  BY <1>0, <1>1, <1>2, <1>3 DEF Locks, Shape, Actors, queueVars, eventVars
<1>. QED
  BY <1>4, <1>5, <1>6 DEF Control

\* Stop writes the END.
LEMMA StopControl ==
    ASSUME Control, Stop
    PROVE  /\ Control'
           /\ \A p \in Pages : \A o \in Offsets :
                mem'[p][o] = IF p = waitPos.page /\ o = waitPos.off THEN End ELSE mem[p][o]
<1>0. QTypes /\ Locks /\ Shape /\ Power \in Actors /\ pc[Power] = "stop"
  BY DEF Control, Stop, Actors
<1>1. pc' \in [Actors -> PCs] /\ \A b \in Actors : pc'[b] = IF b = Power THEN "stopping" ELSE pc[b]
  BY <1>0, Went DEF QTypes, PCs, Stop
<1>2. /\ Shaped(mem)'
      /\ \A p \in Pages : \A o \in Offsets :
           mem'[p][o] = IF p = waitPos.page /\ o = waitPos.off THEN End ELSE mem[p][o]
  <2>1. PICK p \in Pages, o \in Offsets : p = waitPos.page /\ o = waitPos.off
    BY <1>0 DEF QTypes, PagePlaces, Offsets
  <2>2. mem' = [mem EXCEPT ![p][o] = End] /\ Shaped(mem)
    BY <1>0, <2>1 DEF Stop, QTypes
  <2>3. /\ Shaped(mem')
        /\ \A q \in Pages : \A k \in Offsets :
             mem'[q][k] = IF q = p /\ k = o THEN End ELSE mem[q][k]
    BY <2>2 DEF Shaped
  <2>. QED
    BY <2>1, <2>3 DEF Shaped
<1>3. QTypes'
  BY <1>0, <1>1, <1>2 DEF QTypes, Stop, eventVars, gpuVars
<1>4. Locks'
  BY <1>0, <1>1, ActorsAssumption
  DEF Locks, Stop, InQueue, PowerPlaces, ThreadPlaces, Actors, lockVars, eventVars
<1>5. Shape'
  BY <1>0, <1>1 DEF Shape, Stop, Actors, eventVars
<1>. QED
  BY <1>2, <1>3, <1>4, <1>5 DEF Control

\* A start finds a page with room for a WAIT/LINK.
LEMMA StartPageControl ==
    ASSUME Control, StartPage
    PROVE  Control'
<1>0. QTypes /\ Locks /\ Shape /\ Power \in Actors /\ pc[Power] \in {"off", "start"}
  BY DEF Control, StartPage, Actors
<1>1. pc' \in [Actors -> PCs] /\ \A b \in Actors : pc'[b] = IF b = Power THEN "run" ELSE pc[b]
  BY <1>0, Went DEF QTypes, PCs, StartPage
<1>2. PageSize \in Nat /\ PageSize >= 2 /\ offset \in Nat
  BY <1>0, SizesAssumption DEF QTypes
<1>3. /\ index' \in Pages /\ offset' \in 0 .. PageSize - 1 /\ newQueue' \in BOOLEAN
      /\ newQueue' => offset' = 0
      /\ pageSignal' \in [Pages -> BOOLEAN]
  <2>1. CASE index # -1 /\ Room >= 1
    BY <1>0, <1>2, <2>1 DEF StartPage, Room, QTypes, Shape
  <2>2. CASE ~(index # -1 /\ Room >= 1)
    <3>1. NewQueueStalled
      BY <2>2 DEF StartPage
    <3>. QED
      BY <1>0, <1>2, <3>1, NewQueuedStalled
  <2>. QED
    BY <2>1, <2>2
<1>4. QTypes'
  BY <1>0, <1>1, <1>2, <1>3 DEF QTypes, StartPage, eventVars, gpuVars
<1>5. Locks'
  BY <1>0, <1>1, ActorsAssumption
  DEF Locks, StartPage, InQueue, PowerPlaces, ThreadPlaces, Actors, lockVars, eventVars
<1>6. \A b \in Actors : pc[b] \notin InQueue
  BY <1>0, ActorsAssumption DEF Locks, InQueue, Actors
<1>7. Shape'
  <2>1. batch' = {}
    BY <1>0, <1>6 DEF Shape, InQueue, StartPage, eventVars
  <2>2. \A b \in Actors : pc'[b] \notin {"fill", "execute"}
    BY <1>1, <1>6 DEF InQueue
  <2>3. index' # -1 /\ offset' < PageSize
    BY <1>2, <1>3, NoPage
  <2>. QED
    BY <1>3, <2>1, <2>2, <2>3 DEF Shape
<1>. QED
  BY <1>4, <1>5, <1>7 DEF Control

\* A start writes the WAIT/LINK and lets the FE at it.
LEMMA StartControl ==
    ASSUME Control, Start
    PROVE  /\ Control' /\ index \in Pages /\ offset \in Offsets
           /\ waitPos'.page = index /\ waitPos'.off = offset
           /\ \A p \in Pages : \A o \in Offsets :
                mem'[p][o] = IF p = index /\ o = offset THEN Wait ELSE mem[p][o]
<1>0. QTypes /\ Locks /\ Shape /\ Power \in Actors /\ pc[Power] = "run"
  BY DEF Control, Start, Actors
<1>1. pc' \in [Actors -> PCs] /\ \A b \in Actors : pc'[b] = IF b = Power THEN "on" ELSE pc[b]
  BY <1>0, Went DEF QTypes, PCs, Start
<1>2. index \in Pages /\ offset \in Offsets /\ offset + 1 \in 0 .. PageSize
  BY <1>0, SizesAssumption DEF QTypes, Shape, Offsets
<1>3. waitPos' \in PagePlaces /\ waitPos'.page = index /\ waitPos'.off = offset
  BY <1>2 DEF Start, At, PagePlaces, Offsets
<1>4. /\ Shaped(mem)'
      /\ \A p \in Pages : \A o \in Offsets :
           mem'[p][o] = IF p = index /\ o = offset THEN Wait ELSE mem[p][o]
  BY <1>0, <1>2 DEF QTypes, Start, Shaped
<1>5. QTypes'
  BY <1>0, <1>1, <1>2, <1>3, <1>4 DEF QTypes, Start, eventVars
<1>6. Locks'
  BY <1>0, <1>1, ActorsAssumption
  DEF Locks, Start, InQueue, PowerPlaces, ThreadPlaces, Actors, eventVars
<1>7. \A b \in Actors : pc[b] \notin InQueue
  BY <1>0, ActorsAssumption DEF Locks, InQueue, Actors
<1>8. \A b \in Actors : b # Power => pc[b] # "run"
  BY <1>0 DEF Locks, PowerPlaces, Actors
<1>9. Shape'
  BY <1>0, <1>1, <1>2, <1>7, <1>8, NoPage DEF Shape, Start, InQueue, eventVars
<1>. QED
  BY <1>2, <1>3, <1>4, <1>5, <1>6, <1>9 DEF Control

-----------------------------------------------------------------------------
(* The pages, the chain of WAIT/LINKs, and the FE on it.                   *)

CellAt(w) == mem[w.page][w.off]
Before(w) == At(w.page, w.off - 1)

\* The command at this place is the kernel's item k, or one not executed yet.
Kernel(p, o, k) == mem[p][o].op \in KernelCommands /\ mem[p][o].item = k
Pending(p, o) == mem[p][o].op \in KernelCommands /\ mem[p][o].item > executed

\* The signal of page p is in an EVENT not executed yet.
InE(p) == p \in batch \/ \E q \in Pages, o \in Offsets : Pending(q, o) /\ p \in mem[q][o].pages

OneOwner ==
    \A p \in Pages :
        /\ pageSignal[p] \/ p = index \/ OnL(p) \/ InE(p) \/ p \in raised
        /\ pageSignal[p] => p # index /\ ~OnL(p) /\ ~InE(p) /\ p \notin raised
        /\ p = index => ~OnL(p) /\ ~InE(p) /\ p \notin raised
        /\ OnL(p) => ~InE(p) /\ p \notin raised
        /\ InE(p) => p \notin raised

\* No signal is in two EVENTs, or in an EVENT that is linked and in the batch.
EventsApart ==
    /\ \A p, q, r \in Pages : \A o, k \in Offsets :
        Pending(p, o) /\ Pending(q, k) /\ r \in mem[p][o].pages /\ r \in mem[q][k].pages =>
            mem[p][o].item = mem[q][k].item
    /\ \A p, r \in Pages : \A o \in Offsets :
        Pending(p, o) /\ mem[p][o].item <= issued /\ r \in mem[p][o].pages => r \notin batch

\* They stay so when the commands not executed stay as they are.
LEMMA EventsStay ==
    ASSUME EventsApart, UNCHANGED <<batch, issued>>,
           \A p \in Pages : \A o \in Offsets :
             /\ Pending(p, o)' <=> Pending(p, o)
             /\ Pending(p, o) => mem'[p][o] = mem[p][o]
    PROVE  EventsApart'
<1>1. ASSUME NEW p \in Pages, NEW q \in Pages, NEW r \in Pages, NEW o \in Offsets, NEW k \in Offsets,
             Pending(p, o)', Pending(q, k)', r \in mem'[p][o].pages, r \in mem'[q][k].pages
      PROVE  mem'[p][o].item = mem'[q][k].item
  BY <1>1 DEF EventsApart
<1>2. ASSUME NEW p \in Pages, NEW r \in Pages, NEW o \in Offsets,
             Pending(p, o)', mem'[p][o].item <= issued', r \in mem'[p][o].pages
      PROVE  r \notin batch'
  BY <1>2 DEF EventsApart
<1>. QED
  BY <1>1, <1>2 DEF EventsApart

Executing == \E a \in Actors : pc[a] = "execute"

\* What is in the page behind the last WAIT, before it is linked.
Written ==
    /\ \A a \in Actors : pc[a] = "link" => mem[index][offset] = Wait
    /\ Executing => /\ mem[index][offset] = KernelCommand(command, issued + 1, batch)
                    /\ mem[index][offset + 1] = Wait
    /\ running => CellAt(waitPos) = IF pc[Power] = "stopping" THEN End ELSE Wait
    /\ \A p \in Pages : \A o \in Offsets : mem[p][o].op \in KernelCommands =>
        /\ mem[p][o].item \in Nat /\ mem[p][o].pages \subseteq Pages
        /\ mem[p][o].op # "event" => mem[p][o].pages = {}

\* The WAIT in front of item k is a LINK to a user's buffer that comes back to
\* the WAIT behind item k, or to the kernel's command right before that.
BufferLink(W, k) ==
    /\ \E c \in Contexts \cup {NoContext}, l \in BOOLEAN :
        CellAt(W[k - 1]) = Link(InBuffer(k, c, l, W[k]))
    /\ \A p \in Pages : \A o \in Offsets : ~Kernel(p, o, k)

CommandLink(W, k) ==
    /\ CellAt(W[k - 1]) = Link(Before(W[k]))
    /\ W[k].off > 0 /\ Kernel(W[k].page, W[k].off - 1, k)

\* A kernel's command is the one in front of its WAIT, and none of the pages it
\* gives back is on the rest of the chain; or it is about to be linked.
Placed(W, p, o) ==
    \/ /\ mem[p][o].item <= issued
       /\ W[mem[p][o].item].page = p /\ W[mem[p][o].item].off = o + 1
       /\ \A k \in mem[p][o].item .. issued : W[k].page \notin mem[p][o].pages
    \/ mem[p][o].item = issued + 1 /\ p = index /\ o = offset /\ Executing

Chain(W) ==
    /\ executed <= issued
    /\ running => W[issued] = waitPos
    /\ \A k \in executed + 1 .. issued : BufferLink(W, k) \/ CommandLink(W, k)
    /\ running => \A k \in executed .. issued :
        /\ W[k].page = index => W[k].off < offset
        /\ ~pageSignal[W[k].page] /\ W[k].page \notin raised
    /\ \A p \in Pages : \A o \in Offsets : Pending(p, o) => Placed(W, p, o)

AtWait(W) == fe = W[executed]
AtCommand(W) ==
    /\ executed < issued /\ W[executed + 1].off > 0
    /\ fe = Before(W[executed + 1]) /\ Kernel(fe.page, fe.off, executed + 1)
InItsBuffer(W) ==
    /\ executed < issued
    /\ \E c \in Contexts \cup {NoContext}, l \in BOOLEAN :
        fe = InBuffer(executed + 1, c, l, W[executed + 1])
    /\ \A p \in Pages : \A o \in Offsets : ~Kernel(p, o, executed + 1)
AtPause(W) == W[executed].off > 0 /\ fe = Paused(W[executed].page, W[executed].off - 1)

FEAt(W) ==
    \/ running /\ (AtWait(W) \/ AtCommand(W) \/ InItsBuffer(W) \/ AtPause(W))
    \/ fe = Stopped /\ executed = issued /\ (running => pc[Power] = "stopping")

Quiet ==
    /\ ~running => fe = Stopped
    /\ pc[Power] \in {"stop", "stopping"} => executed = issued /\ fe \in {waitPos, Stopped}
    /\ pc[Power] = "stop" => fe = waitPos

Ring(W) == OneOwner /\ ListApart /\ EventsApart /\ Written /\ Chain(W) /\ FEAt(W) /\ Quiet

QInv == Control /\ \E W \in [Nat -> PagePlaces] : Ring(W)

\* What a place is made of.
LEMMA Place ==
    ASSUME NEW w \in PagePlaces
    PROVE  /\ w.kind = "page" /\ w.page \in Pages /\ w.off \in Offsets /\ w.off \in Nat
           /\ w = At(w.page, w.off)
           /\ Before(w).kind = "page" /\ Before(w).page = w.page /\ Before(w).off = w.off - 1
           /\ w.off > 0 => w.off - 1 \in Offsets
  BY SizesAssumption DEF PagePlaces, Offsets, At, Before

-----------------------------------------------------------------------------
(* A step that leaves the ring alone: somebody moves between places that   *)
(* say nothing about the ring, and the list keeps its signals.             *)

RingVars == <<mem, index, offset, pageSignal, waitPos, running, batch, raised, fe, executed, issued>>

StillPlaces ==
    /\ \A a \in Actors : pc'[a] = "link" => pc[a] = "link"
    /\ \A a \in Actors : pc'[a] = "execute" <=> pc[a] = "execute"
    /\ \A s \in {"stop", "stopping"} : pc'[Power] = s <=> pc[Power] = s

\* The chain, where the FE is on it and who has a page stay as they are.
LEMMA StillRing ==
    ASSUME NEW W, Ring(W), UNCHANGED RingVars, StillPlaces, Executing => command' = command,
           \A p \in Pages : OnL(p)' <=> OnL(p), ListApart'
    PROVE  Ring(W)'
<1>1. OneOwner'
  BY DEF Ring, OneOwner, InE, Pending, RingVars
<1>2. EventsApart'
  BY DEF Ring, EventsApart, Pending, RingVars
<1>3. Executing' <=> Executing
  BY DEF StillPlaces, Executing
<1>4. Written'
  BY <1>3 DEF Ring, Written, CellAt, RingVars, StillPlaces
<1>5. Chain(W)'
  BY <1>3 DEF Ring, Chain, Placed, Pending, BufferLink, CommandLink, Kernel, CellAt, RingVars
<1>6. FEAt(W)' /\ Quiet'
  BY DEF Ring, FEAt, AtWait, AtCommand, InItsBuffer, AtPause, Kernel, Quiet, RingVars, StillPlaces
<1>. QED
  BY <1>1, <1>2, <1>4, <1>5, <1>6 DEF Ring

\* The steps of a commit, of a submission and of power management of that kind.
LEMMA StillSteps ==
    ASSUME NEW W, Control, Ring(W),
           \/ \E t \in Threads :
                \/ StartCommit(t) \/ CommitEnter(t) \/ CommitFlush(t) \/ CommitFail(t)
                \/ UserEvents(t) \/ Stall(t)
           \/ \E a \in Actors : SubmitCheck(a) \/ SubmitEnter(a) \/ SubmitExit(a)
           \/ InitializeHardware
    PROVE  Ring(W)'
<1>1. UNCHANGED RingVars
  BY DEF StartCommit, CommitEnter, CommitFlush, CommitFail, UserEvents, Stall, SubmitCheck,
     SubmitEnter, SubmitExit, InitializeHardware, RingVars, queueVars, eventVars, gpuVars
<1>2. list' = list \/ AddRecord(gcvKERNEL_PIXEL, {})
  BY DEF StartCommit, CommitEnter, CommitFlush, CommitFail, UserEvents, Stall, SubmitCheck,
     SubmitEnter, SubmitExit, InitializeHardware, eventVars
<1>3. ListApart' /\ \A p \in Pages : OnL(p)' <=> OnL(p)
  <2>1. CASE list' = list
    BY <2>1 DEF OnL, ListApart, Ring
  <2>2. CASE AddRecord(gcvKERNEL_PIXEL, {})
    BY <2>2, Recorded DEF Control, QTypes, Ring
  <2>. QED
    BY <1>2, <2>1, <2>2
<1>4. \E a \in Actors, x \in PCs :
          /\ Goto(a, x) /\ x \notin {"link", "execute", "stop", "stopping"}
          /\ pc[a] \notin {"link", "execute", "stop", "stopping"}
  <2>1. ASSUME NEW t \in Threads,
               \/ StartCommit(t) \/ CommitEnter(t) \/ CommitFlush(t) \/ CommitFail(t)
               \/ UserEvents(t) \/ Stall(t)
        PROVE  /\ pc[t] \in {"idle", "enter", "flush", "write", "events"} /\ t \in Actors
               /\ \E x \in {"enter", "flush", "space", "reserve", "idle", "check"} : Goto(t, x)
    BY <2>1 DEF Actors, StartCommit, CommitEnter, EnterCommit, CommitFlush, CommitFail,
       AbandonCommit, UserEvents, Stall
  <2>2. ASSUME NEW a \in Actors, SubmitCheck(a) \/ SubmitEnter(a) \/ SubmitExit(a)
        PROVE  /\ pc[a] \in {"check", "submit", "loop"}
               /\ \E x \in {"stall", "idle", "submit", "loop"} : Goto(a, x)
    BY <2>2 DEF SubmitCheck, SubmitEnter, EnterCommit, SubmitExit, Return
  <2>3. ASSUME InitializeHardware
        PROVE  pc[Power] = "off" /\ Power \in Actors /\ Goto(Power, "start")
    BY <2>3 DEF InitializeHardware, Actors
  <2>. QED
    BY <2>1, <2>2, <2>3 DEF PCs
<1>5. PICK a \in Actors, x \in PCs :
          /\ Goto(a, x) /\ x \notin {"link", "execute", "stop", "stopping"}
          /\ pc[a] \notin {"link", "execute", "stop", "stopping"}
  BY <1>4
<1>6. \A b \in Actors : pc'[b] = IF b = a THEN x ELSE pc[b]
  BY <1>5, Went DEF Control, QTypes
<1>7. StillPlaces
  BY <1>5, <1>6 DEF StillPlaces, Actors
<1>8. Executing => command' = command
  <2>1. ASSUME NEW t \in Threads, CommitFlush(t), Executing
        PROVE  FALSE
    <3>1. t \in Actors /\ pc[t] = "flush"
      BY <2>1 DEF CommitFlush, Actors
    <3>. QED
      BY <2>1, <3>1, InQueueAlone DEF Executing, InQueue
  <2>. QED
    BY <2>1 DEF StartCommit, CommitEnter, CommitFail, UserEvents, Stall, SubmitCheck,
       SubmitEnter, SubmitExit, InitializeHardware, eventVars
<1>. QED
  BY <1>1, <1>3, <1>7, <1>8, StillRing

\* While items are to be executed, the WAIT the FE has reached is a LINK.
LEMMA LinkAhead ==
    ASSUME NEW W \in [Nat -> PagePlaces], Control, Ring(W), executed < issued
    PROVE  /\ CellAt(W[executed]).op = "link"
           /\ \/ /\ \E c \in Contexts \cup {NoContext}, l \in BOOLEAN :
                      CellAt(W[executed]) = Link(InBuffer(executed + 1, c, l, W[executed + 1]))
                 /\ \A p \in Pages : \A o \in Offsets : ~Kernel(p, o, executed + 1)
              \/ /\ CellAt(W[executed]) = Link(Before(W[executed + 1]))
                 /\ W[executed + 1].off > 0
                 /\ Kernel(W[executed + 1].page, W[executed + 1].off - 1, executed + 1)
<1>1. executed \in Nat /\ issued \in Nat
  BY DEF Control, QTypes
<1>2. PICK k : k = executed + 1
  OBVIOUS
<1>3. k \in executed + 1 .. issued /\ k - 1 = executed
  BY <1>1, <1>2
<1>4. BufferLink(W, k) \/ CommandLink(W, k)
  BY <1>3 DEF Ring, Chain
<1>5. PICK cell : cell = CellAt(W[k - 1])
  OBVIOUS
<1>6. CellAt(W[executed]) = cell
  BY <1>3, <1>5
<1>7. \A to : Link(to).op = "link"
  BY DEF Link
<1>8. CASE BufferLink(W, k)
  <2>1. PICK c \in Contexts \cup {NoContext}, l \in BOOLEAN : cell = Link(InBuffer(k, c, l, W[k]))
    BY <1>5, <1>8 DEF BufferLink
  <2>2. \A p \in Pages : \A o \in Offsets : ~Kernel(p, o, k)
    BY <1>8 DEF BufferLink
  <2>. QED
    BY <1>2, <1>6, <1>7, <2>1, <2>2
<1>9. CASE CommandLink(W, k)
  <2>1. cell = Link(Before(W[k])) /\ W[k].off > 0 /\ Kernel(W[k].page, W[k].off - 1, k)
    BY <1>5, <1>9 DEF CommandLink
  <2>. QED
    BY <1>2, <1>6, <1>7, <2>1
<1>. QED
  BY <1>4, <1>8, <1>9

\* A power transition begins, or has stalled: in the second case, and if it need
\* not stall, the FE is seen to spin at the last WAIT.
LEMMA SpinsAtLast ==
    ASSUME NEW W \in [Nat -> PagePlaces], Control, Ring(W), Spinning
    PROVE  executed = issued /\ fe = waitPos /\ running
<1>1. fe.kind = "page" /\ fe = waitPos /\ CellAt(fe) = Wait
  BY DEF Spinning, Cell, CellAt
<1>2. executed \in Nat /\ issued \in Nat /\ executed <= issued
  BY DEF Control, QTypes, Ring, Chain
<1>3. running
  BY <1>1 DEF Ring, FEAt, Quiet, Stopped
<1>4. executed = issued
  <2>1. SUFFICES ASSUME executed < issued
                 PROVE  FALSE
    BY <1>2
  <2>4. CellAt(W[executed]).op = "link"
    BY <2>1, LinkAhead
  <2>5. ~AtWait(W)
    BY <1>1, <2>4 DEF AtWait, Wait
  <2>6. ~AtCommand(W)
    BY <1>1 DEF AtCommand, Kernel, CellAt, Wait, KernelCommands
  <2>7. ~InItsBuffer(W) /\ ~AtPause(W) /\ fe # Stopped
    BY <1>1 DEF InItsBuffer, AtPause, Stopped, InBuffer, Paused
  <2>. QED
    BY <2>5, <2>6, <2>7 DEF Ring, FEAt
<1>. QED
  BY <1>1, <1>3, <1>4

\* Power management takes the power semaphore, of an idle queue or to stall it.
LEMMA PowerAcquireRing ==
    ASSUME NEW W \in [Nat -> PagePlaces], Control, Ring(W), PowerAcquire \/ PowerStalled
    PROVE  Ring(W)'
<1>0. Power \in Actors /\ pc[Power] \in {"on", "stall"}
  BY DEF Actors, PowerAcquire, PowerStalled
<1>1. UNCHANGED RingVars /\ command' = command
  BY DEF PowerAcquire, PowerStalled, RingVars, queueVars, eventVars, gpuVars
<1>2. \/ Spinning /\ Goto(Power, "stop") /\ list' = list
      \/ AddRecord(gcvKERNEL_PIXEL, {}) /\ Goto(Power, "check")
  BY DEF PowerAcquire, PowerStalled, eventVars
<1>3. ListApart' /\ \A p \in Pages : OnL(p)' <=> OnL(p)
  <2>1. CASE list' = list
    BY <2>1 DEF OnL, ListApart, Ring
  <2>2. CASE AddRecord(gcvKERNEL_PIXEL, {})
    BY <2>2, Recorded DEF Control, QTypes, Ring
  <2>. QED
    BY <1>2, <2>1, <2>2
<1>4. CASE AddRecord(gcvKERNEL_PIXEL, {}) /\ Goto(Power, "check")
  <2>1. \A b \in Actors : pc'[b] = IF b = Power THEN "check" ELSE pc[b]
    BY <1>0, <1>4, Went DEF Control, QTypes, PCs
  <2>2. StillPlaces
    BY <1>0, <2>1 DEF StillPlaces
  <2>. QED
    BY <1>1, <1>3, <2>2, StillRing
<1>5. CASE Spinning /\ Goto(Power, "stop") /\ list' = list
  <2>1. \A b \in Actors : pc'[b] = IF b = Power THEN "stop" ELSE pc[b]
    BY <1>0, <1>5, Went DEF Control, QTypes, PCs
  <2>2. executed = issued /\ fe = waitPos /\ running
    BY <1>5, SpinsAtLast
  <2>3. Executing' <=> Executing
    BY <1>0, <2>1 DEF Executing
  <2>4. OneOwner' /\ EventsApart'
    BY <1>1, <1>3 DEF Ring, OneOwner, EventsApart, InE, Pending, RingVars
  <2>5. Written'
    BY <1>0, <1>1, <2>1, <2>3 DEF Ring, Written, CellAt, RingVars
  <2>6. Chain(W)'
    BY <1>1, <2>3 DEF Ring, Chain, Placed, Pending, BufferLink, CommandLink, Kernel, CellAt, RingVars
  <2>7. AtWait(W) /\ UNCHANGED AtWait(W)
    BY <1>1, <2>2 DEF Ring, Chain, AtWait, RingVars
  <2>8. FEAt(W)' /\ Quiet'
    BY <1>0, <1>1, <2>1, <2>2, <2>7 DEF FEAt, Quiet, RingVars
  <2>. QED
    BY <1>3, <2>4, <2>5, <2>6, <2>8 DEF Ring
<1>. QED
  BY <1>2, <1>4, <1>5

-----------------------------------------------------------------------------
(* The signals move from hand to hand.                                     *)

\* What is taken from the list is on it no more.
LEMMA Taken ==
    ASSUME list \in Seq(Records), list # <<>>, list' = Tail(list), ListApart
    PROVE  /\ ListApart'
           /\ \A p \in Pages : OnL(p)' <=> OnL(p) /\ p \notin list[1].pages
           /\ \A p \in Pages : p \in list[1].pages => OnL(p)
<1>1. PICK n \in Nat : n = Len(list) /\ n > 0 /\ DOMAIN list = 1 .. n
  OBVIOUS
<1>2. DOMAIN list' = 1 .. n - 1 /\ \A k \in 1 .. n - 1 : list'[k] = list[k + 1]
  BY <1>1
<1>3. \A k \in DOMAIN list' : k + 1 \in DOMAIN list /\ k + 1 # 1
  BY <1>1, <1>2
<1>4. 1 \in DOMAIN list /\ \A k \in DOMAIN list : k = 1 \/ (k - 1 \in DOMAIN list' /\ k - 1 + 1 = k)
  BY <1>1, <1>2
<1>5. \A k \in DOMAIN list' : list'[k] = list[k + 1]
  BY <1>2
<1>6. \A p \in Pages : p \in list[1].pages => OnL(p)
  BY <1>4 DEF OnL
<1>7. ASSUME NEW p \in Pages
      PROVE  OnL(p)' <=> OnL(p) /\ p \notin list[1].pages
  <2>1. ASSUME OnL(p)'
        PROVE  OnL(p) /\ p \notin list[1].pages
    <3>1. PICK k \in DOMAIN list' : p \in list'[k].pages
      BY <2>1 DEF OnL
    <3>2. p \in list[k + 1].pages
      BY <1>5, <3>1
    <3>. QED
      BY <1>3, <1>4, <3>1, <3>2 DEF OnL, ListApart
  <2>2. ASSUME OnL(p), p \notin list[1].pages
        PROVE  OnL(p)'
    <3>1. PICK k \in DOMAIN list : p \in list[k].pages
      BY <2>2 DEF OnL
    <3>2. k - 1 \in DOMAIN list' /\ k - 1 + 1 = k
      BY <1>4, <2>2, <3>1
    <3>3. list'[k - 1] = list[k]
      BY <1>5, <3>2
    <3>. QED
      BY <3>1, <3>2, <3>3 DEF OnL
  <2>. QED
    BY <2>1, <2>2
<1>8. ListApart'
  <2>1. SUFFICES ASSUME NEW j \in DOMAIN list', NEW k \in DOMAIN list', NEW p \in Pages,
                        p \in list'[j].pages, p \in list'[k].pages
                 PROVE  j = k
    BY DEF ListApart
  <2>2. p \in list[j + 1].pages /\ p \in list[k + 1].pages
    BY <1>5, <2>1
  <2>3. j + 1 = k + 1
    BY <1>3, <2>2 DEF ListApart
  <2>. QED
    BY <1>2, <2>3
<1>. QED
  BY <1>6, <1>7, <1>8

\* The signals of the first queue of the list become the batch's.
LEMMA SubmitNextRing ==
    ASSUME NEW W \in [Nat -> PagePlaces], Control, Ring(W), NEW a \in Actors, SubmitNext(a)
    PROVE  Ring(W)'
<1>0. /\ pc[a] = "loop" /\ list # <<>> /\ list' = Tail(list) /\ batch' = list[1].pages
      /\ Goto(a, "reserve")
  BY DEF SubmitNext
<1>1. /\ UNCHANGED <<mem, index, offset, pageSignal, waitPos, running, raised, fe, executed, issued>>
  BY DEF SubmitNext, queueVars, gpuVars
<1>2. \A b \in Actors : pc[b] \in InQueue => b = a
  BY <1>0, InQueueAlone DEF InQueue
<1>3. batch = {}
  BY <1>0, <1>2 DEF Control, Shape, InQueue
<1>4. /\ ListApart' /\ \A p \in Pages : OnL(p)' <=> OnL(p) /\ p \notin batch'
      /\ \A p \in Pages : p \in batch' => OnL(p)
  BY <1>0, Taken DEF Control, QTypes, Ring
<1>5. \A p \in Pages : InE(p)' <=> InE(p) \/ p \in batch'
  BY <1>1, <1>3 DEF InE, Pending
<1>6. OneOwner'
  BY <1>1, <1>4, <1>5 DEF Ring, OneOwner
<1>7. EventsApart'
  <2>1. \A p, q, r \in Pages : \A o, k \in Offsets :
          Pending(p, o)' /\ Pending(q, k)' /\ r \in mem'[p][o].pages /\ r \in mem'[q][k].pages =>
              mem'[p][o].item = mem'[q][k].item
    BY <1>1 DEF Ring, EventsApart, Pending
  <2>2. \A p, r \in Pages : \A o \in Offsets :
          Pending(p, o)' /\ mem'[p][o].item <= issued' /\ r \in mem'[p][o].pages => r \notin batch'
    <3>1. \A p, r \in Pages : \A o \in Offsets : Pending(p, o) /\ r \in mem[p][o].pages => InE(r)
      BY DEF InE
    <3>2. \A r \in Pages : r \in batch' => ~InE(r)
      BY <1>4 DEF Ring, OneOwner
    <3>. QED
      BY <1>1, <3>1, <3>2 DEF Pending
  <2>. QED
    BY <2>1, <2>2 DEF EventsApart
<1>8. \A b \in Actors : pc'[b] = IF b = a THEN "reserve" ELSE pc[b]
  BY <1>0, Went DEF Control, QTypes, PCs
<1>9. ~Executing /\ ~Executing'
  BY <1>0, <1>2, <1>8 DEF Executing, InQueue
<1>10. Power \in Actors
  BY DEF Actors
<1>11. Written'
  BY <1>0, <1>1, <1>8, <1>9, <1>10 DEF Ring, Written, CellAt
<1>12. Chain(W)'
  BY <1>1, <1>9 DEF Ring, Chain, Placed, Pending, BufferLink, CommandLink, Kernel, CellAt
<1>13. FEAt(W)' /\ Quiet'
  BY <1>0, <1>1, <1>8, <1>10
  DEF Ring, FEAt, AtWait, AtCommand, InItsBuffer, AtPause, Kernel, Quiet
<1>. QED
  BY <1>4, <1>6, <1>7, <1>11, <1>12, <1>13 DEF Ring

\* The interrupt thread signals a raised page: it is free.
LEMMA NotifyRing ==
    ASSUME NEW W \in [Nat -> PagePlaces], Control, Ring(W), NotifyPage
    PROVE  Ring(W)'
<1>1. PICK s \in raised : raised' = raised \ {s} /\ pageSignal' = [pageSignal EXCEPT ![s] = TRUE]
  BY DEF NotifyPage
<1>2. UNCHANGED <<mem, index, offset, waitPos, running, list, command, batch, pc, fe, executed, issued>>
  BY DEF NotifyPage, queueVars, actorVars, gpuVars
<1>3. \A p \in Pages : pageSignal'[p] <=> pageSignal[p] \/ p = s
  BY <1>1, Zenon DEF Control, QTypes
<1>4. \A p \in Pages : InE(p)' <=> InE(p)
  BY <1>2 DEF InE, Pending
<1>5. \A p \in Pages : OnL(p)' <=> OnL(p)
  BY <1>2 DEF OnL
<1>6. \A p : p \in raised' <=> p \in raised /\ p # s
  BY <1>1
<1>7. OneOwner'
  BY <1>2, <1>3, <1>4, <1>5, <1>6 DEF Ring, OneOwner
<1>8. ListApart' /\ EventsApart' /\ Written'
  BY <1>2 DEF Ring, ListApart, EventsApart, Pending, Written, CellAt, Executing
<1>9. Chain(W)'
  <2>1. executed \in Nat /\ issued \in Nat
    BY DEF Control, QTypes
  <2>2. \A k \in executed .. issued : W[k].page \in Pages
    BY <2>1, Place
  <2>3. \A k \in executed .. issued : running /\ ~pageSignal[W[k].page] /\ W[k].page \notin raised =>
          ~pageSignal'[W[k].page] /\ W[k].page \notin raised'
    BY <1>1, <1>3, <1>6, <2>2
  <2>. QED
    BY <1>2, <2>3
    DEF Ring, Chain, Placed, Pending, BufferLink, CommandLink, Kernel, CellAt, Executing
<1>10. FEAt(W)' /\ Quiet'
  BY <1>2 DEF Ring, FEAt, AtWait, AtCommand, InItsBuffer, AtPause, Kernel, Quiet
<1>. QED
  BY <1>7, <1>8, <1>9, <1>10 DEF Ring

-----------------------------------------------------------------------------
(* A new page.                                                             *)

\* A commit or submission takes the next page, for whose signal it has waited.
LEMMA NewPageRing ==
    ASSUME NEW W \in [Nat -> PagePlaces], Control, Ring(W), NEW a \in Actors,
           pc[a] \in {"space", "reserve"}, NEW x \in {"write", "fill"}, Goto(a, x), NewQueue,
           UNCHANGED <<mem, waitPos, running, command, batch, raised, fe, executed, issued>>
    PROVE  Ring(W)'
<1>1. /\ \A b \in Actors : pc[b] \in InQueue => b = a
      /\ index \in Pages /\ running /\ pc[Power] \notin {"stop", "stopping"}
  BY InQueueAlone DEF InQueue
<1>2. /\ index' \in Pages /\ index' # index /\ offset' = 0 /\ pageSignal[index']
      /\ \A p \in Pages : pageSignal'[p] <=> pageSignal[p] /\ p # index'
      /\ \A p \in Pages : OnL(p)' <=> OnL(p) \/ p = index
      /\ ListApart'
  BY <1>1, NoPage, NewQueued DEF Control, Ring, OneOwner
<1>3. \A p \in Pages : InE(p)' <=> InE(p)
  BY DEF InE, Pending
<1>4. OneOwner'
  BY <1>1, <1>2, <1>3 DEF Ring, OneOwner
<1>5. EventsApart'
  BY DEF Ring, EventsApart, Pending
<1>6. \A b \in Actors : pc'[b] = IF b = a THEN x ELSE pc[b]
  BY Went DEF Control, QTypes, PCs
<1>7. /\ \A b \in Actors : pc[b] \notin {"link", "execute"}
      /\ \A b \in Actors : pc'[b] \notin {"link", "execute"}
  BY <1>1, <1>6 DEF InQueue
<1>8. ~Executing /\ ~Executing' /\ Power \in Actors
  BY <1>7 DEF Executing, Actors
<1>9. pc'[Power] \notin {"stop", "stopping"}
  BY <1>1, <1>6, <1>8
<1>10. Written'
  BY <1>1, <1>7, <1>8, <1>9 DEF Ring, Written, CellAt
<1>11. Chain(W)'
  <2>1. executed \in Nat /\ issued \in Nat
    BY DEF Control, QTypes
  <2>2. \A k \in executed .. issued : W[k].page \in Pages
    BY <2>1, Place
  <2>3. \A k \in executed .. issued :
          /\ W[k].page = index' => W[k].off < offset'
          /\ ~pageSignal'[W[k].page] /\ W[k].page \notin raised
    BY <1>1, <1>2, <2>2 DEF Ring, Chain
  <2>4. \A p \in Pages : \A o \in Offsets : Pending(p, o)' => Placed(W, p, o)'
    BY <1>8 DEF Ring, Chain, Placed, Pending
  <2>. QED
    BY <2>3, <2>4 DEF Ring, Chain, BufferLink, CommandLink, Kernel, CellAt
<1>12. FEAt(W)' /\ Quiet'
  BY <1>1, <1>9
  DEF Ring, FEAt, AtWait, AtCommand, InItsBuffer, AtPause, Kernel, Quiet
<1>. QED
  BY <1>2, <1>4, <1>5, <1>10, <1>11, <1>12 DEF Ring

\* The room is there, or a new page gives it.
LEMMA FindRoomRing ==
    ASSUME NEW W \in [Nat -> PagePlaces], Control, Ring(W),
           (\E t \in Threads : CommitSpace(t)) \/ (\E a \in Actors : Reserve(a))
    PROVE  Ring(W)'
<1>1. PICK a \in Actors, x \in {"write", "fill"} :
          /\ pc[a] \in {"space", "reserve"} /\ Goto(a, x)
          /\ UNCHANGED <<index, offset, newQueue, pageSignal, list>> \/ NewQueue
  BY DEF CommitSpace, Reserve, Actors
<1>2. UNCHANGED <<mem, waitPos, running, command, batch, raised, fe, executed, issued>>
  BY DEF CommitSpace, Reserve, gpuVars
<1>3. CASE NewQueue
  BY <1>1, <1>2, <1>3, NewPageRing
<1>4. CASE UNCHANGED <<index, offset, newQueue, pageSignal, list>>
  <2>1. \A b \in Actors : pc'[b] = IF b = a THEN x ELSE pc[b]
    BY <1>1, Went DEF Control, QTypes, PCs
  <2>2. StillPlaces
    BY <1>1, <2>1 DEF StillPlaces, Actors
  <2>3. ListApart' /\ \A p \in Pages : OnL(p)' <=> OnL(p)
    BY <1>4 DEF Ring, ListApart, OnL
  <2>. QED
    BY <1>2, <1>4, <2>2, <2>3, StillRing DEF RingVars
<1>. QED
  BY <1>1, <1>3, <1>4

\* A stopped FE: nothing is pending, and nobody is in the queue.
LEMMA NotRunning ==
    ASSUME NEW W \in [Nat -> PagePlaces], Control, Ring(W), ~running
    PROVE  /\ fe = Stopped /\ executed = issued
           /\ \A b \in Actors : pc[b] \notin InQueue
           /\ ~Executing /\ batch = {}
           /\ \A p \in Pages : \A o \in Offsets : ~Pending(p, o)
<1>1. fe = Stopped /\ executed = issued /\ issued \in Nat
  BY DEF Ring, FEAt, Control, QTypes
<1>2. \A b \in Actors : pc[b] \notin InQueue
  BY ActorsAssumption DEF Control, Locks, InQueue, Actors
<1>3. ~Executing /\ batch = {}
  BY <1>2 DEF Executing, InQueue, Control, Shape
<1>4. ASSUME NEW p \in Pages, NEW o \in Offsets, Pending(p, o)
      PROVE  FALSE
  <2>1. mem[p][o].item \in Nat /\ mem[p][o].item > executed
    BY <1>4 DEF Ring, Written, Pending
  <2>2. Placed(W, p, o)
    BY <1>4 DEF Ring, Chain
  <2>. QED
    BY <1>1, <1>3, <2>1, <2>2 DEF Placed
<1>. QED
  BY <1>1, <1>2, <1>3, <1>4

\* A start takes a page, if it has none or no room.
LEMMA StartPageRing ==
    ASSUME NEW W \in [Nat -> PagePlaces], Control, Ring(W), StartPage
    PROVE  Ring(W)'
<1>1. ~running /\ Power \in Actors /\ pc[Power] \in {"off", "start"}
  BY DEF StartPage, Actors
<1>2. \A b \in Actors : pc'[b] = IF b = Power THEN "run" ELSE pc[b]
  BY <1>1, Went DEF Control, QTypes, PCs, StartPage
<1>3. UNCHANGED <<mem, waitPos, running, command, batch, list, raised, fe, executed, issued>>
  BY DEF StartPage, eventVars, gpuVars
<1>4. UNCHANGED <<index, offset, newQueue, pageSignal>> \/ NewQueueStalled
  BY DEF StartPage
<1>5. ListApart' /\ \A p \in Pages : OnL(p)' <=> OnL(p)
  BY <1>3 DEF Ring, ListApart, OnL
<1>6. \A b \in Actors : pc'[b] \notin {"link", "execute", "stop", "stopping"}
  <2>1. \A b \in Actors : pc[b] \notin InQueue
    BY <1>1, NotRunning
  <2>2. \A b \in Actors : b # Power => pc[b] \notin PowerPlaces
    BY DEF Control, Locks, Actors
  <2>. QED
    BY <1>2, <2>1, <2>2 DEF InQueue, PowerPlaces
<1>7. CASE UNCHANGED <<index, offset, newQueue, pageSignal>>
  <2>1. StillPlaces
    <3>1. ~Executing /\ \A b \in Actors : pc[b] # "execute"
      BY <1>1, NotRunning DEF Executing
    <3>. QED
      BY <1>1, <1>2, <1>6, <3>1 DEF StillPlaces
  <2>. QED
    BY <1>3, <1>5, <1>7, <2>1, StillRing DEF RingVars
<1>8. CASE NewQueueStalled
  <2>1. /\ index' \in Pages /\ index' # index /\ offset' = 0 /\ pageSignal[index']
        /\ \A p \in Pages : pageSignal'[p] <=> (pageSignal[p] \/ p = index) /\ p # index'
    BY <1>8, NewQueuedStalled DEF Control
  <2>2. \A p \in Pages : InE(p)' <=> InE(p)
    BY <1>3 DEF InE, Pending
  <2>3. OneOwner'
    BY <1>3, <1>5, <2>1, <2>2 DEF Ring, OneOwner
  <2>4. EventsApart'
    BY <1>3 DEF Ring, EventsApart, Pending
  <2>5. ~Executing' /\ Written'
    BY <1>1, <1>3, <1>6 DEF Ring, Written, CellAt, Executing
  <2>6. fe = Stopped /\ executed = issued /\ \A p \in Pages : \A o \in Offsets : ~Pending(p, o)
    BY <1>1, NotRunning
  <2>7. executed \in Nat /\ issued \in Nat
    BY DEF Control, QTypes
  <2>8. Chain(W)'
    BY <1>1, <1>3, <2>6, <2>7 DEF Ring, Chain, Pending
  <2>9. FEAt(W)' /\ Quiet'
    BY <1>1, <1>3, <1>6, <2>6 DEF FEAt, Quiet
  <2>. QED
    BY <1>5, <2>3, <2>4, <2>5, <2>8, <2>9 DEF Ring
<1>. QED
  BY <1>4, <1>7, <1>8

-----------------------------------------------------------------------------
(* Commands are written behind everything that is linked.                  *)

NewCommand == KernelCommand(command, issued + 1, batch)

WriteVars == <<index, offset, pageSignal, waitPos, running, list, command, batch, raised, fe, executed, issued>>

\* Only the page's rest is written to, with a WAIT or the new command.
WritesBehind ==
    /\ \A p \in Pages : \A o \in Offsets : p # index \/ o < offset => mem'[p][o] = mem[p][o]
    /\ \A o \in Offsets : o >= offset =>
        mem'[index][o] = mem[index][o] \/ mem'[index][o] = Wait
        \/ (o = offset /\ mem'[index][o] = NewCommand)

\* What is linked stays as it is.
LEMMA WriteBehind ==
    ASSUME NEW W \in [Nat -> PagePlaces], Control, Ring(W), running, index \in Pages, ~Executing,
           UNCHANGED WriteVars, WritesBehind
    PROVE  /\ \A p \in Pages : \A o \in Offsets : Pending(p, o) => p # index \/ o < offset
           /\ \A p \in Pages : \A o \in Offsets : Pending(p, o) => mem[p][o].item <= issued
           /\ \A p \in Pages : \A o \in Offsets : Pending(p, o)' =>
                \/ Pending(p, o) /\ mem'[p][o] = mem[p][o]
                \/ p = index /\ o = offset /\ mem'[p][o] = NewCommand
           /\ \A k \in executed .. issued : CellAt(W[k])' = CellAt(W[k])
           /\ \A k \in executed + 1 .. issued : BufferLink(W, k)' \/ CommandLink(W, k)'
           /\ CellAt(waitPos)' = CellAt(waitPos)
           /\ (pc[Power] = "stopping" => pc'[Power] = "stopping") => FEAt(W)'
<1>1. executed \in Nat /\ issued \in Nat /\ executed <= issued /\ offset \in Nat
  BY DEF Control, QTypes, Ring, Chain
<1>2. \A k \in executed .. issued :
        /\ k \in Nat /\ W[k].page \in Pages /\ W[k].off \in Offsets /\ W[k].off \in Nat
        /\ W[k].page = index => W[k].off < offset
  BY <1>1, Place DEF Ring, Chain
<1>3. \A k \in executed .. issued : CellAt(W[k])' = CellAt(W[k])
  BY <1>2 DEF CellAt, WritesBehind
<1>4. CellAt(waitPos)' = CellAt(waitPos)
  <2>1. waitPos = W[issued] /\ issued \in executed .. issued
    BY <1>1 DEF Ring, Chain
  <2>. QED
    BY <1>3, <2>1 DEF WriteVars
<1>5. ASSUME NEW p \in Pages, NEW o \in Offsets, Pending(p, o)
      PROVE  /\ p # index \/ o < offset
             /\ mem[p][o].item <= issued
             /\ mem'[p][o] = mem[p][o]
  <2>1. mem[p][o].item \in Nat /\ mem[p][o].item > executed
    BY <1>5 DEF Ring, Written, Pending
  <2>2. Placed(W, p, o)
    BY <1>5 DEF Ring, Chain
  <2>3. mem[p][o].item <= issued /\ W[mem[p][o].item].page = p /\ W[mem[p][o].item].off = o + 1
    BY <2>2 DEF Placed
  <2>4. mem[p][o].item \in executed .. issued
    BY <1>1, <2>1, <2>3
  <2>5. o \in Nat
    BY SizesAssumption DEF Offsets
  <2>6. p # index \/ o < offset
    BY <1>1, <1>2, <2>3, <2>4, <2>5
  <2>. QED
    BY <2>3, <2>6 DEF WritesBehind
<1>6. Wait.op = "wait" /\ "wait" \notin KernelCommands
  BY DEF Wait, KernelCommands
<1>7. ASSUME NEW p \in Pages, NEW o \in Offsets, Pending(p, o)'
      PROVE  \/ Pending(p, o) /\ mem'[p][o] = mem[p][o]
             \/ p = index /\ o = offset /\ mem'[p][o] = NewCommand
  <2>1. CASE mem'[p][o] = mem[p][o]
    BY <1>7, <2>1 DEF Pending, WriteVars
  <2>2. CASE mem'[p][o] = Wait
    BY <1>6, <1>7, <2>2 DEF Pending
  <2>3. o \in Nat
    BY SizesAssumption DEF Offsets
  <2>. QED
    BY <1>1, <2>1, <2>2, <2>3 DEF WritesBehind
<1>8. ASSUME NEW p \in Pages, NEW o \in Offsets, NEW k \in executed + 1 .. issued
      PROVE  Kernel(p, o, k)' <=> Kernel(p, o, k)
  <2>1. k > executed /\ k <= issued /\ k \in Int
    BY <1>1
  <2>2. ASSUME Kernel(p, o, k)
        PROVE  Kernel(p, o, k)'
    <3>1. Pending(p, o)
      BY <2>1, <2>2 DEF Kernel, Pending
    <3>. QED
      BY <1>5, <2>2, <3>1 DEF Kernel
  <2>3. ASSUME Kernel(p, o, k)'
        PROVE  Kernel(p, o, k)
    <3>1. Pending(p, o)'
      BY <2>1, <2>3 DEF Kernel, Pending, WriteVars
    <3>2. mem'[p][o] # NewCommand
      BY <1>1, <2>1, <2>3 DEF Kernel, NewCommand, KernelCommand
    <3>. QED
      BY <1>7, <2>3, <3>1, <3>2 DEF Kernel
  <2>. QED
    BY <2>2, <2>3
<1>9. ASSUME NEW k \in executed + 1 .. issued
      PROVE  BufferLink(W, k)' \/ CommandLink(W, k)'
  <2>1. k - 1 \in executed .. issued /\ k \in Nat
    BY <1>1
  <2>2. CellAt(W[k - 1])' = CellAt(W[k - 1])
    BY <1>3, <2>1
  <2>3. BufferLink(W, k) \/ CommandLink(W, k)
    BY DEF Ring, Chain
  <2>4. CASE BufferLink(W, k)
    BY <1>8, <2>2, <2>4 DEF BufferLink
  <2>5. CASE CommandLink(W, k)
    <3>1. W[k].page \in Pages /\ W[k].off - 1 \in Offsets
      BY <2>1, <2>5, Place DEF CommandLink
    <3>2. Kernel(W[k].page, W[k].off - 1, k)'
      BY <1>8, <2>5, <3>1 DEF CommandLink
    <3>. QED
      BY <2>2, <2>5, <3>2 DEF CommandLink
  <2>. QED
    BY <2>3, <2>4, <2>5
<1>10. ASSUME pc[Power] = "stopping" => pc'[Power] = "stopping"
       PROVE  FEAt(W)'
  <2>1. CASE AtWait(W)
    BY <2>1 DEF AtWait, FEAt, WriteVars
  <2>2. CASE AtPause(W)
    BY <2>2 DEF AtPause, FEAt, WriteVars
  <2>3. CASE fe = Stopped /\ executed = issued /\ pc[Power] = "stopping"
    BY <1>10, <2>3 DEF FEAt, WriteVars
  <2>4. CASE AtCommand(W)
    <3>1. executed + 1 \in executed + 1 .. issued /\ executed + 1 \in Nat
      BY <1>1, <2>4 DEF AtCommand
    <3>2. fe.page \in Pages /\ fe.off \in Offsets
      BY <2>4, <3>1, Place DEF AtCommand
    <3>3. Kernel(fe.page, fe.off, executed + 1)'
      BY <1>8, <2>4, <3>1, <3>2 DEF AtCommand, WriteVars
    <3>. QED
      BY <2>4, <3>3 DEF AtCommand, FEAt, WriteVars
  <2>5. CASE InItsBuffer(W)
    <3>1. executed + 1 \in executed + 1 .. issued
      BY <1>1, <2>5 DEF InItsBuffer
    <3>2. \A p \in Pages : \A o \in Offsets : ~Kernel(p, o, executed + 1)'
      <4>1. PICK k \in executed + 1 .. issued : k = executed + 1 /\ k = executed' + 1
        BY <3>1 DEF WriteVars
      <4>2. \A p \in Pages : \A o \in Offsets : ~Kernel(p, o, k)
        BY <2>5, <4>1 DEF InItsBuffer
      <4>3. \A p \in Pages : \A o \in Offsets : ~Kernel(p, o, k)'
        BY <1>8, <4>2
      <4>. QED
        BY <4>1, <4>3 DEF Kernel
    <3>. QED
      BY <2>5, <3>2 DEF InItsBuffer, FEAt, WriteVars
  <2>. QED
    BY <2>1, <2>2, <2>3, <2>4, <2>5 DEF Ring, FEAt
<1>. QED
  BY <1>3, <1>4, <1>5, <1>7, <1>9, <1>10

\* A commit writes its WAIT/LINK.
LEMMA CommitWriteRing ==
    ASSUME NEW W \in [Nat -> PagePlaces], Control, Ring(W), NEW t \in Threads, CommitWrite(t)
    PROVE  Ring(W)'
<1>1. t \in Actors /\ pc[t] = "write" /\ Goto(t, "link")
  BY DEF CommitWrite, Actors
<1>2. /\ \A b \in Actors : pc[b] \in InQueue => b = t
      /\ index \in Pages /\ running /\ pc[Power] = "on"
  BY <1>1, InQueueAlone, ActorsAssumption DEF InQueue
<1>3. offset \in Offsets /\ offset \in Nat
  BY <1>1, SizesAssumption DEF Control, QTypes, Shape, Offsets
<1>4. \A b \in Actors : pc'[b] = IF b = t THEN "link" ELSE pc[b]
  BY <1>1, Went DEF Control, QTypes, PCs
<1>5. ~Executing /\ ~Executing' /\ Power \in Actors /\ pc'[Power] = pc[Power]
  BY <1>1, <1>2, <1>4, ActorsAssumption DEF Executing, InQueue, Actors
<1>6. UNCHANGED WriteVars
  BY DEF CommitWrite, WriteVars, eventVars, gpuVars
<1>7. \A p \in Pages : \A o \in Offsets :
        mem'[p][o] = IF p = index /\ o = offset THEN Wait ELSE mem[p][o]
  BY <1>2, <1>3 DEF CommitWrite, Control, QTypes, Shaped
<1>8. WritesBehind
  <2>1. \A o \in Offsets : o \in Nat
    BY SizesAssumption DEF Offsets
  <2>2. \A o \in Offsets : mem'[index][o] = IF o = offset THEN Wait ELSE mem[index][o]
    BY <1>2, <1>7
  <2>3. \A p \in Pages : \A o \in Offsets : p # index \/ o < offset => mem'[p][o] = mem[p][o]
    <3>1. \A o \in Offsets : o < offset => o # offset
      BY <1>3, <2>1
    <3>. QED
      BY <1>7, <3>1
  <2>. QED
    BY <1>3, <2>1, <2>2, <2>3 DEF WritesBehind
<1>9. /\ \A p \in Pages : \A o \in Offsets : Pending(p, o) => p # index \/ o < offset
      /\ \A k \in executed + 1 .. issued : BufferLink(W, k)' \/ CommandLink(W, k)'
      /\ CellAt(waitPos)' = CellAt(waitPos)
      /\ FEAt(W)'
  BY <1>2, <1>5, <1>6, <1>8, WriteBehind DEF Ring
<1>10. \A p \in Pages : \A o \in Offsets :
         /\ Pending(p, o)' <=> Pending(p, o)
         /\ Pending(p, o) => mem'[p][o] = mem[p][o]
  <2>1. Wait.op \notin KernelCommands
    BY DEF Wait, KernelCommands
  <2>2. \A p \in Pages : \A o \in Offsets :
          mem'[p][o] = mem[p][o] \/ (p = index /\ o = offset /\ mem'[p][o] = Wait)
    BY <1>7
  <2>3. ASSUME NEW p \in Pages, NEW o \in Offsets, Pending(p, o)
        PROVE  mem'[p][o] = mem[p][o]
    BY <1>3, <1>9, <2>2, <2>3
  <2>4. ASSUME NEW p \in Pages, NEW o \in Offsets, Pending(p, o)'
        PROVE  mem'[p][o] = mem[p][o]
    BY <2>1, <2>2, <2>4 DEF Pending
  <2>. QED
    BY <1>6, <2>3, <2>4 DEF Pending, WriteVars
<1>11. OneOwner' /\ ListApart'
  <2>1. \A p \in Pages : InE(p)' <=> InE(p)
    BY <1>6, <1>10 DEF InE, WriteVars
  <2>2. \A p \in Pages : OnL(p)' <=> OnL(p)
    BY <1>6 DEF OnL, WriteVars
  <2>. QED
    BY <1>6, <2>1, <2>2 DEF Ring, OneOwner, ListApart, WriteVars
<1>12. EventsApart'
  BY <1>6, <1>10, EventsStay DEF Ring, WriteVars
<1>13. Written'
  <2>1. \A p \in Pages : \A o \in Offsets : mem'[p][o] = mem[p][o] \/ mem'[p][o] = Wait
    BY <1>7
  <2>2. Wait.op \notin KernelCommands
    BY DEF Wait, KernelCommands
  <2>3. \A p \in Pages : \A o \in Offsets : mem'[p][o].op \in KernelCommands =>
          /\ mem'[p][o].item \in Nat /\ mem'[p][o].pages \subseteq Pages
          /\ mem'[p][o].op # "event" => mem'[p][o].pages = {}
    BY <2>1, <2>2 DEF Ring, Written
  <2>4. mem'[index'][offset'] = Wait
    BY <1>2, <1>3, <1>6, <1>7 DEF WriteVars
  <2>. QED
    BY <1>5, <1>6, <1>9, <2>3, <2>4 DEF Ring, Written, WriteVars
<1>14. Chain(W)'
  <2>1. \A p \in Pages : \A o \in Offsets : Pending(p, o)' => Placed(W, p, o)'
    BY <1>5, <1>6, <1>10 DEF Ring, Chain, Placed, WriteVars
  <2>. QED
    BY <1>6, <1>9, <2>1 DEF Ring, Chain, WriteVars
<1>15. Quiet'
  BY <1>2, <1>5, <1>6 DEF Ring, Quiet, WriteVars
<1>. QED
  BY <1>9, <1>11, <1>12, <1>13, <1>14, <1>15 DEF Ring

\* A submission or a flush writes its command, with the batch's signals, and the
\* WAIT/LINK behind it.
LEMMA FillRing ==
    ASSUME NEW W \in [Nat -> PagePlaces], Control, Ring(W), NEW a \in Actors, Fill(a)
    PROVE  Ring(W)'
<1>1. pc[a] = "fill" /\ Goto(a, "execute")
  BY DEF Fill
<1>2. /\ \A b \in Actors : pc[b] \in InQueue => b = a
      /\ index \in Pages /\ running /\ pc[Power] \notin {"stop", "stopping"}
  BY <1>1, InQueueAlone DEF InQueue
<1>3. offset \in Offsets /\ offset \in Nat /\ offset + 1 \in Offsets
  BY <1>1, SizesAssumption DEF Control, QTypes, Shape, Offsets
<1>4. \A b \in Actors : pc'[b] = IF b = a THEN "execute" ELSE pc[b]
  BY <1>1, Went DEF Control, QTypes, PCs
<1>5. /\ ~Executing /\ Executing' /\ Power \in Actors /\ pc'[Power] \notin {"stop", "stopping"}
      /\ \A b \in Actors : pc'[b] # "link"
  BY <1>1, <1>2, <1>4 DEF Executing, InQueue, Actors
<1>6. UNCHANGED WriteVars
  BY DEF Fill, WriteVars, eventVars, gpuVars
<1>7. \A p \in Pages : \A o \in Offsets :
        mem'[p][o] = IF p = index /\ o = offset THEN NewCommand
                     ELSE IF p = index /\ o = offset + 1 THEN Wait ELSE mem[p][o]
  <2>1. PutsTwo(mem, mem', index, offset, NewCommand, Wait) /\ Shaped(mem)
    BY DEF Fill, NewCommand, Control, QTypes, PutsTwo
  <2>2. index \in Pages
    BY <1>2
  <2>3. PICK q \in Pages, k \in Offsets : q = index /\ k = offset
    BY <1>3, <2>2
  <2>4. PICK x : x = NewCommand
    OBVIOUS
  <2>5. PutsTwo(mem, mem', q, k, x, Wait) /\ k + 1 \in Offsets
    BY <1>3, <2>1, <2>3, <2>4
  <2>6. /\ Shaped(mem')
        /\ \A p \in Pages : \A o \in Offsets :
             mem'[p][o] = IF p = q /\ o = k THEN x
                          ELSE IF p = q /\ o = k + 1 THEN Wait ELSE mem[p][o]
    BY <2>1, <2>5, PutTwo
  <2>. QED
    BY <2>3, <2>6, <2>4
<1>8. WritesBehind
  <2>1. \A o \in Offsets : o \in Nat
    BY SizesAssumption DEF Offsets
  <2>2. \A o \in Offsets : mem'[index][o] = IF o = offset THEN NewCommand
                                            ELSE IF o = offset + 1 THEN Wait ELSE mem[index][o]
    BY <1>2, <1>7
  <2>3. \A p \in Pages : \A o \in Offsets : p # index \/ o < offset => mem'[p][o] = mem[p][o]
    BY <1>3, <1>7, <2>1
  <2>. QED
    BY <1>3, <2>1, <2>2, <2>3 DEF WritesBehind
<1>9. /\ \A p \in Pages : \A o \in Offsets : Pending(p, o) =>
            (p # index \/ o < offset) /\ mem[p][o].item <= issued
      /\ \A k \in executed + 1 .. issued : BufferLink(W, k)' \/ CommandLink(W, k)'
      /\ CellAt(waitPos)' = CellAt(waitPos)
      /\ FEAt(W)'
  BY <1>2, <1>5, <1>6, <1>8, WriteBehind DEF Ring
<1>10. \A p \in Pages : \A o \in Offsets : Pending(p, o)' =>
         \/ Pending(p, o) /\ mem'[p][o] = mem[p][o]
         \/ p = index /\ o = offset /\ mem'[p][o] = NewCommand
  BY <1>2, <1>5, <1>6, <1>8, WriteBehind DEF Ring
<1>11. \A p \in Pages : \A o \in Offsets : Pending(p, o) => Pending(p, o)' /\ mem'[p][o] = mem[p][o]
  BY <1>6, <1>8, <1>9 DEF WritesBehind, Pending, WriteVars
<1>12. NewCommand.item = issued + 1 /\ NewCommand.pages = batch /\ NewCommand.op = command
  BY DEF NewCommand, KernelCommand
<1>13. \A p \in Pages : InE(p)' <=> InE(p)
  <2>1. ASSUME NEW p \in Pages, InE(p)
        PROVE  InE(p)'
    BY <1>6, <1>11, <2>1 DEF InE, WriteVars
  <2>2. ASSUME NEW p \in Pages, InE(p)'
        PROVE  InE(p)
    BY <1>6, <1>10, <1>12, <2>2 DEF InE, WriteVars
  <2>. QED
    BY <2>1, <2>2
<1>14. OneOwner' /\ ListApart'
  <2>1. \A p \in Pages : OnL(p)' <=> OnL(p)
    BY <1>6 DEF OnL, WriteVars
  <2>. QED
    BY <1>6, <1>13, <2>1 DEF Ring, OneOwner, ListApart, WriteVars
<1>15. issued \in Nat /\ \A p \in Pages : \A o \in Offsets : Pending(p, o) => mem[p][o].item \in Nat
  BY DEF Ring, Written, Pending, Control, QTypes
<1>16. EventsApart'
  <2>1. \A p, r \in Pages : \A o \in Offsets :
          Pending(p, o)' /\ mem'[p][o].item <= issued' /\ r \in mem'[p][o].pages => r \notin batch'
    BY <1>6, <1>10, <1>12, <1>15 DEF Ring, EventsApart, WriteVars
  <2>2. ASSUME NEW p \in Pages, NEW q \in Pages, NEW r \in Pages, NEW o \in Offsets, NEW k \in Offsets,
               Pending(p, o)', Pending(q, k)', r \in mem'[p][o].pages, r \in mem'[q][k].pages
        PROVE  mem'[p][o].item = mem'[q][k].item
    <3>1. CASE Pending(p, o) /\ mem'[p][o] = mem[p][o]
      <4>1. r \notin batch
        BY <1>9, <2>2, <3>1 DEF Ring, EventsApart
      <4>2. Pending(q, k) /\ mem'[q][k] = mem[q][k]
        BY <1>10, <1>12, <2>2, <4>1
      <4>. QED
        BY <2>2, <3>1, <4>2 DEF Ring, EventsApart
    <3>2. CASE mem'[p][o] = NewCommand
      <4>1. r \in batch
        BY <1>12, <2>2, <3>2
      <4>2. ~(Pending(q, k) /\ mem'[q][k] = mem[q][k])
        BY <1>9, <2>2, <4>1 DEF Ring, EventsApart
      <4>. QED
        BY <1>10, <2>2, <3>2, <4>2
    <3>. QED
      BY <1>10, <2>2, <3>1, <3>2
  <2>. QED
    BY <2>1, <2>2 DEF EventsApart
<1>17. Written'
  <2>1. Wait.op \notin KernelCommands
    BY DEF Wait, KernelCommands
  <2>2. batch # {} => command = "event"
    BY DEF Control, Shape
  <2>3. issued + 1 \in Nat /\ batch \subseteq Pages
    BY DEF Control, QTypes
  <2>4. \A p \in Pages : \A o \in Offsets :
          mem'[p][o] = mem[p][o] \/ mem'[p][o] = Wait \/ mem'[p][o] = NewCommand
    BY <1>7
  <2>5. \A p \in Pages : \A o \in Offsets : mem'[p][o].op \in KernelCommands =>
          /\ mem'[p][o].item \in Nat /\ mem'[p][o].pages \subseteq Pages
          /\ mem'[p][o].op # "event" => mem'[p][o].pages = {}
    BY <1>12, <2>1, <2>2, <2>3, <2>4 DEF Ring, Written
  <2>6. mem'[index][offset] = NewCommand /\ mem'[index][offset + 1] = Wait
    BY <1>2, <1>3, <1>7
  <2>. QED
    BY <1>2, <1>5, <1>6, <1>9, <2>5, <2>6 DEF Ring, Written, WriteVars, NewCommand
<1>18. Chain(W)'
  <2>1. ASSUME NEW p \in Pages, NEW o \in Offsets, Pending(p, o)'
        PROVE  Placed(W, p, o)'
    <3>1. CASE Pending(p, o) /\ mem'[p][o] = mem[p][o]
      BY <1>5, <1>6, <3>1 DEF Ring, Chain, Placed, WriteVars
    <3>2. CASE p = index /\ o = offset /\ mem'[p][o] = NewCommand
      BY <1>5, <1>6, <1>12, <3>2 DEF Placed, WriteVars
    <3>. QED
      BY <1>10, <2>1, <3>1, <3>2
  <2>. QED
    BY <1>6, <1>9, <2>1 DEF Ring, Chain, WriteVars
<1>19. Quiet'
  BY <1>2, <1>5, <1>6 DEF Ring, Quiet, WriteVars
<1>. QED
  BY <1>9, <1>14, <1>16, <1>17, <1>18, <1>19 DEF Ring

-----------------------------------------------------------------------------
(* The last WAIT becomes a LINK to what was written.                       *)

\* What is common to the LINK of a commit's buffer and that of a command: the
\* chain is extended by the WAIT behind it.
LEMMA LinkRing ==
    ASSUME NEW W \in [Nat -> PagePlaces], Control, Ring(W), NEW a \in Actors, NEW to, NEW size \in {1, 2},
           LinkTo(to, size),
           \/ /\ pc[a] = "link" /\ size = 1
              /\ \E c \in Contexts \cup {NoContext}, l \in BOOLEAN :
                    to = InBuffer(issued + 1, c, l, At(index, offset))
           \/ pc[a] = "execute" /\ size = 2 /\ to = At(index, offset),
           NEW x \in PCs, x \notin {"link", "execute", "stop", "stopping"}, Goto(a, x), batch' = {},
           UNCHANGED <<index, pageSignal, running, list, raised, fe, executed>>
    PROVE  \E V \in [Nat -> PagePlaces] : Ring(V)'
<1>1. /\ \A b \in Actors : pc[b] \in InQueue => b = a
      /\ index \in Pages /\ running /\ pc[Power] \notin {"stop", "stopping"}
  BY InQueueAlone DEF InQueue
<1>2. offset \in Nat /\ offset \in Offsets /\ offset + size <= PageSize
  BY SizesAssumption DEF Control, QTypes, Shape, Offsets
<1>3. /\ waitPos' \in PagePlaces /\ waitPos'.page = index /\ waitPos'.off = offset + size - 1
      /\ offset' = offset + size
      /\ \A p \in Pages : \A o \in Offsets :
           mem'[p][o] = IF p = waitPos.page /\ o = waitPos.off THEN Link(to) ELSE mem[p][o]
  <2>1. QTypes
    BY DEF Control
  <2>2. waitPos' \in PagePlaces /\ waitPos'.page = index /\ waitPos'.off = offset + size - 1
        /\ offset' = offset + size
    BY <1>1, <1>2, <2>1, Linked
  <2>3. \A p \in Pages : \A o \in Offsets :
          mem'[p][o] = IF p = waitPos.page /\ o = waitPos.off THEN Link(to) ELSE mem[p][o]
    BY <1>1, <1>2, <2>1, LinkedCells
  <2>. QED
    BY <2>2, <2>3
<1>4. issued' = issued + 1 /\ issued \in Nat /\ executed \in Nat /\ executed <= issued
  BY DEF LinkTo, Control, QTypes, Ring, Chain
<1>5. \A b \in Actors : pc'[b] = IF b = a THEN x ELSE pc[b]
  BY Went DEF Control, QTypes
<1>6. /\ \A b \in Actors : pc'[b] \notin {"link", "execute"}
      /\ ~Executing' /\ Power \in Actors /\ pc'[Power] \notin {"stop", "stopping"}
  BY <1>1, <1>5 DEF InQueue, Executing, Actors
<1>7. mem[waitPos.page][waitPos.off] = Wait /\ waitPos \in PagePlaces
  BY <1>1 DEF Ring, Written, CellAt, Control, QTypes
<1>8. Wait.op \notin KernelCommands /\ Link(to).op \notin KernelCommands /\ Wait.op # "link"
  BY DEF Wait, Link, KernelCommands
<1>9. \A p \in Pages : \A o \in Offsets :
        /\ mem'[p][o].op \in KernelCommands <=> mem[p][o].op \in KernelCommands
        /\ mem[p][o].op \in KernelCommands \cup {"link"} => mem'[p][o] = mem[p][o]
  BY <1>3, <1>7, <1>8
<1>10. \A p \in Pages : \A o \in Offsets :
         /\ Pending(p, o)' <=> Pending(p, o)
         /\ Pending(p, o) => mem'[p][o] = mem[p][o]
  BY <1>9 DEF Pending
<1>11. \A p \in Pages : \A o \in Offsets : \A k : Kernel(p, o, k)' <=> Kernel(p, o, k)
  BY <1>9 DEF Kernel
<1>12. PICK V \in [Nat -> PagePlaces] : V = [W EXCEPT ![issued + 1] = waitPos']
  BY <1>3, <1>4
<1>13. /\ \A k \in Nat : k <= issued => V[k] = W[k]
       /\ V[issued + 1] = waitPos'
  BY <1>4, <1>12
<1>14. W[issued] = waitPos
  BY <1>1 DEF Ring, Chain
<1>15. /\ ~pageSignal[index] /\ index \notin raised /\ ~InE(index)
  BY <1>1 DEF Ring, OneOwner
<1>16. \/ /\ pc[a] = "link" /\ size = 1 /\ ~Executing /\ batch = {}
          /\ mem[index][offset] = Wait
       \/ /\ pc[a] = "execute" /\ size = 2 /\ Executing
          /\ mem[index][offset] = NewCommand /\ mem[index][offset + 1] = Wait
  <2>1. CASE pc[a] = "link" /\ size = 1
    <3>1. ~Executing
      BY <1>1, <2>1 DEF Executing, InQueue
    <3>2. batch = {}
      BY <1>1, <2>1 DEF Control, Shape, InQueue
    <3>. QED
      BY <2>1, <3>1, <3>2 DEF Ring, Written
  <2>2. CASE pc[a] = "execute" /\ size = 2
    BY <2>2 DEF Executing, Ring, Written, NewCommand
  <2>. QED
    BY <2>1, <2>2
<1>17. NewCommand.item = issued + 1 /\ NewCommand.pages = batch /\ NewCommand.op = command
  BY DEF NewCommand, KernelCommand
<1>18. command \in KernelCommands /\ (batch # {} => command = "event")
  BY DEF Control, QTypes, Shape
<1>19. \A p \in Pages : InE(p)' <=> InE(p)
  <2>1. ASSUME NEW p \in Pages, InE(p)'
        PROVE  InE(p)
    BY <1>10, <2>1 DEF InE
  <2>2. ASSUME NEW p \in Pages, \E q \in Pages, o \in Offsets : Pending(q, o) /\ p \in mem[q][o].pages
        PROVE  InE(p)'
    BY <1>10, <2>2 DEF InE
  <2>3. ASSUME NEW p \in Pages, p \in batch
        PROVE  InE(p)'
    <3>1. Pending(index, offset) /\ p \in mem[index][offset].pages
      BY <1>4, <1>16, <1>17, <1>18, <2>3 DEF Pending
    <3>. QED
      BY <1>1, <1>2, <2>2, <3>1
  <2>. QED
    BY <2>1, <2>2, <2>3 DEF InE
<1>20. OneOwner' /\ ListApart'
  <2>1. \A p \in Pages : OnL(p)' <=> OnL(p)
    BY DEF OnL
  <2>. QED
    BY <1>19, <2>1 DEF Ring, OneOwner, ListApart
<1>21. EventsApart'
  BY <1>10 DEF Ring, EventsApart
<1>22. waitPos'.page = index /\ waitPos'.off \in Offsets /\ mem'[index][waitPos'.off] = Wait
  <2>1. waitPos.page = index => waitPos.off < offset
    BY <1>1, <1>4, <1>14 DEF Ring, Chain
  <2>2. waitPos'.off \in Offsets /\ mem[index][waitPos'.off] = Wait /\ waitPos'.off >= offset
    <3>1. waitPos'.off \in Offsets
      BY <1>3, Place
    <3>2. waitPos'.off = IF size = 1 THEN offset ELSE offset + 1
      BY <1>2, <1>3
    <3>. QED
      BY <1>2, <1>16, <3>1, <3>2
  <2>3. waitPos.off \in Nat /\ waitPos'.off \in Nat
    BY <1>3, <1>7, Place
  <2>4. ~(waitPos.page = index /\ waitPos.off = waitPos'.off)
    BY <1>2, <2>1, <2>2, <2>3
  <2>. QED
    BY <1>1, <1>3, <2>2, <2>4
<1>23. Written'
  <2>1. \A p \in Pages : \A o \in Offsets : mem'[p][o].op \in KernelCommands =>
          /\ mem'[p][o].item \in Nat /\ mem'[p][o].pages \subseteq Pages
          /\ mem'[p][o].op # "event" => mem'[p][o].pages = {}
    BY <1>9 DEF Ring, Written
  <2>. QED
    BY <1>6, <1>22, <2>1 DEF Written, CellAt
<1>24. ASSUME NEW k \in executed + 1 .. issued
       PROVE  BufferLink(V, k)' \/ CommandLink(V, k)'
  <2>1. k - 1 \in Nat /\ k \in Nat /\ k - 1 <= issued /\ k <= issued
    BY <1>4
  <2>2. V[k - 1] = W[k - 1] /\ V[k] = W[k]
    BY <1>13, <2>1
  <2>3. BufferLink(W, k) \/ CommandLink(W, k)
    BY DEF Ring, Chain
  <2>4. CellAt(W[k - 1]).op = "link"
    <3>1. \A z : Link(z).op = "link"
      BY DEF Link
    <3>. QED
      BY <2>3, <3>1 DEF BufferLink, CommandLink
  <2>5. CellAt(W[k - 1])' = CellAt(W[k - 1])
    <3>1. W[k - 1].page \in Pages /\ W[k - 1].off \in Offsets
      BY <2>1, Place
    <3>. QED
      BY <1>9, <2>4, <3>1 DEF CellAt
  <2>6. CASE BufferLink(W, k)
    BY <1>11, <2>2, <2>5, <2>6 DEF BufferLink
  <2>7. CASE CommandLink(W, k)
    <3>1. W[k].page \in Pages /\ W[k].off - 1 \in Offsets
      BY <2>1, <2>7, Place DEF CommandLink
    <3>. QED
      BY <1>11, <2>2, <2>5, <2>7, <3>1 DEF CommandLink
  <2>. QED
    BY <2>3, <2>6, <2>7
<1>25. PICK k \in Nat : k = issued + 1 /\ k - 1 = issued
  BY <1>4
<1>26. BufferLink(V, k)' \/ CommandLink(V, k)'
  <2>1. k = issued + 1 /\ k - 1 = issued
    BY <1>25
  <2>2. V[k - 1] = waitPos /\ V[k] = waitPos'
    BY <1>4, <1>13, <1>14, <2>1
  <2>3. CellAt(V[k - 1])' = Link(to)
    BY <1>3, <1>7, <2>2, Place DEF CellAt
  <2>4. CASE pc[a] = "link"
    <3>1. waitPos' = At(index, offset)
      BY <1>2, <1>3, <1>16, <2>4, Place
    <3>2. ASSUME NEW p \in Pages, NEW o \in Offsets, Kernel(p, o, k)
          PROVE  FALSE
      <4>1. Pending(p, o) /\ mem[p][o].item = issued + 1
        BY <1>4, <2>1, <3>2 DEF Kernel, Pending
      <4>2. Placed(W, p, o) /\ ~Executing
        BY <1>16, <2>4, <4>1 DEF Ring, Chain
      <4>. QED
        BY <1>4, <4>1, <4>2 DEF Placed
    <3>3. \E c \in Contexts \cup {NoContext}, l \in BOOLEAN : to = InBuffer(k, c, l, V[k])
      BY <1>16, <2>1, <2>2, <2>4, <3>1
    <3>4. BufferLink(V, k)'
      BY <1>11, <2>3, <3>2, <3>3 DEF BufferLink
    <3>. QED
      BY <3>4
  <2>5. CASE pc[a] = "execute"
    <3>1. V[k].page = index /\ V[k].off = offset + 1 /\ V[k].off - 1 = offset /\ V[k].off > 0
      BY <1>2, <1>3, <1>16, <2>2, <2>5
    <3>2. to = Before(V[k])
      BY <1>16, <2>5, <3>1 DEF Before
    <3>3. Kernel(index, offset, k)
      BY <1>16, <1>17, <1>18, <2>1, <2>5 DEF Kernel
    <3>4. PICK p \in Pages, o \in Offsets : p = index /\ o = offset
      BY <1>1, <1>2
    <3>5. Kernel(V[k].page, V[k].off - 1, k)'
      <4>1. Kernel(p, o, k)'
        BY <1>11, <3>3, <3>4
      <4>. QED
        BY <3>1, <3>4, <4>1
    <3>6. CommandLink(V, k)'
      BY <2>3, <3>1, <3>2, <3>5 DEF CommandLink
    <3>. QED
      BY <3>6
  <2>. QED
    BY <1>16, <2>4, <2>5
<1>27. Chain(V)'
  <2>1. executed' <= issued' /\ V[issued'] = waitPos'
    BY <1>4, <1>13
  <2>2. ASSUME NEW i \in executed' + 1 .. issued'
        PROVE  BufferLink(V, i)' \/ CommandLink(V, i)'
    <3>1. i \in executed + 1 .. issued \/ i = k
      BY <1>4, <1>25
    <3>. QED
      BY <1>24, <1>26, <3>1
  <2>3. ASSUME NEW n \in executed' .. issued'
        PROVE  /\ V[n].page = index' => V[n].off < offset'
               /\ ~pageSignal'[V[n].page] /\ V[n].page \notin raised'
    <3>1. CASE n <= issued
      <4>1. n \in executed .. issued /\ n \in Nat /\ V[n] = W[n]
        BY <1>4, <1>13, <3>1
      <4>2. W[n].off \in Nat
        BY <4>1, Place
      <4>. QED
        BY <1>1, <1>2, <1>3, <4>1, <4>2 DEF Ring, Chain
    <3>2. CASE n = issued + 1
      BY <1>2, <1>3, <1>13, <1>15, <3>2
    <3>. QED
      BY <1>4, <3>1, <3>2
  <2>4. ASSUME NEW p \in Pages, NEW o \in Offsets, Pending(p, o)'
        PROVE  Placed(V, p, o)'
    <3>1. Pending(p, o) /\ mem'[p][o] = mem[p][o]
      BY <1>10, <2>4
    <3>2. Placed(W, p, o) /\ mem[p][o].item \in Nat /\ index \notin mem[p][o].pages
      BY <1>1, <1>15, <3>1 DEF Ring, Chain, Written, Pending, InE
    <3>3. CASE mem[p][o].item <= issued
      <4>1. /\ W[mem[p][o].item].page = p /\ W[mem[p][o].item].off = o + 1
            /\ \A n \in mem[p][o].item .. issued : W[n].page \notin mem[p][o].pages
        BY <1>4, <3>2, <3>3 DEF Placed
      <4>2. V[mem[p][o].item] = W[mem[p][o].item]
        BY <1>13, <3>2, <3>3
      <4>3. \A n \in mem[p][o].item .. issued' : V[n].page \notin mem[p][o].pages
        <5>1. \A n \in mem[p][o].item .. issued' :
                (n \in mem[p][o].item .. issued /\ n \in Nat /\ n <= issued) \/ n = issued + 1
          BY <1>4, <3>2
        <5>. QED
          BY <1>3, <1>13, <3>2, <4>1, <5>1
      <4>4. mem[p][o].item <= issued'
        BY <1>4, <3>2, <3>3
      <4>. QED
        BY <3>1, <4>1, <4>2, <4>3, <4>4 DEF Placed
    <3>4. CASE mem[p][o].item = issued + 1 /\ p = index /\ o = offset /\ Executing
      <4>1. V[issued + 1].page = p /\ V[issued + 1].off = o + 1
        BY <1>2, <1>3, <1>13, <1>16, <3>4
      <4>2. \A n \in issued + 1 .. issued' : V[n].page \notin mem[p][o].pages
        <5>1. \A n \in issued + 1 .. issued' : n = issued + 1
          BY <1>4
        <5>. QED
          BY <1>3, <1>13, <3>2, <5>1
      <4>. QED
        BY <1>4, <3>1, <3>4, <4>1, <4>2 DEF Placed
    <3>. QED
      BY <3>2, <3>3, <3>4 DEF Placed
  <2>. QED
    BY <2>1, <2>2, <2>3, <2>4 DEF Chain
<1>28. FEAt(V)'
  <2>1. V[executed] = W[executed] /\ (executed < issued => V[executed + 1] = W[executed + 1])
    BY <1>4, <1>13
  <2>2. CASE AtWait(W)
    BY <1>1, <2>1, <2>2 DEF AtWait, FEAt
  <2>3. CASE AtPause(W)
    BY <1>1, <2>1, <2>3 DEF AtPause, FEAt
  <2>4. CASE AtCommand(W)
    <3>1. executed + 1 \in Nat /\ executed < issued' /\ executed < issued
      BY <1>4, <2>4 DEF AtCommand
    <3>2. fe.page \in Pages /\ fe.off \in Offsets
      BY <2>4, <3>1, Place DEF AtCommand
    <3>3. PICK p \in Pages, o \in Offsets : p = fe.page /\ o = fe.off
      BY <3>2
    <3>4. Kernel(p, o, executed + 1)
      BY <2>4, <3>3 DEF AtCommand
    <3>5. Kernel(p, o, executed + 1)'
      BY <1>11, <3>4 DEF Kernel
    <3>6. Kernel(fe.page, fe.off, executed + 1)'
      BY <3>3, <3>5
    <3>. QED
      BY <1>1, <2>1, <2>4, <3>1, <3>6 DEF AtCommand, FEAt
  <2>5. CASE InItsBuffer(W)
    <3>1. executed < issued' /\ executed < issued
      BY <1>4, <2>5 DEF InItsBuffer
    <3>2. \A p \in Pages : \A o \in Offsets : ~Kernel(p, o, executed + 1)'
      BY <1>11, <2>5 DEF InItsBuffer, Kernel
    <3>. QED
      BY <1>1, <2>1, <2>5, <3>1, <3>2 DEF InItsBuffer, FEAt
  <2>. QED
    BY <1>1, <2>2, <2>3, <2>4, <2>5 DEF Ring, FEAt
<1>29. Quiet'
  BY <1>1, <1>6 DEF Quiet
<1>. QED
  BY <1>12, <1>20, <1>21, <1>23, <1>27, <1>28, <1>29 DEF Ring

\* The new page starts at its first unit: Entry is where the FE is to go on.
LEMMA EntryHere ==
    ASSUME Control
    PROVE  Entry = At(index, offset)
  BY DEF Control, Shape, Entry

\* A commit's buffer is linked.
LEMMA CommitLinkRing ==
    ASSUME NEW W \in [Nat -> PagePlaces], Control, Ring(W), NEW t \in Threads, CommitLink(t)
    PROVE  \E V \in [Nat -> PagePlaces] : Ring(V)'
<1>1. t \in Actors /\ pc[t] = "link"
  BY DEF CommitLink, Actors
<1>2. PICK x \in {"events", "enter"} : Goto(t, x)
  BY DEF CommitLink
<1>3. PICK to : to = InBuffer(issued + 1, ctx[t], loading, At(index, offset))
  OBVIOUS
<1>4. LinkTo(to, 1)
  BY <1>3, EntryHere DEF CommitLink
<1>5. ctx[t] \in Contexts \cup {NoContext} /\ loading \in BOOLEAN
  BY DEF Control, QTypes
<1>6. batch = {}
  BY <1>1, InQueueAlone DEF InQueue, Control, Shape
<1>7. batch' = {} /\ UNCHANGED <<index, pageSignal, running, list, raised, fe, executed>>
  BY <1>6 DEF CommitLink, eventVars, gpuVars
<1>8. x \in PCs /\ x \notin {"link", "execute", "stop", "stopping"}
  BY DEF PCs
<1>9. \E c \in Contexts \cup {NoContext}, l \in BOOLEAN :
        to = InBuffer(issued + 1, c, l, At(index, offset))
  BY <1>3, <1>5
<1>. QED
  BY <1>1, <1>2, <1>4, <1>7, <1>8, <1>9, LinkRing

\* A command is linked; its batch is in the page now.
LEMMA ExecuteRing ==
    ASSUME NEW W \in [Nat -> PagePlaces], Control, Ring(W), NEW a \in Actors, Execute(a)
    PROVE  \E V \in [Nat -> PagePlaces] : Ring(V)'
<1>1. pc[a] = "execute"
  BY DEF Execute
<1>2. PICK x \in {"loop", "space", "reserve"} : Goto(a, x)
  BY DEF Execute
<1>3. PICK to : to = At(index, offset)
  OBVIOUS
<1>4. LinkTo(to, 2)
  BY <1>3, EntryHere DEF Execute
<1>5. batch' = {} /\ UNCHANGED <<index, pageSignal, running, list, raised, fe, executed>>
  BY DEF Execute, gpuVars
<1>6. x \in PCs /\ x \notin {"link", "execute", "stop", "stopping"}
  BY DEF PCs
<1>. QED
  BY <1>1, <1>2, <1>3, <1>4, <1>5, <1>6, LinkRing

-----------------------------------------------------------------------------
(* Power management stops and starts the FE.                               *)

\* The END takes the place of the last WAIT, at which the FE spins.
LEMMA StopRing ==
    ASSUME NEW W \in [Nat -> PagePlaces], Control, Ring(W), Stop
    PROVE  Ring(W)'
<1>1. Power \in Actors /\ pc[Power] = "stop" /\ running /\ Goto(Power, "stopping")
  BY DEF Stop, Actors
<1>2. UNCHANGED <<index, offset, waitPos, running, pageSignal, list, command, batch, raised, fe, executed, issued>>
  BY DEF Stop, eventVars, gpuVars
<1>3. \A b \in Actors : pc'[b] = IF b = Power THEN "stopping" ELSE pc[b]
  BY <1>1, Went DEF Control, QTypes, PCs
<1>4. \A b \in Actors : pc[b] \notin InQueue
  BY <1>1, InQueueAlone
<1>5. /\ ~Executing /\ ~Executing'
      /\ \A b \in Actors : pc'[b] # "link"
  BY <1>3, <1>4 DEF Executing, InQueue
<1>6. \A p \in Pages : \A o \in Offsets :
        mem'[p][o] = IF p = waitPos.page /\ o = waitPos.off THEN End ELSE mem[p][o]
  BY StopControl
<1>7. mem[waitPos.page][waitPos.off] = Wait /\ waitPos \in PagePlaces
  BY <1>1 DEF Ring, Written, CellAt, Control, QTypes
<1>8. Wait.op \notin KernelCommands /\ End.op \notin KernelCommands
  BY DEF Wait, End, KernelCommands
<1>9. \A p \in Pages : \A o \in Offsets :
        /\ mem'[p][o].op \in KernelCommands <=> mem[p][o].op \in KernelCommands
        /\ mem[p][o].op \in KernelCommands => mem'[p][o] = mem[p][o]
  BY <1>6, <1>7, <1>8
<1>10. \A p \in Pages : \A o \in Offsets :
         /\ Pending(p, o)' <=> Pending(p, o)
         /\ Pending(p, o) => mem'[p][o] = mem[p][o]
  BY <1>2, <1>9 DEF Pending
<1>11. executed = issued /\ fe = waitPos /\ issued \in Nat
  BY <1>1 DEF Ring, Quiet, Control, QTypes
<1>12. OneOwner' /\ ListApart'
  <2>1. \A p \in Pages : InE(p)' <=> InE(p)
    BY <1>2, <1>10 DEF InE
  <2>2. \A p \in Pages : OnL(p)' <=> OnL(p)
    BY <1>2 DEF OnL
  <2>. QED
    BY <1>2, <2>1, <2>2 DEF Ring, OneOwner, ListApart
<1>13. EventsApart'
  BY <1>2, <1>10, EventsStay DEF Ring
<1>14. Written'
  <2>1. CellAt(waitPos)' = End
    BY <1>2, <1>6, <1>7, Place DEF CellAt
  <2>2. \A p \in Pages : \A o \in Offsets : mem'[p][o].op \in KernelCommands =>
          /\ mem'[p][o].item \in Nat /\ mem'[p][o].pages \subseteq Pages
          /\ mem'[p][o].op # "event" => mem'[p][o].pages = {}
    BY <1>9 DEF Ring, Written
  <2>. QED
    BY <1>1, <1>3, <1>5, <2>1, <2>2 DEF Written
<1>15. Chain(W)'
  <2>1. \A k \in executed' + 1 .. issued' : FALSE
    BY <1>2, <1>11
  <2>2. \A p \in Pages : \A o \in Offsets : Pending(p, o)' => Placed(W, p, o)'
    BY <1>2, <1>5, <1>10 DEF Ring, Chain, Placed
  <2>. QED
    BY <1>2, <2>1, <2>2 DEF Ring, Chain
<1>16. FEAt(W)' /\ Quiet'
  <2>1. AtWait(W)'
    BY <1>1, <1>2, <1>11 DEF Ring, Chain, AtWait
  <2>. QED
    BY <1>1, <1>2, <1>3, <1>11, <2>1 DEF FEAt, Quiet
<1>. QED
  BY <1>12, <1>13, <1>14, <1>15, <1>16 DEF Ring

\* The FE has executed the END.
LEMMA StoppingRing ==
    ASSUME NEW W \in [Nat -> PagePlaces], Control, Ring(W), Stopping
    PROVE  Ring(W)'
<1>1. Power \in Actors /\ pc[Power] = "stopping" /\ fe = Stopped /\ ~running' /\ Goto(Power, "off")
  BY DEF Stopping, Actors
<1>2. UNCHANGED <<mem, index, offset, waitPos, pageSignal, list, command, batch, raised, fe, executed, issued>>
  BY DEF Stopping, eventVars, gpuVars, queueVars
<1>3. \A b \in Actors : pc'[b] = IF b = Power THEN "off" ELSE pc[b]
  BY <1>1, Went DEF Control, QTypes, PCs
<1>4. \A b \in Actors : pc[b] \notin InQueue
  BY <1>1, InQueueAlone
<1>5. /\ ~Executing /\ ~Executing'
      /\ \A b \in Actors : pc'[b] # "link"
  BY <1>3, <1>4 DEF Executing, InQueue
<1>6. executed = issued
  BY <1>1 DEF Ring, Quiet
<1>7. OneOwner' /\ ListApart' /\ EventsApart'
  BY <1>2 DEF Ring, OneOwner, ListApart, EventsApart, InE, Pending, OnL
<1>8. Written'
  BY <1>1, <1>2, <1>5 DEF Ring, Written
<1>9. Chain(W)'
  BY <1>1, <1>2, <1>5
  DEF Ring, Chain, Placed, Pending, BufferLink, CommandLink, Kernel, CellAt
<1>10. FEAt(W)' /\ Quiet'
  BY <1>1, <1>2, <1>3, <1>6 DEF FEAt, Quiet
<1>. QED
  BY <1>7, <1>8, <1>9, <1>10 DEF Ring

\* The FE is let at a new WAIT, and the chain goes on from there.
LEMMA StartRing ==
    ASSUME NEW W \in [Nat -> PagePlaces], Control, Ring(W), Start
    PROVE  \E V \in [Nat -> PagePlaces] : Ring(V)'
<1>1. Power \in Actors /\ pc[Power] = "run" /\ running' = TRUE /\ Goto(Power, "on") /\ ~running
  BY DEF Start, Actors, Control, Locks
<1>2. /\ UNCHANGED <<index, pageSignal, list, command, batch, raised, executed, issued>>
      /\ offset' = offset + 1 /\ fe' = At(index, offset) /\ waitPos' = At(index, offset)
  BY DEF Start, eventVars
<1>3. \A b \in Actors : pc'[b] = IF b = Power THEN "on" ELSE pc[b]
  BY <1>1, Went DEF Control, QTypes, PCs
<1>4. /\ executed = issued /\ issued \in Nat /\ offset \in Nat
      /\ \A b \in Actors : pc[b] \notin InQueue
      /\ ~Executing /\ batch = {}
      /\ \A p \in Pages : \A o \in Offsets : ~Pending(p, o)
  BY <1>1, NotRunning DEF Control, QTypes
<1>5. /\ ~Executing' /\ \A b \in Actors : pc'[b] # "link"
  BY <1>3, <1>4 DEF Executing, InQueue
<1>6. /\ index \in Pages /\ offset \in Offsets /\ waitPos' \in PagePlaces
      /\ waitPos'.page = index /\ waitPos'.off = offset
      /\ \A p \in Pages : \A o \in Offsets :
           mem'[p][o] = IF p = index /\ o = offset THEN Wait ELSE mem[p][o]
  BY StartControl DEF Control, QTypes
<1>7. Wait.op \notin KernelCommands
  BY DEF Wait, KernelCommands
<1>8. \A p \in Pages : \A o \in Offsets : ~Pending(p, o)'
  BY <1>2, <1>4, <1>6, <1>7 DEF Pending
<1>9. PICK V \in [Nat -> PagePlaces] : V = [W EXCEPT ![issued] = waitPos']
  BY <1>4, <1>6
<1>10. V[issued] = waitPos'
  BY <1>4, <1>9
<1>11. OneOwner' /\ ListApart' /\ EventsApart'
  <2>1. \A p \in Pages : ~InE(p)' /\ ~InE(p)
    BY <1>2, <1>4, <1>8 DEF InE
  <2>2. \A p \in Pages : OnL(p)' <=> OnL(p)
    BY <1>2 DEF OnL
  <2>. QED
    BY <1>2, <1>8, <2>1, <2>2 DEF Ring, OneOwner, ListApart, EventsApart
<1>12. Written'
  <2>1. CellAt(waitPos)' = Wait
    BY <1>6 DEF CellAt
  <2>2. \A p \in Pages : \A o \in Offsets : mem'[p][o].op \in KernelCommands =>
          /\ mem'[p][o].item \in Nat /\ mem'[p][o].pages \subseteq Pages
          /\ mem'[p][o].op # "event" => mem'[p][o].pages = {}
    BY <1>6, <1>7 DEF Ring, Written
  <2>. QED
    BY <1>1, <1>3, <1>5, <2>1, <2>2 DEF Written
<1>13. Chain(V)'
  <2>1. \A k \in executed' + 1 .. issued' : FALSE
    BY <1>2, <1>4
  <2>2. \A k \in executed' .. issued' : k = issued
    BY <1>2, <1>4
  <2>3. ~pageSignal[index] /\ index \notin raised
    BY <1>6 DEF Ring, OneOwner
  <2>4. offset < offset'
    BY <1>2, <1>4
  <2>. QED
    BY <1>2, <1>4, <1>6, <1>8, <1>10, <2>1, <2>2, <2>3, <2>4 DEF Chain
<1>14. FEAt(V)' /\ Quiet'
  <2>1. AtWait(V)'
    BY <1>2, <1>4, <1>10 DEF AtWait
  <2>. QED
    BY <1>1, <1>3, <2>1 DEF FEAt, Quiet
<1>. QED
  BY <1>9, <1>11, <1>12, <1>13, <1>14 DEF Ring

-----------------------------------------------------------------------------
(* The FE.                                                                 *)

FEFrame == UNCHANGED <<mem, index, offset, waitPos, running, list, command, batch, pc, issued>>

\* Where the FE is tells what it finds there.
LEMMA WhereFEIs ==
    ASSUME NEW W \in [Nat -> PagePlaces], Control, Ring(W), fe # Stopped
    PROVE  /\ running
           /\ fe.kind = "page" =>
                \/ AtWait(W) /\ executed = issued /\ Cell = IF pc[Power] = "stopping" THEN End ELSE Wait
                \/ AtWait(W) /\ executed < issued /\ Cell.op = "link"
                \/ AtCommand(W) /\ Cell.op \in KernelCommands
           /\ fe.kind = "buffer" => InItsBuffer(W)
           /\ fe.kind = "paused" => AtPause(W)
           /\ fe.kind \in {"page", "buffer", "paused"}
<1>1. executed \in Nat /\ issued \in Nat /\ executed <= issued
  BY DEF Control, QTypes, Ring, Chain
<1>2. running
  BY DEF Ring, Quiet
<1>3. AtWait(W) \/ AtCommand(W) \/ InItsBuffer(W) \/ AtPause(W)
  BY DEF Ring, FEAt
<1>4. CASE AtWait(W)
  <2>1. fe.kind = "page"
    BY <1>1, <1>4, Place DEF AtWait
  <2>2. CASE executed = issued
    <3>1. fe = waitPos
      BY <1>2, <1>4, <2>2 DEF AtWait, Ring, Chain
    <3>. QED
      BY <1>2, <1>4, <2>1, <2>2, <3>1 DEF Ring, Written, Cell, CellAt
  <2>3. CASE executed < issued
    BY <1>2, <1>4, <2>1, <2>3, LinkAhead DEF AtWait, Cell, CellAt
  <2>. QED
    BY <1>1, <2>2, <2>3
<1>5. CASE AtCommand(W)
  <2>1. executed + 1 \in Nat /\ Cell.op \in KernelCommands
    BY <1>1, <1>5 DEF AtCommand, Kernel, Cell
  <2>2. fe.kind = "page"
    BY <1>5, <2>1, Place DEF AtCommand
  <2>. QED
    BY <1>2, <1>5, <2>1, <2>2
<1>6. CASE InItsBuffer(W)
  BY <1>2, <1>6 DEF InItsBuffer, InBuffer
<1>7. CASE AtPause(W)
  BY <1>2, <1>7 DEF AtPause, Paused
<1>. QED
  BY <1>3, <1>4, <1>5, <1>6, <1>7

\* While power management stops the FE, that is at the last WAIT or stopped.
LEMMA QuietFE ==
    ASSUME NEW W \in [Nat -> PagePlaces], Control, Ring(W), pc[Power] \in {"stop", "stopping"},
           fe # Stopped
    PROVE  fe.kind = "page" /\ Cell = IF pc[Power] = "stopping" THEN End ELSE Wait
<1>1. fe = waitPos /\ running /\ waitPos \in PagePlaces
  BY WhereFEIs DEF Ring, Quiet, Control, QTypes
<1>. QED
  BY <1>1, Place DEF Ring, Written, Cell, CellAt

\* The FE goes on, and executes no item by that.
LEMMA FEMoves ==
    ASSUME NEW W \in [Nat -> PagePlaces], Control, Ring(W), FEFrame,
           UNCHANGED <<pageSignal, raised, executed>>, FEAt(W)', Quiet'
    PROVE  Ring(W)'
<1>1. OneOwner' /\ ListApart' /\ EventsApart'
  BY DEF Ring, OneOwner, ListApart, EventsApart, InE, Pending, OnL, FEFrame
<1>2. Written'
  BY DEF Ring, Written, CellAt, Executing, FEFrame
<1>3. Chain(W)'
  <2>1. \A k \in executed + 1 .. issued : (BufferLink(W, k) \/ CommandLink(W, k))'
    BY DEF Ring, Chain, BufferLink, CommandLink, Kernel, CellAt, FEFrame
  <2>2. \A p \in Pages : \A o \in Offsets : Pending(p, o)' => Placed(W, p, o)'
    BY DEF Ring, Chain, Placed, Pending, Executing, FEFrame
  <2>. QED
    BY <2>1, <2>2 DEF Ring, Chain, FEFrame
<1>. QED
  BY <1>1, <1>2, <1>3 DEF Ring

\* The FE executes the next item, and raises the page signals that are in it.
LEMMA FEExecutes ==
    ASSUME NEW W \in [Nat -> PagePlaces], Control, Ring(W), FEFrame, UNCHANGED pageSignal, running,
           executed < issued, executed' = executed + 1,
           NEW S, raised' = raised \cup S,
           \A p \in Pages : \A o \in Offsets : Kernel(p, o, executed + 1) => mem[p][o].pages = S,
           S # {} => \E p \in Pages, o \in Offsets : Kernel(p, o, executed + 1),
           FEAt(W)', Quiet'
    PROVE  Ring(W)'
<1>1. executed \in Nat /\ issued \in Nat
  BY DEF Control, QTypes
<1>2. \A p \in Pages : \A o \in Offsets :
        mem[p][o].op \in KernelCommands => mem[p][o].item \in Nat /\ mem[p][o].pages \subseteq Pages
  BY DEF Ring, Written
<1>3. \A p \in Pages : \A o \in Offsets :
        /\ Pending(p, o) <=> Pending(p, o)' \/ Kernel(p, o, executed + 1)
        /\ Pending(p, o)' => ~Kernel(p, o, executed + 1)
  BY <1>1, <1>2 DEF Pending, Kernel, FEFrame
<1>4. ASSUME NEW r \in Pages
      PROVE  InE(r)' <=> InE(r) /\ r \notin S
  <2>1. ASSUME InE(r), r \notin S
        PROVE  InE(r)'
    BY <1>3, <2>1 DEF InE, FEFrame
  <2>2. ASSUME InE(r)'
        PROVE  InE(r)
    BY <1>3, <2>2 DEF InE, FEFrame
  <2>3. ASSUME InE(r)', r \in S
        PROVE  FALSE
    <3>1. PICK p \in Pages, o \in Offsets : Kernel(p, o, executed + 1)
      BY <2>3
    <3>2. Pending(p, o) /\ mem[p][o].item = executed + 1 /\ mem[p][o].item <= issued /\ r \in mem[p][o].pages
      BY <1>1, <1>3, <2>3, <3>1 DEF Kernel
    <3>3. r \notin batch
      BY <3>2 DEF Ring, EventsApart
    <3>4. PICK q \in Pages, k \in Offsets : Pending(q, k)' /\ r \in mem[q][k].pages
      BY <2>3, <3>3 DEF InE, FEFrame
    <3>5. Pending(q, k) /\ ~Kernel(q, k, executed + 1)
      BY <1>3, <3>4
    <3>6. mem[q][k].item = mem[p][o].item
      BY <3>2, <3>4, <3>5 DEF Ring, EventsApart
    <3>. QED
      BY <3>2, <3>5, <3>6 DEF Kernel, Pending
  <2>. QED
    BY <2>1, <2>2, <2>3
<1>5. \A r \in Pages : r \in S => InE(r)
  BY <1>3 DEF InE
<1>6. OneOwner' /\ ListApart'
  <2>1. \A p \in Pages : OnL(p)' <=> OnL(p)
    BY DEF OnL, FEFrame
  <2>2. \A p : p \in raised' <=> p \in raised \/ p \in S
    OBVIOUS
  <2>. QED
    BY <1>4, <1>5, <2>1, <2>2 DEF Ring, OneOwner, ListApart, FEFrame
<1>7. EventsApart'
  BY <1>3 DEF Ring, EventsApart, FEFrame
<1>8. Written'
  BY DEF Ring, Written, CellAt, Executing, FEFrame
<1>9. Chain(W)'
  <2>1. executed' <= issued'
    BY <1>1 DEF FEFrame
  <2>2. \A k \in executed' + 1 .. issued' : BufferLink(W, k)' \/ CommandLink(W, k)'
    <3>1. \A k \in executed' + 1 .. issued' : k \in executed + 1 .. issued
      BY <1>1 DEF FEFrame
    <3>. QED
      BY <3>1 DEF Ring, Chain, BufferLink, CommandLink, Kernel, CellAt, FEFrame
  <2>3. ASSUME NEW k \in executed' .. issued'
        PROVE  /\ W[k].page = index' => W[k].off < offset'
               /\ ~pageSignal'[W[k].page] /\ W[k].page \notin raised'
    <3>1. k \in executed .. issued /\ k \in executed + 1 .. issued /\ k \in Nat
      BY <1>1 DEF FEFrame
    <3>2. W[k].page \notin S
      <4>1. SUFFICES ASSUME S # {}
                     PROVE  W[k].page \notin S
        OBVIOUS
      <4>2. PICK p \in Pages, o \in Offsets : Kernel(p, o, executed + 1)
        BY <4>1
      <4>3. Pending(p, o) /\ mem[p][o].item = executed + 1 /\ mem[p][o].pages = S
        BY <1>3, <4>2 DEF Kernel
      <4>4. Placed(W, p, o)
        BY <4>3 DEF Ring, Chain
      <4>. QED
        BY <1>1, <3>1, <4>3, <4>4 DEF Placed
    <3>. QED
      BY <3>1, <3>2 DEF Ring, Chain, FEFrame
  <2>4. \A p \in Pages : \A o \in Offsets : Pending(p, o)' => Placed(W, p, o)'
    BY <1>3 DEF Ring, Chain, Placed, Executing, FEFrame
  <2>. QED
    BY <2>1, <2>2, <2>3, <2>4 DEF Ring, Chain, FEFrame
<1>. QED
  BY <1>6, <1>7, <1>8, <1>9 DEF Ring

\* An item is in one place only.
LEMMA OnlyCommand ==
    ASSUME NEW W \in [Nat -> PagePlaces], Control, Ring(W), AtCommand(W)
    PROVE  /\ fe.page \in Pages /\ fe.off \in Offsets /\ executed < issued
           /\ W[executed + 1] \in PagePlaces
           /\ W[executed + 1] = At(fe.page, fe.off + 1) /\ W[executed + 1].off - 1 = fe.off
           /\ Kernel(fe.page, fe.off, executed + 1) /\ Pending(fe.page, fe.off)
           /\ \A p \in Pages : \A o \in Offsets :
                Kernel(p, o, executed + 1) => p = fe.page /\ o = fe.off
<1>1. executed \in Nat /\ issued \in Nat /\ executed < issued
  BY DEF Control, QTypes, AtCommand
<1>2. PICK w \in PagePlaces : w = W[executed + 1]
  BY <1>1
<1>3. /\ fe = Before(w) /\ w.off > 0 /\ w.off \in Nat /\ w = At(w.page, w.off)
      /\ fe.page = w.page /\ fe.off = w.off - 1 /\ fe.page \in Pages /\ fe.off \in Offsets
  BY <1>2, Place DEF AtCommand
<1>4. fe.off + 1 = w.off
  BY <1>3
<1>5. Kernel(fe.page, fe.off, executed + 1) /\ Pending(fe.page, fe.off)
  BY <1>1 DEF AtCommand, Kernel, Pending
<1>6. ASSUME NEW p \in Pages, NEW o \in Offsets, Kernel(p, o, executed + 1)
      PROVE  p = fe.page /\ o = fe.off
  <2>1. Pending(p, o) /\ mem[p][o].item = executed + 1
    BY <1>1, <1>6 DEF Kernel, Pending
  <2>2. Placed(W, p, o) /\ executed + 1 # issued + 1
    BY <1>1, <2>1 DEF Ring, Chain
  <2>3. w.page = p /\ w.off = o + 1
    BY <1>2, <2>1, <2>2 DEF Placed
  <2>4. o \in Nat
    BY SizesAssumption DEF Offsets
  <2>. QED
    BY <1>3, <2>3, <2>4
<1>. QED
  BY <1>1, <1>2, <1>3, <1>4, <1>5, <1>6

\* A LINK in place of the WAIT: the FE goes to the next item, a command or a buffer.
LEMMA FetchLinkRing ==
    ASSUME NEW W \in [Nat -> PagePlaces], Control, Ring(W), FrontEnd, FetchLink
    PROVE  Ring(W)'
<1>1. FEFrame /\ UNCHANGED <<pageSignal, raised, executed>> /\ fe.kind = "page" /\ Cell.op = "link" /\ fe' = Cell.to
  BY DEF FrontEnd, FetchLink, FEFrame, queueVars, actorVars
<1>2. fe # Stopped /\ Wait.op # "link" /\ End.op # "link" /\ "link" \notin KernelCommands
  BY <1>1 DEF Stopped, Wait, End, KernelCommands
<1>3. AtWait(W) /\ executed < issued /\ running /\ executed \in Nat
  BY <1>1, <1>2, WhereFEIs DEF Control, QTypes
<1>4. \A to : Link(to).to = to
  BY DEF Link
<1>5. Cell = CellAt(W[executed])
  BY <1>3 DEF AtWait, Cell, CellAt
<1>6. AtCommand(W)' \/ InItsBuffer(W)'
  <2>1. CASE /\ \E c \in Contexts \cup {NoContext}, l \in BOOLEAN :
                  CellAt(W[executed]) = Link(InBuffer(executed + 1, c, l, W[executed + 1]))
             /\ \A p \in Pages : \A o \in Offsets : ~Kernel(p, o, executed + 1)
    <3>1. \E c \in Contexts \cup {NoContext}, l \in BOOLEAN :
            fe' = InBuffer(executed + 1, c, l, W[executed + 1])
      BY <1>1, <1>4, <1>5, <2>1
    <3>. QED
      BY <1>1, <1>3, <2>1, <3>1 DEF InItsBuffer, Kernel, FEFrame
  <2>2. CASE /\ CellAt(W[executed]) = Link(Before(W[executed + 1]))
             /\ W[executed + 1].off > 0
             /\ Kernel(W[executed + 1].page, W[executed + 1].off - 1, executed + 1)
    <3>1. fe' = Before(W[executed + 1])
      BY <1>1, <1>4, <1>5, <2>2
    <3>2. fe'.page = W[executed + 1].page /\ fe'.off = W[executed + 1].off - 1
      BY <1>3, <3>1, Place
    <3>. QED
      BY <1>1, <1>3, <2>2, <3>1, <3>2 DEF AtCommand, Kernel, FEFrame
  <2>. QED
    BY <1>3, <2>1, <2>2, LinkAhead
<1>7. FEAt(W)'
  BY <1>1, <1>3, <1>6 DEF FEAt, FEFrame
<1>8. Quiet'
  <2>1. pc[Power] \notin {"stop", "stopping"}
    BY <1>1, <1>2, QuietFE
  <2>. QED
    BY <1>1, <1>3, <2>1 DEF Quiet, FEFrame
<1>. QED
  BY <1>1, <1>7, <1>8, FEMoves

\* The END is in place of the last WAIT, so everything is executed.
LEMMA FetchEndRing ==
    ASSUME NEW W \in [Nat -> PagePlaces], Control, Ring(W), FrontEnd, FetchEnd
    PROVE  Ring(W)'
<1>1. /\ FEFrame /\ UNCHANGED <<pageSignal, raised, executed>>
      /\ fe.kind = "page" /\ Cell.op = "end" /\ fe' = Stopped
  BY DEF FrontEnd, FetchEnd, FEFrame, queueVars, actorVars
<1>2. fe # Stopped /\ Wait.op # "end" /\ "end" \notin KernelCommands
  BY <1>1 DEF Stopped, Wait, KernelCommands
<1>3. executed = issued /\ running /\ pc[Power] = "stopping"
  BY <1>1, <1>2, WhereFEIs
<1>4. FEAt(W)' /\ Quiet'
  BY <1>1, <1>3 DEF FEAt, Quiet, FEFrame
<1>. QED
  BY <1>1, <1>4, FEMoves

\* The FE is through with the context's buffer, in front of the user's.
LEMMA LoadContextRing ==
    ASSUME NEW W \in [Nat -> PagePlaces], Control, Ring(W), FrontEnd, LoadContext
    PROVE  Ring(W)'
<1>1. /\ FEFrame /\ UNCHANGED <<pageSignal, raised, executed>>
      /\ fe.kind = "buffer" /\ fe' = [fe EXCEPT !.load = FALSE]
  BY DEF FrontEnd, LoadContext, FEFrame, queueVars, actorVars
<1>2. fe # Stopped
  BY <1>1 DEF Stopped
<1>3. InItsBuffer(W) /\ running
  BY <1>1, <1>2, WhereFEIs
<1>4. PICK c \in Contexts \cup {NoContext}, l \in BOOLEAN :
          fe = InBuffer(executed + 1, c, l, W[executed + 1])
  BY <1>3 DEF InItsBuffer
<1>5. fe' = InBuffer(executed + 1, c, FALSE, W[executed + 1])
  BY <1>1, <1>4 DEF InBuffer
<1>6. InItsBuffer(W)'
  BY <1>1, <1>3, <1>5 DEF InItsBuffer, Kernel, FEFrame
<1>7. FEAt(W)'
  BY <1>1, <1>3, <1>6 DEF FEAt, FEFrame
<1>8. Quiet'
  <2>1. pc[Power] \notin {"stop", "stopping"}
    BY <1>1, <1>2, QuietFE
  <2>. QED
    BY <1>1, <1>3, <2>1 DEF Quiet, FEFrame
<1>. QED
  BY <1>1, <1>7, <1>8, FEMoves

\* The interrupt routine sends a paused FE on to the WAIT behind its EVENT.
LEMMA ResumeRing ==
    ASSUME NEW W \in [Nat -> PagePlaces], Control, Ring(W), ResumeWaitLinkFE
    PROVE  Ring(W)'
<1>1. /\ FEFrame /\ UNCHANGED <<pageSignal, raised, executed>>
      /\ fe.kind = "paused" /\ fe' = At(fe.page, fe.off + 1)
  BY DEF ResumeWaitLinkFE, FEFrame, queueVars, actorVars, eventVars
<1>2. fe # Stopped
  BY <1>1 DEF Stopped
<1>3. AtPause(W) /\ running /\ executed \in Nat
  BY <1>1, <1>2, WhereFEIs DEF Control, QTypes
<1>4. PICK w \in PagePlaces : w = W[executed]
  BY <1>3
<1>5. w.off > 0 /\ fe = Paused(w.page, w.off - 1)
  BY <1>3, <1>4 DEF AtPause
<1>6. fe.page = w.page /\ fe.off = w.off - 1 /\ w.off \in Nat /\ w = At(w.page, w.off)
  BY <1>5, Place DEF Paused
<1>7. fe.off + 1 = w.off
  BY <1>5, <1>6
<1>8. AtWait(W)'
  BY <1>1, <1>4, <1>6, <1>7 DEF AtWait
<1>9. FEAt(W)'
  BY <1>1, <1>3, <1>8 DEF FEAt, FEFrame
<1>10. Quiet'
  <2>1. pc[Power] \notin {"stop", "stopping"}
    BY <1>1, <1>2, QuietFE
  <2>. QED
    BY <1>1, <1>3, <2>1 DEF Quiet, FEFrame
<1>. QED
  BY <1>1, <1>9, <1>10, FEMoves

\* An EVENT, a flush, or the END that pauses the FE.
LEMMA FetchCommandRing ==
    ASSUME NEW W \in [Nat -> PagePlaces], Control, Ring(W), FrontEnd, FetchCommand \/ FetchPause
    PROVE  Ring(W)'
<1>1. FEFrame /\ UNCHANGED pageSignal /\ fe.kind = "page" /\ executed' = executed + 1
  BY DEF FrontEnd, FetchCommand, FetchPause, FEFrame, queueVars, actorVars
<1>2. \/ Cell.op \in {"event", "flush"} /\ fe' = At(fe.page, fe.off + 1) /\ raised' = raised \cup Cell.pages
      \/ Cell.op = "pause" /\ fe' = Paused(fe.page, fe.off) /\ raised' = raised
  BY DEF FetchCommand, FetchPause
<1>3. fe # Stopped /\ Wait.op # "pause" /\ Wait.op \notin {"event", "flush"}
      /\ End.op # "pause" /\ End.op \notin {"event", "flush"}
  BY <1>1 DEF Stopped, Wait, End
<1>4. AtCommand(W) /\ running
  BY <1>1, <1>2, <1>3, WhereFEIs
<1>5. /\ fe.page \in Pages /\ fe.off \in Offsets /\ executed < issued
      /\ W[executed + 1] = At(fe.page, fe.off + 1) /\ W[executed + 1].off - 1 = fe.off
      /\ W[executed + 1].off > 0 /\ W[executed + 1].page = fe.page
      /\ Kernel(fe.page, fe.off, executed + 1) /\ Pending(fe.page, fe.off)
      /\ \A p \in Pages : \A o \in Offsets :
           Kernel(p, o, executed + 1) => p = fe.page /\ o = fe.off
  BY <1>4, OnlyCommand DEF AtCommand, At
<1>6. PICK S : S = Cell.pages
  OBVIOUS
<1>7. raised' = raised \cup S
  <2>1. Cell.op # "event" => S = {}
    BY <1>5, <1>6 DEF Ring, Written, Cell, Kernel
  <2>. QED
    BY <1>2, <1>6, <2>1
<1>8. AtWait(W)' \/ AtPause(W)'
  BY <1>1, <1>2, <1>5 DEF AtWait, AtPause
<1>9. FEAt(W)'
  BY <1>1, <1>4, <1>8 DEF FEAt, FEFrame
<1>10. Quiet'
  <2>1. pc[Power] \notin {"stop", "stopping"}
    BY <1>1, <1>2, <1>3, QuietFE
  <2>. QED
    BY <1>1, <1>4, <2>1 DEF Quiet, FEFrame
<1>11. \A p \in Pages : \A o \in Offsets : Kernel(p, o, executed + 1) => mem[p][o].pages = S
  BY <1>5, <1>6 DEF Cell
<1>12. \E p \in Pages, o \in Offsets : Kernel(p, o, executed + 1)
  BY <1>5
<1>. QED
  BY <1>1, <1>4, <1>5, <1>7, <1>9, <1>10, <1>11, <1>12, FEExecutes

\* The LINK at the end of a user's buffer leads to the WAIT written for it.
LEMMA ExecuteBufferRing ==
    ASSUME NEW W \in [Nat -> PagePlaces], Control, Ring(W), FrontEnd, ExecuteBuffer
    PROVE  Ring(W)'
<1>1. /\ FEFrame /\ UNCHANGED <<pageSignal, raised>> /\ fe.kind = "buffer" /\ executed' = executed + 1
      /\ fe' = fe.back
  BY DEF FrontEnd, ExecuteBuffer, FEFrame, queueVars, actorVars
<1>2. fe # Stopped
  BY <1>1 DEF Stopped
<1>3. InItsBuffer(W) /\ running /\ executed < issued
  BY <1>1, <1>2, WhereFEIs DEF InItsBuffer
<1>4. fe.back = W[executed + 1]
  BY <1>3 DEF InItsBuffer, InBuffer
<1>5. AtWait(W)'
  BY <1>1, <1>4 DEF AtWait
<1>6. FEAt(W)'
  BY <1>1, <1>3, <1>5 DEF FEAt, FEFrame
<1>7. Quiet'
  <2>1. pc[Power] \notin {"stop", "stopping"}
    BY <1>1, <1>2, QuietFE
  <2>. QED
    BY <1>1, <1>3, <2>1 DEF Quiet, FEFrame
<1>8. raised' = raised \cup {}
  BY <1>1
<1>9. \A p \in Pages : \A o \in Offsets : Kernel(p, o, executed + 1) => mem[p][o].pages = {}
  BY <1>3 DEF InItsBuffer
<1>. QED
  BY <1>1, <1>3, <1>6, <1>7, <1>8, <1>9, FEExecutes

-----------------------------------------------------------------------------
(* The invariant and what it says.                                         *)

\* Nothing is written, and the driver has still to start the queue.
LEMMA InitQInv ==
    ASSUME Init
    PROVE  QInv
<1>1. /\ NumPages \in Nat /\ NumPages >= 2 /\ PageSize \in Nat /\ PageSize >= 2
      /\ At(0, 0) \in PagePlaces /\ Power \in Actors
  BY SizesAssumption DEF PagePlaces, At, Pages, Actors
<1>0. /\ index = -1 /\ offset = 0 /\ newQueue = FALSE /\ waitPos = At(0, 0) /\ running = FALSE
      /\ batch = {} /\ raised = {} /\ command = "event" /\ list = <<>> /\ loading = FALSE
      /\ fe = Stopped /\ executed = 0 /\ issued = 0
      /\ \A p \in Pages : pageSignal[p] = TRUE
  BY DEF Init
<1>2. QTypes
  <2>1. mem = [p \in Pages |-> [o \in Offsets |-> Unwritten]]
    BY DEF Init, Offsets
  <2>2. Shaped(mem)
    BY <2>1 DEF Shaped
  <2>3. pc \in [Actors -> PCs]
    BY DEF Init, PCs
  <2>4. list \in Seq(Records)
    BY DEF Init
  <2>. QED
    <3>1. pageSignal \in [Pages -> BOOLEAN] /\ ctx \in [Threads -> Contexts \cup {NoContext}]
      BY DEF Init
    <3>2. command \in KernelCommands /\ offset \in 0 .. PageSize
      BY <1>0, <1>1 DEF KernelCommands
    <3>. QED
      BY <1>0, <1>1, <2>2, <2>3, <2>4, <3>1, <3>2 DEF QTypes
<1>3. Locks
  BY <1>1, ActorsAssumption DEF Init, Locks, Actors, InQueue, PowerPlaces, ThreadPlaces
<1>4. Shape
  BY <1>1 DEF Init, Shape
<1>5. PICK W \in [Nat -> PagePlaces] : W = [n \in Nat |-> At(0, 0)]
  BY <1>1
<1>6. \A p \in Pages : \A o \in Offsets : mem[p][o].op \notin KernelCommands
  BY DEF Init, Offsets, Unwritten, KernelCommands
<1>7. \A p \in Pages : ~OnL(p) /\ ~InE(p)
  <2>1. DOMAIN list = {}
    BY <1>0
  <2>. QED
    BY <1>0, <1>6, <2>1 DEF OnL, InE, Pending
<1>8. OneOwner /\ ListApart /\ EventsApart
  <2>1. DOMAIN list = {}
    BY <1>0
  <2>. QED
    BY <1>0, <1>6, <1>7, <2>1, NoPage DEF OneOwner, ListApart, EventsApart, Pending
<1>9. \A a \in Actors : pc[a] \in {"idle", "off"}
  BY DEF Init
<1>10. Written
  BY <1>6, <1>9 DEF Init, Written, Executing
<1>11. Chain(W)
  <2>1. \A k \in executed + 1 .. issued : FALSE
    BY <1>0
  <2>. QED
    BY <1>0, <1>6, <2>1 DEF Chain, Pending
<1>12. FEAt(W) /\ Quiet
  BY <1>1, <1>9 DEF Init, FEAt, Quiet
<1>. QED
  BY <1>2, <1>3, <1>4, <1>8, <1>10, <1>11, <1>12 DEF QInv, Control, Ring

-----------------------------------------------------------------------------
(* Every step keeps the chain.                                              *)

LEMMA CommitQInv ==
    ASSUME QInv, NEW t \in Threads, Commit(t) \/ UserEvents(t) \/ Stall(t)
    PROVE  QInv'
<1>1. PICK W \in [Nat -> PagePlaces] : Ring(W)
  BY DEF QInv
<1>2. Control
  BY DEF QInv
<1>3. Control'
  BY <1>2, StartCommitControl, CommitEnterControl, CommitFlushControl, CommitSpaceControl,
     CommitFailControl, CommitWriteControl, CommitLinkControl, UserEventsControl, StallControl
  DEF Commit
<1>4. \E V \in [Nat -> PagePlaces] : Ring(V)'
  BY <1>1, <1>2, StillSteps, FindRoomRing, CommitWriteRing, CommitLinkRing DEF Commit
<1>. QED
  BY <1>3, <1>4 DEF QInv

LEMMA SubmitQInv ==
    ASSUME QInv, NEW a \in Actors, Submit(a)
    PROVE  QInv'
<1>1. PICK W \in [Nat -> PagePlaces] : Ring(W)
  BY DEF QInv
<1>2. Control
  BY DEF QInv
<1>3. Control'
  BY <1>2, SubmitCheckControl, SubmitEnterControl, SubmitNextControl, SubmitExitControl,
     ReserveControl, FillControl, ExecuteControl
  DEF Submit
<1>4. \E V \in [Nat -> PagePlaces] : Ring(V)'
  BY <1>1, <1>2, StillSteps, SubmitNextRing, FindRoomRing, FillRing, ExecuteRing DEF Submit
<1>. QED
  BY <1>3, <1>4 DEF QInv

LEMMA PowerQInv ==
    ASSUME QInv, PowerManagement
    PROVE  QInv'
<1>1. PICK W \in [Nat -> PagePlaces] : Ring(W)
  BY DEF QInv
<1>2. Control
  BY DEF QInv
<1>3. Control'
  BY <1>2, PowerAcquireControl, PowerMovesControl, StopControl, StartPageControl, StartControl
  DEF PowerManagement
<1>4. \E V \in [Nat -> PagePlaces] : Ring(V)'
  BY <1>1, <1>2, StillSteps, PowerAcquireRing, StopRing, StoppingRing, StartPageRing, StartRing
  DEF PowerManagement
<1>. QED
  BY <1>3, <1>4 DEF QInv

LEMMA GPUQInv ==
    ASSUME QInv, FrontEnd \/ ResumeWaitLinkFE \/ NotifyPage
    PROVE  QInv'
<1>1. PICK W \in [Nat -> PagePlaces] : Ring(W)
  BY DEF QInv
<1>2. Control
  BY DEF QInv
<1>3. executed' \in Nat
  <2>1. executed' = executed \/ executed' = executed + 1
    BY DEF FrontEnd, FetchLink, FetchCommand, FetchPause, FetchEnd, LoadContext, ExecuteBuffer,
       ResumeWaitLinkFE, NotifyPage, gpuVars
  <2>. QED
    BY <1>2, <2>1 DEF Control, QTypes
<1>4. raised' \subseteq Pages
  <2>1. CASE FrontEnd /\ FetchCommand
    <3>1. fe.kind = "page" /\ Cell.op \in {"event", "flush"} /\ raised' = raised \cup Cell.pages
      BY <2>1 DEF FetchCommand
    <3>2. fe # Stopped /\ Wait.op \notin {"event", "flush"} /\ End.op \notin {"event", "flush"}
      BY <3>1 DEF Stopped, Wait, End
    <3>3. AtCommand(W)
      BY <1>1, <1>2, <3>1, <3>2, WhereFEIs
    <3>4. fe.page \in Pages /\ fe.off \in Offsets /\ Kernel(fe.page, fe.off, executed + 1)
      BY <1>1, <1>2, <3>3, OnlyCommand
    <3>5. Cell.pages \subseteq Pages
      BY <1>1, <3>4 DEF Ring, Written, Kernel, Cell
    <3>. QED
      BY <1>2, <3>1, <3>5 DEF Control, QTypes
  <2>2. CASE NotifyPage
    BY <1>2, <2>2 DEF NotifyPage, Control, QTypes
  <2>3. CASE raised' = raised
    BY <1>2, <2>3 DEF Control, QTypes
  <2>. QED
    BY <2>1, <2>2, <2>3 DEF FrontEnd, FetchLink, FetchPause, FetchEnd, LoadContext, ExecuteBuffer,
       ResumeWaitLinkFE, eventVars
<1>5. Control'
  BY <1>2, <1>3, <1>4, GPUControl
<1>6. \E V \in [Nat -> PagePlaces] : Ring(V)'
  BY <1>1, <1>2, FetchLinkRing, FetchCommandRing, FetchEndRing, LoadContextRing, ExecuteBufferRing,
     ResumeRing, NotifyRing
  DEF FrontEnd
<1>. QED
  BY <1>5, <1>6 DEF QInv

\* Nothing changes.
LEMMA StutterQInv ==
    ASSUME QInv, UNCHANGED vars
    PROVE  QInv'
<1>1. PICK W \in [Nat -> PagePlaces] : Ring(W)
  BY DEF QInv
<1>2. UNCHANGED <<mem, index, offset, newQueue, waitPos, running, pageSignal, powerSemaphore,
                  mutexQueue, list, command, batch, raised, pc, ctx, loading, fe, executed, issued>>
  BY DEF vars, queueVars, lockVars, eventVars, actorVars, gpuVars
<1>3. Control'
  BY <1>2 DEF QInv, Control, QTypes, Locks, Shape
<1>4. StillPlaces /\ UNCHANGED RingVars
  BY <1>2 DEF StillPlaces, RingVars
<1>5. ListApart' /\ \A p \in Pages : OnL(p)' <=> OnL(p)
  BY <1>1, <1>2 DEF Ring, ListApart, OnL
<1>6. Ring(W)'
  BY <1>1, <1>2, <1>4, <1>5, StillRing
<1>. QED
  BY <1>3, <1>6 DEF QInv

\* Every step keeps the invariant.
LEMMA StepQInv ==
    ASSUME QInv, [Next]_vars
    PROVE  QInv'
  BY CommitQInv, SubmitQInv, PowerQInv, GPUQInv, StutterQInv DEF Next

\* A page is free, in use, on the list, in an EVENT that is not executed, or
\* raised, and only one of these, whatever commits, submissions and power
\* transitions do to the ring (_NewQueue, gckEVENT_Submit, gckCOMMAND_Start).
THEOREM PagesAccounted == Spec => []PageAccounting
<1>1. ASSUME QInv
      PROVE  PageAccounting
  <2>1. PICK W \in [Nat -> PagePlaces] : Ring(W)
    BY <1>1 DEF QInv
  <2>2. ASSUME NEW p \in Pages
        PROVE  Cardinality(Owners(p)) = 1
    <3>1. p \in OnList <=> OnL(p)
      BY DEF OnList, OnL
    <3>2. p \in InEvents \cup batch <=> InE(p)
      BY <2>1 DEF InEvents, InE, Pending, Ring, Written, Offsets, KernelCommands
    <3>3. /\ pageSignal[p] \/ p = index \/ OnL(p) \/ InE(p) \/ p \in raised
          /\ pageSignal[p] => p # index /\ ~OnL(p) /\ ~InE(p) /\ p \notin raised
          /\ p = index => ~OnL(p) /\ ~InE(p) /\ p \notin raised
          /\ OnL(p) => ~InE(p) /\ p \notin raised
          /\ InE(p) => p \notin raised
      BY <2>1 DEF Ring, OneOwner
    <3>4. \E who : Owners(p) = {who}
      <4>1. CASE pageSignal[p]
        <5>1. Owners(p) = {"free"}
          BY <3>1, <3>2, <3>3, <4>1 DEF Owners
        <5>. QED
          BY <5>1
      <4>2. CASE p = index
        <5>1. Owners(p) = {"current"}
          BY <3>1, <3>2, <3>3, <4>2 DEF Owners
        <5>. QED
          BY <5>1
      <4>3. CASE OnL(p)
        <5>1. Owners(p) = {"list"}
          BY <3>1, <3>2, <3>3, <4>3 DEF Owners
        <5>. QED
          BY <5>1
      <4>4. CASE InE(p)
        <5>1. Owners(p) = {"event"}
          BY <3>1, <3>2, <3>3, <4>4 DEF Owners
        <5>. QED
          BY <5>1
      <4>5. CASE p \in raised
        <5>1. Owners(p) = {"raised"}
          BY <3>1, <3>2, <3>3, <4>5 DEF Owners
        <5>. QED
          BY <5>1
      <4>. QED
        BY <3>3, <4>1, <4>2, <4>3, <4>4, <4>5
    <3>. QED
      BY <3>4, FS_Singleton
  <2>. QED
    BY <2>2 DEF PageAccounting
<1>. QED
  BY <1>1, InitQInv, StepQInv, PTL DEF Spec

\* A page whose signal is raised or set again is not one the FE is in, comes
\* back to, or waits in: the driver may write to it.
THEOREM PagesLeft == Spec => []PageLeft
<1>1. ASSUME QInv
      PROVE  PageLeft
  <2>1. PICK W \in [Nat -> PagePlaces] : Ring(W)
    BY <1>1 DEF QInv
  <2>2. Control /\ executed \in Nat /\ issued \in Nat /\ executed <= issued
    BY <1>1, <2>1 DEF QInv, Control, QTypes, Ring, Chain
  <2>3. SUFFICES ASSUME NEW p \in Pages, running, pageSignal[p] \/ p \in raised
                 PROVE  /\ waitPos.page # p
                        /\ fe.kind \in {"page", "paused"} => fe.page # p
                        /\ fe.kind = "buffer" => fe.back.page # p
    BY DEF PageLeft
  <2>4. /\ \A k \in executed .. issued : W[k].page # p
        /\ W[issued] = waitPos /\ issued \in executed .. issued /\ executed \in executed .. issued
    BY <2>1, <2>2, <2>3 DEF Ring, Chain
  <2>5. executed < issued => W[executed + 1].page # p /\ W[executed + 1] \in PagePlaces
    BY <2>2, <2>4
  <2>6. CASE fe = Stopped
    BY <2>4, <2>6 DEF Stopped
  <2>7. CASE AtWait(W)
    BY <2>2, <2>4, <2>7, Place DEF AtWait
  <2>8. CASE AtCommand(W)
    <3>1. fe.kind = "page" /\ fe.page = W[executed + 1].page
      BY <2>5, <2>8, Place DEF AtCommand
    <3>. QED
      BY <2>4, <2>5, <2>8, <3>1 DEF AtCommand
  <2>9. CASE InItsBuffer(W)
    BY <2>4, <2>5, <2>9 DEF InItsBuffer, InBuffer
  <2>10. CASE AtPause(W)
    BY <2>4, <2>10 DEF AtPause, Paused
  <2>. QED
    BY <2>1, <2>6, <2>7, <2>8, <2>9, <2>10 DEF Ring, FEAt
<1>. QED
  BY <1>1, InitQInv, StepQInv, PTL DEF Spec

\* The FE finds what was written for it, in the order of the commits and
\* submissions, and waits only at the last WAIT with everything executed.
THEOREM InOrder == Spec => []ExecutesInOrder
<1>1. ASSUME QInv
      PROVE  ExecutesInOrder
  <2>1. PICK W \in [Nat -> PagePlaces] : Ring(W)
    BY <1>1 DEF QInv
  <2>2. Control
    BY <1>1 DEF QInv
  <2>3. executed \in Nat /\ issued \in Nat
    BY <2>2 DEF Control, QTypes
  <2>4. CASE fe = Stopped
    <3>1. ~AtWait(W)
      BY <2>3, <2>4, Place DEF AtWait, Stopped
    <3>2. ~AtCommand(W)
      BY <2>3, <2>4, Place DEF AtCommand, Stopped
    <3>3. ~InItsBuffer(W) /\ ~AtPause(W)
      BY <2>4 DEF InItsBuffer, AtPause, InBuffer, Paused, Stopped
    <3>4. executed = issued
      BY <2>1, <3>1, <3>2, <3>3 DEF Ring, FEAt
    <3>. QED
      BY <2>4, <3>4 DEF ExecutesInOrder, Stopped
  <2>5. CASE fe # Stopped
    <3>1. fe.kind \in {"page", "buffer", "paused"}
      BY <2>1, <2>2, <2>5, WhereFEIs
    <3>2. ASSUME fe.kind = "page"
          PROVE  /\ Cell # Unwritten
                 /\ Cell.op = "event" => Cell.item = executed + 1
                 /\ Cell.op = "wait" => fe = waitPos /\ executed = issued
                 /\ Cell.op = "end" => pc[Power] = "stopping"
      <4>1. CASE /\ AtWait(W) /\ executed = issued
                 /\ Cell = IF pc[Power] = "stopping" THEN End ELSE Wait
        <5>1. fe = waitPos
          BY <2>1, <2>2, <2>5, <4>1, WhereFEIs DEF AtWait, Ring, Chain
        <5>. QED
          BY <4>1, <5>1 DEF Wait, End, Unwritten
      <4>2. CASE Cell.op = "link"
        BY <4>2 DEF Unwritten
      <4>3. CASE AtCommand(W) /\ Cell.op \in KernelCommands
        BY <4>3 DEF AtCommand, Kernel, Cell, Unwritten, KernelCommands
      <4>. QED
        BY <2>1, <2>2, <2>5, <3>2, <4>1, <4>2, <4>3, WhereFEIs
    <3>3. ASSUME fe.kind = "buffer"
          PROVE  fe.item = executed + 1
      BY <2>1, <2>2, <2>5, <3>3, WhereFEIs DEF InItsBuffer, InBuffer
    <3>. QED
      BY <3>1, <3>2, <3>3 DEF ExecutesInOrder
  <2>. QED
    BY <2>4, <2>5
<1>. QED
  BY <1>1, InitQInv, StepQInv, PTL DEF Spec

-----------------------------------------------------------------------------
(* The contexts.  Each item leaves the GPU in the state of a context, or in *)
(* none; a user's buffer has been linked through its context's own buffer   *)
(* exactly when that is not the state the item in front of it leaves.       *)

AnyContext == Contexts \cup {NoContext}

\* A LINK to a user's buffer that the FE has not executed.
BufferAhead(p, o) ==
    mem[p][o].op = "link" /\ mem[p][o].to.kind = "buffer" /\ mem[p][o].to.item \notin 0 .. executed

\* G[n] is the context whose state the GPU has behind item n.
LinkedFor(G) ==
    /\ \A p \in Pages : \A o \in Offsets : BufferAhead(p, o) =>
        /\ mem[p][o].to.item \in Nat /\ mem[p][o].to.item <= issued
        /\ G[mem[p][o].to.item] = mem[p][o].to.ctx
        /\ mem[p][o].to.load <=> /\ mem[p][o].to.ctx # NoContext
                                 /\ mem[p][o].to.ctx # G[mem[p][o].to.item - 1]
    /\ \A p \in Pages : \A o \in Offsets : Pending(p, o) /\ mem[p][o].item <= issued =>
        G[mem[p][o].item] = G[mem[p][o].item - 1]

\* What the GPU has, and what the buffer it is in still does.
GPUHas(G) ==
    /\ fe.kind # "buffer" => gpuCtx = G[executed]
    /\ fe.kind = "buffer" =>
        /\ G[executed + 1] = fe.ctx
        /\ fe.load => fe.ctx # NoContext
        /\ ~fe.load /\ fe.ctx # NoContext => gpuCtx = fe.ctx

\* What the driver takes it to have behind everything linked.
DriverKnows(G) ==
    /\ currContext \in AnyContext
    /\ (\A a \in Actors : pc[a] # "link") => currContext = G[issued]
    /\ \A t \in Threads : pc[t] = "link" =>
        /\ currContext = ctx[t]
        /\ loading <=> ctx[t] # NoContext /\ ctx[t] # G[issued]

Loaded(G) == LinkedFor(G) /\ GPUHas(G) /\ DriverKnows(G)

\* The steps that link nothing, execute nothing and choose no context.
LEMMA StillLoaded ==
    ASSUME NEW G, Loaded(G), UNCHANGED <<mem, executed, issued, fe, gpuCtx, currContext>>,
           \A a \in Actors : pc'[a] = "link" <=> pc[a] = "link",
           \A t \in Threads : pc[t] = "link" => ctx'[t] = ctx[t] /\ loading' = loading
    PROVE  Loaded(G)'
<1>1. LinkedFor(G)'
  BY DEF Loaded, LinkedFor, BufferAhead, Pending
<1>2. GPUHas(G)'
  BY DEF Loaded, GPUHas
<1>3. DriverKnows(G)'
  BY DEF Loaded, DriverKnows, Actors
<1>. QED
  BY <1>1, <1>2, <1>3 DEF Loaded

\* Those of a commit.
LEMMA CommitStillLoaded ==
    ASSUME NEW G, Control, Loaded(G), NEW t \in Threads,
           \/ StartCommit(t) \/ CommitEnter(t) \/ CommitFlush(t) \/ CommitSpace(t)
           \/ CommitFail(t) \/ UserEvents(t) \/ Stall(t)
    PROVE  Loaded(G)'
<1>1. UNCHANGED <<mem, executed, issued, fe, gpuCtx, currContext>>
  BY DEF StartCommit, CommitEnter, CommitFlush, CommitSpace, CommitFail, UserEvents, Stall,
     queueVars, gpuVars
<1>2. t \in Actors /\ pc[t] # "link"
  BY DEF Actors, StartCommit, CommitEnter, EnterCommit, CommitFlush, CommitSpace, CommitFail,
     UserEvents, Stall
<1>3. \E x \in PCs \ {"link"} : Goto(t, x)
  BY DEF PCs, StartCommit, CommitEnter, EnterCommit, CommitFlush, CommitSpace, CommitFail,
     AbandonCommit, UserEvents, Stall
<1>4. \A a \in Actors : pc'[a] = "link" <=> pc[a] = "link"
  BY <1>2, <1>3, Went DEF Control, QTypes
<1>5. \A u \in Threads : u # t => ctx'[u] = ctx[u]
  BY DEF StartCommit, CommitEnter, CommitFlush, CommitSpace, CommitFail, AbandonCommit,
     UserEvents, Stall, Control, QTypes
<1>6. ASSUME NEW u \in Threads, pc[u] = "link"
      PROVE  loading' = loading
  <2>1. CASE CommitFail(t)
    <3>1. u \in Actors /\ pc[t] = "write"
      BY <2>1 DEF Actors, CommitFail
    <3>2. u = t
      BY <1>2, <1>6, <3>1, InQueueAlone DEF InQueue
    <3>. QED
      BY <1>2, <1>6, <3>2
  <2>2. CASE ~CommitFail(t)
    BY <2>2 DEF StartCommit, CommitEnter, CommitFlush, CommitSpace, UserEvents, Stall
  <2>. QED
    BY <2>1, <2>2
<1>. QED
  BY <1>1, <1>2, <1>4, <1>5, <1>6, StillLoaded

\* Those of a submission.
LEMMA SubmitStillLoaded ==
    ASSUME NEW G, Control, Loaded(G), NEW a \in Actors,
           SubmitCheck(a) \/ SubmitEnter(a) \/ SubmitNext(a) \/ SubmitExit(a) \/ Reserve(a)
    PROVE  Loaded(G)'
<1>1. UNCHANGED <<mem, executed, issued, fe, gpuCtx, currContext, ctx, loading>>
  BY DEF SubmitCheck, SubmitEnter, SubmitNext, SubmitExit, Reserve, queueVars, gpuVars
<1>2. pc[a] # "link"
  BY DEF SubmitCheck, SubmitEnter, EnterCommit, SubmitNext, SubmitExit, Reserve
<1>3. \E x \in PCs \ {"link"} : Goto(a, x)
  BY DEF PCs, SubmitCheck, SubmitEnter, EnterCommit, SubmitNext, SubmitExit, Return, Reserve
<1>4. \A b \in Actors : pc'[b] = "link" <=> pc[b] = "link"
  BY <1>2, <1>3, Went DEF Control, QTypes
<1>. QED
  BY <1>1, <1>4, StillLoaded

\* Those of power management, and of the interrupt thread.
LEMMA PowerStillLoaded ==
    ASSUME NEW G, Control, Loaded(G),
           PowerAcquire \/ PowerStalled \/ Stopping \/ StartPage \/ NotifyPage
    PROVE  Loaded(G)'
<1>1. UNCHANGED <<mem, executed, issued, fe, gpuCtx, currContext, ctx, loading>>
  BY DEF PowerAcquire, PowerStalled, Stopping, StartPage, NotifyPage, queueVars, gpuVars, actorVars
<1>2. \A b \in Actors : pc'[b] = "link" <=> pc[b] = "link"
  <2>1. CASE NotifyPage
    BY <2>1 DEF NotifyPage, actorVars
  <2>2. CASE PowerAcquire \/ PowerStalled \/ Stopping \/ StartPage
    <3>1. Power \in Actors /\ pc[Power] # "link"
      BY <2>2 DEF Actors, PowerAcquire, PowerStalled, Stopping, StartPage
    <3>2. \E x \in PCs \ {"link"} : Goto(Power, x)
      BY <2>2 DEF PCs, PowerAcquire, PowerStalled, Stopping, StartPage
    <3>. QED
      BY <3>1, <3>2, Went DEF Control, QTypes
  <2>. QED
    BY <2>1, <2>2
<1>. QED
  BY <1>1, <1>2, StillLoaded

\* A page is written to, but for a LINK and a kernel's command that is linked.
LEMMA WriteLoaded ==
    ASSUME NEW G, Loaded(G), UNCHANGED <<executed, issued, fe, gpuCtx>>, DriverKnows(G)',
           \A p \in Pages : \A o \in Offsets :
               \/ mem'[p][o] = mem[p][o]
               \/ mem'[p][o].op \in {"wait", "end"}
               \/ mem'[p][o].op \in KernelCommands /\ ~(mem'[p][o].item <= issued)
    PROVE  Loaded(G)'
<1>1. "link" \notin KernelCommands /\ "wait" \notin KernelCommands /\ "end" \notin KernelCommands
  BY DEF KernelCommands
<1>2. \A p \in Pages : \A o \in Offsets : BufferAhead(p, o)' => BufferAhead(p, o) /\ mem'[p][o] = mem[p][o]
  BY <1>1 DEF BufferAhead
<1>3. \A p \in Pages : \A o \in Offsets : Pending(p, o)' /\ mem'[p][o].item <= issued =>
        Pending(p, o) /\ mem'[p][o] = mem[p][o]
  BY <1>1 DEF Pending
<1>4. LinkedFor(G)'
  BY <1>2, <1>3 DEF Loaded, LinkedFor
<1>5. GPUHas(G)'
  BY DEF Loaded, GPUHas
<1>. QED
  BY <1>4, <1>5 DEF Loaded

\* A commit chooses its context, and takes the queue to have it.
LEMMA CommitWriteLoaded ==
    ASSUME NEW G, Control, Loaded(G), NEW t \in Threads, CommitWrite(t)
    PROVE  Loaded(G)'
<1>1. t \in Actors /\ pc[t] = "write"
  BY DEF CommitWrite, Actors
<1>2. /\ Goto(t, "link") /\ "link" \in PCs
      /\ loading' = Switches(ctx[t]) /\ currContext' = ctx[t]
      /\ mem' = [mem EXCEPT ![index][offset] = Wait]
      /\ UNCHANGED <<executed, issued, fe, gpuCtx, ctx>>
  BY DEF CommitWrite, gpuVars, PCs
<1>3. index \in Pages /\ offset \in Offsets /\ Shaped(mem)
  BY <1>1, InQueueAlone, SizesAssumption DEF Control, Shape, InQueue, QTypes, Offsets
<1>4. \A p \in Pages : \A o \in Offsets : mem'[p][o] = mem[p][o] \/ mem'[p][o] = Wait
  BY <1>2, <1>3, Put
<1>5. Wait.op = "wait"
  BY DEF Wait
<1>6. \A b \in Actors : b # t => pc[b] # "link"
  BY <1>1, InQueueAlone DEF InQueue
<1>7. \A b \in Actors : pc'[b] = IF b = t THEN "link" ELSE pc[b]
  BY <1>2, <1>1, Went DEF Control, QTypes
<1>8. currContext = G[issued] /\ ctx[t] \in AnyContext
  BY <1>1, <1>6 DEF Loaded, DriverKnows, Control, QTypes, AnyContext
<1>9. DriverKnows(G)'
  <2>1. \A u \in Threads : u \in Actors
    BY DEF Actors
  <2>2. \A u \in Threads : pc'[u] = "link" => u = t
    BY <1>6, <1>7, <2>1
  <2>3. ~(\A a \in Actors : pc'[a] # "link")
    BY <1>1, <1>7
  <2>4. loading' <=> ctx[t] # NoContext /\ ctx[t] # G[issued]
    BY <1>2, <1>8 DEF Switches
  <2>. QED
    BY <1>2, <1>8, <2>2, <2>3, <2>4 DEF DriverKnows
<1>. QED
  BY <1>2, <1>4, <1>5, <1>9, WriteLoaded

\* The function that goes on with context c behind item n.
LEMMA Behind ==
    ASSUME NEW G \in [Nat -> AnyContext], NEW n \in Nat, NEW c \in AnyContext
    PROVE  \E H \in [Nat -> AnyContext] :
             H[n + 1] = c /\ \A k \in Nat : k <= n => H[k] = G[k]
<1>1. PICK H : H = [G EXCEPT ![n + 1] = c]
  OBVIOUS
<1>2. H \in [Nat -> AnyContext] /\ H[n + 1] = c /\ \A k \in Nat : k <= n => H[k] = G[k]
  BY <1>1
<1>. QED
  BY <1>2

\* One item more is linked: the GPU has the current context behind it, and the
\* LINK to it is one to a buffer that was prepared for that, or to a command of
\* the kernel.
LEMMA LinkLoaded ==
    ASSUME NEW G \in [Nat -> AnyContext], NEW W \in [Nat -> PagePlaces], Control, Ring(W),
           Loaded(G), NEW to, NEW size \in {1, 2}, index \in Pages, offset + size <= PageSize,
           LinkTo(to, size), UNCHANGED <<executed, fe, gpuCtx, currContext>>,
           \A b \in Actors : pc'[b] # "link",
           \/ /\ to.kind = "page" /\ currContext = G[issued]
           \/ /\ to.kind = "buffer" /\ to.item = issued + 1 /\ to.ctx = currContext /\ ~Executing
              /\ to.load <=> to.ctx # NoContext /\ to.ctx # G[issued]
    PROVE  \E H \in [Nat -> AnyContext] : Loaded(H)'
<1>1. /\ issued \in Nat /\ executed \in Nat /\ executed <= issued /\ issued' = issued + 1
      /\ currContext \in AnyContext
  BY DEF Control, QTypes, Ring, Chain, LinkTo, Loaded, DriverKnows
<1>2. PICK H \in [Nat -> AnyContext] :
          H[issued + 1] = currContext /\ \A k \in Nat : k <= issued => H[k] = G[k]
  BY <1>1, Behind
<1>3. \A p \in Pages : \A o \in Offsets :
        mem'[p][o] = IF p = waitPos.page /\ o = waitPos.off THEN Link(to) ELSE mem[p][o]
  BY LinkedCells DEF Control
<1>4. Link(to).op = "link" /\ Link(to).to = to /\ "link" \notin KernelCommands
  BY DEF Link, KernelCommands
<1>5. ASSUME NEW p \in Pages, NEW o \in Offsets, BufferAhead(p, o)'
      PROVE  /\ mem'[p][o].to.item \in Nat /\ mem'[p][o].to.item <= issued'
             /\ H[mem'[p][o].to.item] = mem'[p][o].to.ctx
             /\ mem'[p][o].to.load <=> /\ mem'[p][o].to.ctx # NoContext
                                       /\ mem'[p][o].to.ctx # H[mem'[p][o].to.item - 1]
  <2>1. CASE p = waitPos.page /\ o = waitPos.off
    <3>1. mem'[p][o] = Link(to)
      BY <1>3, <2>1
    <3>2. mem'[p][o].to = to /\ to.kind = "buffer"
      BY <1>4, <1>5, <3>1 DEF BufferAhead
    <3>3. /\ to.item = issued + 1 /\ to.ctx = currContext
          /\ to.load <=> to.ctx # NoContext /\ to.ctx # G[issued]
      BY <3>2
    <3>4. to.item \in Nat /\ to.item <= issued' /\ to.item - 1 = issued /\ H[issued] = G[issued]
      BY <1>1, <1>2, <3>3
    <3>5. /\ H[to.item] = to.ctx
          /\ to.load <=> to.ctx # NoContext /\ to.ctx # H[to.item - 1]
      BY <1>2, <3>3, <3>4
    <3>. QED
      BY <3>2, <3>4, <3>5
  <2>2. CASE ~(p = waitPos.page /\ o = waitPos.off)
    <3>1. mem'[p][o] = mem[p][o] /\ BufferAhead(p, o)
      <4>1. mem'[p][o] = mem[p][o]
        BY <1>3, <2>2
      <4>. QED
        BY <1>5, <4>1 DEF BufferAhead
    <3>2. PICK n : n = mem[p][o].to.item
      OBVIOUS
    <3>3. /\ n \in Nat /\ n <= issued /\ n \notin 0 .. executed /\ G[n] = mem[p][o].to.ctx
          /\ mem[p][o].to.load <=> mem[p][o].to.ctx # NoContext /\ mem[p][o].to.ctx # G[n - 1]
      BY <3>1, <3>2 DEF Loaded, LinkedFor, BufferAhead
    <3>4. n - 1 \in Nat /\ n - 1 <= issued /\ n <= issued'
      BY <1>1, <3>3
    <3>5. H[n] = G[n] /\ H[n - 1] = G[n - 1]
      BY <1>2, <3>3, <3>4
    <3>. QED
      BY <3>1, <3>2, <3>3, <3>4, <3>5
  <2>. QED
    BY <2>1, <2>2
<1>6. ASSUME NEW p \in Pages, NEW o \in Offsets, Pending(p, o)', mem'[p][o].item <= issued'
      PROVE  H[mem'[p][o].item] = H[mem'[p][o].item - 1]
  <2>1. mem'[p][o] = mem[p][o] /\ Pending(p, o)
    <3>1. mem'[p][o] = mem[p][o]
      BY <1>3, <1>4, <1>6 DEF Pending
    <3>. QED
      BY <1>6, <3>1 DEF Pending
  <2>2. PICK n : n = mem[p][o].item
    OBVIOUS
  <2>3. n \in Nat /\ n > executed /\ n <= issued + 1 /\ Placed(W, p, o)
    BY <1>1, <1>6, <2>1, <2>2 DEF Pending, Ring, Written, Chain
  <2>4. CASE n <= issued
    <3>1. G[n] = G[n - 1]
      BY <2>1, <2>2, <2>4 DEF Loaded, LinkedFor
    <3>2. n - 1 \in Nat /\ n - 1 <= issued
      BY <1>1, <2>3, <2>4
    <3>. QED
      BY <1>2, <2>1, <2>2, <2>3, <2>4, <3>1, <3>2
  <2>5. CASE n = issued + 1
    <3>1. Executing
      BY <1>1, <2>2, <2>3, <2>5 DEF Placed
    <3>2. currContext = G[issued] /\ H[issued] = G[issued] /\ n - 1 = issued
      BY <1>1, <1>2, <2>5, <3>1
    <3>. QED
      BY <1>2, <2>1, <2>2, <2>5, <3>2
  <2>. QED
    BY <1>1, <2>3, <2>4, <2>5
<1>7. LinkedFor(H)'
  BY <1>5, <1>6 DEF LinkedFor
<1>8. GPUHas(H)'
  <2>1. H[executed] = G[executed]
    BY <1>1, <1>2
  <2>2. fe.kind = "buffer" => executed < issued
    <3>1. fe.kind = "buffer" => fe # Stopped
      BY DEF Stopped
    <3>. QED
      BY <3>1, WhereFEIs DEF InItsBuffer
  <2>3. executed < issued => H[executed + 1] = G[executed + 1]
    BY <1>1, <1>2
  <2>. QED
    BY <2>1, <2>2, <2>3 DEF Loaded, GPUHas
<1>9. DriverKnows(H)'
  <2>1. \A t \in Threads : t \in Actors
    BY DEF Actors
  <2>. QED
    BY <1>1, <1>2, <2>1 DEF DriverKnows
<1>. QED
  BY <1>7, <1>8, <1>9 DEF Loaded

\* A commit's buffer is linked.
LEMMA CommitLinkLoaded ==
    ASSUME NEW G \in [Nat -> AnyContext], NEW W \in [Nat -> PagePlaces], Control, Ring(W),
           Loaded(G), NEW t \in Threads, CommitLink(t)
    PROVE  \E H \in [Nat -> AnyContext] : Loaded(H)'
<1>1. t \in Actors /\ pc[t] = "link"
  BY DEF CommitLink, Actors
<1>2. PICK x \in {"events", "enter"} : Goto(t, x)
  BY DEF CommitLink
<1>3. PICK to : to = InBuffer(issued + 1, ctx[t], loading, At(index, offset))
  OBVIOUS
<1>4. LinkTo(to, 1)
  BY <1>3, EntryHere DEF CommitLink
<1>5. \A b \in Actors : b # t => pc[b] \notin InQueue
  BY <1>1, InQueueAlone DEF InQueue
<1>6. \A b \in Actors : pc'[b] = IF b = t THEN x ELSE pc[b]
  BY <1>1, <1>2, Went DEF Control, QTypes, PCs
<1>7. \A b \in Actors : pc'[b] # "link"
  BY <1>5, <1>6 DEF InQueue
<1>8. ~Executing
  BY <1>1, <1>5 DEF Executing, InQueue
<1>9. index \in Pages /\ offset + 1 <= PageSize /\ offset \in Nat
  BY <1>1, InQueueAlone, SizesAssumption DEF InQueue, Control, Shape, QTypes
<1>10. UNCHANGED <<executed, fe, gpuCtx, currContext>>
  BY DEF CommitLink, gpuVars
<1>11. currContext = ctx[t] /\ (loading <=> ctx[t] # NoContext /\ ctx[t] # G[issued])
  BY <1>1 DEF Loaded, DriverKnows
<1>12. to.kind = "buffer" /\ to.item = issued + 1 /\ to.ctx = ctx[t] /\ to.load = loading
  BY <1>3 DEF InBuffer
<1>13. to.load <=> to.ctx # NoContext /\ to.ctx # G[issued]
  BY <1>11, <1>12
<1>14. to.ctx = currContext
  BY <1>11, <1>12
<1>15. PICK size \in {1, 2} : size = 1
  OBVIOUS
<1>. QED
  BY <1>4, <1>7, <1>8, <1>9, <1>10, <1>12, <1>13, <1>14, <1>15, LinkLoaded

\* A command of the kernel is linked.
LEMMA ExecuteLoaded ==
    ASSUME NEW G \in [Nat -> AnyContext], NEW W \in [Nat -> PagePlaces], Control, Ring(W),
           Loaded(G), NEW a \in Actors, Execute(a)
    PROVE  \E H \in [Nat -> AnyContext] : Loaded(H)'
<1>1. pc[a] = "execute"
  BY DEF Execute
<1>2. PICK x \in {"loop", "space", "reserve"} : Goto(a, x)
  BY DEF Execute
<1>3. PICK to : to = At(index, offset)
  OBVIOUS
<1>4. LinkTo(to, 2) /\ to.kind = "page"
  BY <1>3, EntryHere DEF Execute, At
<1>5. \A b \in Actors : pc[b] # "link"
  BY <1>1, InQueueAlone DEF InQueue
<1>6. \A b \in Actors : pc'[b] = IF b = a THEN x ELSE pc[b]
  BY <1>1, <1>2, Went DEF Control, QTypes, PCs
<1>7. \A b \in Actors : pc'[b] # "link"
  BY <1>5, <1>6
<1>8. index \in Pages /\ offset + 2 <= PageSize /\ offset \in Nat
  BY <1>1, InQueueAlone, SizesAssumption DEF InQueue, Control, Shape, QTypes
<1>9. UNCHANGED <<executed, fe, gpuCtx, currContext>>
  BY DEF Execute, gpuVars
<1>10. currContext = G[issued]
  BY <1>5 DEF Loaded, DriverKnows
<1>11. PICK size \in {1, 2} : size = 2
  OBVIOUS
<1>. QED
  BY <1>4, <1>7, <1>8, <1>9, <1>10, <1>11, LinkLoaded

\* A command of the kernel is written, the END of a stop, and the WAIT of a start.
LEMMA FillLoaded ==
    ASSUME NEW G, Control, Loaded(G), NEW a \in Actors, Fill(a)
    PROVE  Loaded(G)'
<1>1. pc[a] = "fill" /\ Goto(a, "execute") /\ UNCHANGED <<executed, issued, fe, gpuCtx, currContext, ctx, loading>>
  BY DEF Fill, gpuVars
<1>2. index \in Pages /\ offset \in Offsets /\ offset + 1 \in Offsets /\ Shaped(mem) /\ issued \in Nat
      /\ command \in KernelCommands
  BY <1>1, InQueueAlone, SizesAssumption DEF InQueue, Control, Shape, QTypes, Offsets
<1>3. PutsTwo(mem, mem', index, offset, NewCommand, Wait)
  BY DEF Fill, PutsTwo, NewCommand
<1>4. \A p \in Pages : \A o \in Offsets :
        mem'[p][o] = mem[p][o] \/ mem'[p][o] = NewCommand \/ mem'[p][o] = Wait
  <2>1. /\ Shaped(mem')
        /\ \A p \in Pages : \A o \in Offsets :
             mem'[p][o] = IF p = index /\ o = offset THEN NewCommand
                          ELSE IF p = index /\ o = offset + 1 THEN Wait ELSE mem[p][o]
    BY <1>2, <1>3, PutTwo
  <2>. QED
    BY <2>1
<1>5. Wait.op = "wait" /\ NewCommand.op = command /\ NewCommand.item = issued + 1 /\ ~(issued + 1 <= issued)
  BY <1>2 DEF Wait, NewCommand, KernelCommand
<1>6. \A b \in Actors : pc'[b] = "link" <=> pc[b] = "link"
  BY <1>1, Went DEF Control, QTypes, PCs
<1>7. DriverKnows(G)'
  BY <1>1, <1>6 DEF Loaded, DriverKnows, Actors
<1>8. \A p \in Pages : \A o \in Offsets :
               \/ mem'[p][o] = mem[p][o]
               \/ mem'[p][o].op \in {"wait", "end"}
               \/ mem'[p][o].op \in KernelCommands /\ ~(mem'[p][o].item <= issued)
  BY <1>2, <1>4, <1>5
<1>. QED
  BY <1>1, <1>7, <1>8, WriteLoaded

\* gckCOMMAND_Stop writes an END over the last WAIT: no command of its own.
LEMMA StopLoaded ==
    ASSUME NEW G, Control, Loaded(G), Stop
    PROVE  Loaded(G)'
<1>1. /\ Power \in Actors /\ pc[Power] = "stop" /\ Goto(Power, "stopping")
      /\ UNCHANGED <<executed, issued, fe, gpuCtx, currContext, ctx, loading>>
  BY DEF Stop, gpuVars, Actors
<1>2. \A p \in Pages : \A o \in Offsets : mem'[p][o] = mem[p][o] \/ mem'[p][o] = End
  BY StopControl
<1>3. End.op = "end"
  BY DEF End
<1>4. \A b \in Actors : pc'[b] = "link" <=> pc[b] = "link"
  BY <1>1, Went DEF Control, QTypes, PCs
<1>5. DriverKnows(G)'
  BY <1>1, <1>4 DEF Loaded, DriverKnows, Actors
<1>. QED
  BY <1>1, <1>2, <1>3, <1>5, WriteLoaded

\* gckCOMMAND_Start sets the FE off at a WAIT, with the context it had.
LEMMA StartLoaded ==
    ASSUME NEW G, NEW W \in [Nat -> PagePlaces], Control, Ring(W), Loaded(G), Start
    PROVE  Loaded(G)'
<1>1. /\ Power \in Actors /\ pc[Power] = "run" /\ Goto(Power, "on") /\ ~running
      /\ fe' = At(index, offset)
      /\ UNCHANGED <<executed, issued, gpuCtx, currContext, ctx, loading>>
  BY DEF Start, Actors, Control, Locks
<1>2. /\ fe = Stopped /\ executed = issued /\ issued \in Nat
      /\ \A p \in Pages : \A o \in Offsets : ~Pending(p, o)
  BY <1>1, NotRunning DEF Control, QTypes
<1>3. \A p \in Pages : \A o \in Offsets : mem'[p][o] = mem[p][o] \/ mem'[p][o] = Wait
  BY StartControl
<1>4. Wait.op = "wait" /\ "wait" \notin KernelCommands
  BY DEF Wait, KernelCommands
<1>5. LinkedFor(G)'
  <2>1. \A p \in Pages : \A o \in Offsets : BufferAhead(p, o)' => BufferAhead(p, o) /\ mem'[p][o] = mem[p][o]
    BY <1>1, <1>3, <1>4 DEF BufferAhead
  <2>2. \A p \in Pages : \A o \in Offsets : Pending(p, o)' => Pending(p, o) /\ mem'[p][o] = mem[p][o]
    BY <1>1, <1>3, <1>4 DEF Pending
  <2>. QED
    BY <1>1, <2>1, <2>2 DEF Loaded, LinkedFor
<1>6. GPUHas(G)'
  BY <1>1, <1>2 DEF Loaded, GPUHas, At, Stopped
<1>7. \A b \in Actors : pc'[b] = "link" <=> pc[b] = "link"
  BY <1>1, Went DEF Control, QTypes, PCs
<1>8. DriverKnows(G)'
  BY <1>1, <1>7 DEF Loaded, DriverKnows, Actors
<1>. QED
  BY <1>5, <1>6, <1>8 DEF Loaded

\* The GPU comes back without a context, and the driver knows.
LEMMA InitializeLoaded ==
    ASSUME NEW G \in [Nat -> AnyContext], NEW W \in [Nat -> PagePlaces], Control, Ring(W),
           Loaded(G), InitializeHardware
    PROVE  \E H \in [Nat -> AnyContext] : Loaded(H)'
<1>1. /\ Power \in Actors /\ pc[Power] = "off" /\ Goto(Power, "start")
      /\ UNCHANGED <<mem, executed, issued, fe, ctx, loading>>
      /\ gpuCtx' = NoContext /\ currContext' = NoContext
  BY DEF InitializeHardware, Actors, queueVars
<1>2. /\ fe = Stopped /\ executed = issued /\ issued \in Nat
      /\ \A b \in Actors : pc[b] \notin InQueue
      /\ \A p \in Pages : \A o \in Offsets : ~Pending(p, o)
  BY <1>1, NotRunning DEF Control, QTypes, Locks
<1>3. PICK H : H = [G EXCEPT ![issued] = NoContext]
  OBVIOUS
<1>4. H \in [Nat -> AnyContext] /\ H[issued] = NoContext
  BY <1>2, <1>3 DEF AnyContext
<1>5. \A p \in Pages : \A o \in Offsets : ~BufferAhead(p, o)
  BY <1>2 DEF Loaded, LinkedFor, BufferAhead
<1>6. LinkedFor(H)'
  BY <1>1, <1>2, <1>5 DEF LinkedFor, BufferAhead, Pending
<1>7. GPUHas(H)'
  BY <1>1, <1>2, <1>4 DEF GPUHas, Stopped
<1>8. \A b \in Actors : pc'[b] # "link"
  BY <1>1, <1>2, Went DEF Control, QTypes, PCs, InQueue
<1>9. DriverKnows(H)'
  BY <1>1, <1>4, <1>8 DEF DriverKnows, Actors, AnyContext
<1>. QED
  BY <1>4, <1>6, <1>7, <1>9 DEF Loaded

-----------------------------------------------------------------------------
(* The FE loads a context, and executes the items in their order.          *)

\* What was linked stays as it is, and what is not executed becomes less.
LEMMA FELinked ==
    ASSUME NEW G, NEW W \in [Nat -> PagePlaces], Control, Ring(W), Loaded(G), FEFrame,
           executed' = executed \/ executed' = executed + 1
    PROVE  LinkedFor(G)'
<1>1. executed \in Nat /\ mem' = mem /\ issued' = issued
  BY DEF Control, QTypes, FEFrame
<1>2. ASSUME NEW p \in Pages, NEW o \in Offsets, BufferAhead(p, o)'
      PROVE  BufferAhead(p, o)
  <2>1. mem[p][o].to.item \notin 0 .. executed' /\ mem[p][o].op = "link" /\ mem[p][o].to.kind = "buffer"
    BY <1>1, <1>2 DEF BufferAhead
  <2>2. \A n \in 0 .. executed : n \in 0 .. executed'
    BY <1>1
  <2>. QED
    BY <2>1, <2>2 DEF BufferAhead
<1>3. ASSUME NEW p \in Pages, NEW o \in Offsets, Pending(p, o)'
      PROVE  Pending(p, o)
  BY <1>1, <1>3 DEF Pending, Ring, Written
<1>. QED
  BY <1>1, <1>2, <1>3 DEF Loaded, LinkedFor

\* What the driver knows does not depend on the FE.
LEMMA FEDriver ==
    ASSUME NEW G, Loaded(G), FEFrame, UNCHANGED <<currContext, ctx, loading>>
    PROVE  DriverKnows(G)'
  BY DEF Loaded, DriverKnows, FEFrame

\* What the FE finds behind the WAIT it has reached.
LEMMA FetchLinkLoaded ==
    ASSUME NEW G \in [Nat -> AnyContext], NEW W \in [Nat -> PagePlaces], Control, Ring(W),
           Loaded(G), FrontEnd, FetchLink
    PROVE  Loaded(G)'
<1>1. /\ FEFrame /\ UNCHANGED <<executed, gpuCtx, currContext, ctx, loading>>
      /\ fe.kind = "page" /\ Cell.op = "link" /\ fe' = Cell.to
  BY DEF FrontEnd, FetchLink, FEFrame, queueVars, actorVars
<1>2. fe # Stopped /\ Wait.op # "link" /\ End.op # "link" /\ "link" \notin KernelCommands
  BY <1>1 DEF Stopped, Wait, End, KernelCommands
<1>3. AtWait(W) /\ executed < issued /\ executed \in Nat /\ executed + 1 \in Nat
  BY <1>1, <1>2, WhereFEIs DEF Control, QTypes
<1>4. PICK w \in PagePlaces : w = W[executed]
  BY <1>3
<1>5. fe = w /\ w.page \in Pages /\ w.off \in Offsets /\ Cell = mem[w.page][w.off]
  BY <1>3, <1>4, Place DEF AtWait, Cell
<1>6. gpuCtx = G[executed]
  BY <1>1 DEF Loaded, GPUHas
<1>7. \A to : Link(to).to = to
  BY DEF Link
<1>8. CASE \E c \in Contexts \cup {NoContext}, l \in BOOLEAN :
             CellAt(W[executed]) = Link(InBuffer(executed + 1, c, l, W[executed + 1]))
  <2>1. PICK c \in Contexts \cup {NoContext}, l \in BOOLEAN :
             Cell = Link(InBuffer(executed + 1, c, l, W[executed + 1]))
    BY <1>4, <1>5, <1>8 DEF CellAt
  <2>2. fe' = InBuffer(executed + 1, c, l, W[executed + 1]) /\ fe' = Cell.to
    BY <1>1, <1>7, <2>1
  <2>3. /\ fe'.kind = "buffer" /\ fe'.item = executed + 1
        /\ Cell.to.kind = "buffer" /\ Cell.to.item = executed + 1
    BY <2>2 DEF InBuffer
  <2>4. BufferAhead(w.page, w.off)
    BY <1>1, <1>3, <1>5, <2>3 DEF BufferAhead
  <2>5. PICK n, to : n = executed + 1 /\ to = mem[w.page][w.off].to
    OBVIOUS
  <2>6. G[to.item] = to.ctx /\ (to.load <=> to.ctx # NoContext /\ to.ctx # G[to.item - 1])
    BY <1>5, <2>4, <2>5 DEF Loaded, LinkedFor
  <2>7. fe' = to /\ to.item = n /\ n - 1 = executed
    BY <1>3, <1>5, <2>2, <2>3, <2>5
  <2>8. G[executed + 1] = fe'.ctx /\ (fe'.load <=> fe'.ctx # NoContext /\ fe'.ctx # G[executed])
    BY <2>5, <2>6, <2>7
  <2>9. GPUHas(G)'
    BY <1>1, <1>6, <2>3, <2>8 DEF GPUHas
  <2>. QED
    BY <1>1, <2>9, FELinked, FEDriver DEF Loaded
<1>9. CASE CellAt(W[executed]) = Link(Before(W[executed + 1]))
  <2>1. Cell = Link(Before(W[executed + 1]))
    BY <1>4, <1>5, <1>9 DEF CellAt
  <2>2. fe' = Before(W[executed + 1])
    BY <1>1, <1>7, <2>1
  <2>3. fe'.kind = "page"
    BY <1>3, <2>2, Place
  <2>4. GPUHas(G)'
    BY <1>1, <1>6, <2>3 DEF GPUHas
  <2>. QED
    BY <1>1, <2>4, FELinked, FEDriver DEF Loaded
<1>. QED
  BY <1>3, <1>8, <1>9, LinkAhead

\* A command of the kernel leaves the state of the GPU alone.
LEMMA FetchCommandLoaded ==
    ASSUME NEW G \in [Nat -> AnyContext], NEW W \in [Nat -> PagePlaces], Control, Ring(W),
           Loaded(G), FrontEnd, FetchCommand \/ FetchPause
    PROVE  Loaded(G)'
<1>1. /\ FEFrame /\ UNCHANGED <<gpuCtx, currContext, ctx, loading>>
      /\ fe.kind = "page" /\ Cell.op \in {"event", "flush", "pause"} /\ executed' = executed + 1
  BY DEF FrontEnd, FetchCommand, FetchPause, FEFrame, queueVars, actorVars
<1>2. fe'.kind # "buffer"
  BY DEF FetchCommand, FetchPause, At, Paused
<1>3. fe # Stopped /\ Wait.op \notin {"event", "flush", "pause"} /\ End.op \notin {"event", "flush", "pause"}
  BY <1>1 DEF Stopped, Wait, End
<1>4. AtCommand(W)
  BY <1>1, <1>3, WhereFEIs
<1>5. PICK p \in Pages, o \in Offsets : p = fe.page /\ o = fe.off
  BY <1>4, OnlyCommand
<1>6. Kernel(p, o, executed + 1) /\ Pending(p, o) /\ executed < issued
  BY <1>4, <1>5, OnlyCommand
<1>7. mem[p][o].item = executed + 1 /\ executed \in Nat /\ issued \in Nat
  BY <1>6 DEF Kernel, Control, QTypes
<1>8. mem[p][o].item <= issued /\ mem[p][o].item - 1 = executed
  BY <1>6, <1>7
<1>9. G[executed + 1] = G[executed]
  BY <1>6, <1>7, <1>8 DEF Loaded, LinkedFor
<1>10. GPUHas(G)'
  BY <1>1, <1>2, <1>9 DEF Loaded, GPUHas
<1>. QED
  BY <1>1, <1>10, FELinked, FEDriver DEF Loaded

\* It goes on behind a pause, or stops at an END.
LEMMA FEGoesLoaded ==
    ASSUME NEW G \in [Nat -> AnyContext], NEW W \in [Nat -> PagePlaces], Control, Ring(W),
           Loaded(G), (FrontEnd /\ FetchEnd) \/ ResumeWaitLinkFE
    PROVE  Loaded(G)'
<1>1. /\ FEFrame /\ UNCHANGED <<executed, gpuCtx, currContext, ctx, loading>>
      /\ fe.kind # "buffer" /\ fe'.kind # "buffer"
  BY DEF FrontEnd, FetchEnd, ResumeWaitLinkFE, FEFrame, queueVars, actorVars, eventVars, At, Stopped
<1>2. GPUHas(G)'
  BY <1>1 DEF Loaded, GPUHas
<1>. QED
  BY <1>1, <1>2, FELinked, FEDriver DEF Loaded

\* The context's own buffer is executed in front of the user's.
LEMMA LoadContextLoaded ==
    ASSUME NEW G \in [Nat -> AnyContext], NEW W \in [Nat -> PagePlaces], Control, Ring(W),
           Loaded(G), FrontEnd, LoadContext
    PROVE  Loaded(G)'
<1>1. /\ FEFrame /\ UNCHANGED <<executed, currContext, ctx, loading>>
      /\ fe.kind = "buffer" /\ fe.load /\ gpuCtx' = fe.ctx /\ fe' = [fe EXCEPT !.load = FALSE]
  BY DEF FrontEnd, LoadContext, FEFrame, queueVars, actorVars
<1>2. fe # Stopped
  BY <1>1 DEF Stopped
<1>3. InItsBuffer(W)
  BY <1>1, <1>2, WhereFEIs
<1>4. PICK c \in Contexts \cup {NoContext}, l \in BOOLEAN :
          fe = InBuffer(executed + 1, c, l, W[executed + 1])
  BY <1>3 DEF InItsBuffer
<1>5. fe' = InBuffer(executed + 1, c, FALSE, W[executed + 1])
  BY <1>1, <1>4 DEF InBuffer
<1>6. fe'.kind = "buffer" /\ fe'.ctx = c /\ ~fe'.load /\ fe.ctx = c
  BY <1>4, <1>5 DEF InBuffer
<1>7. GPUHas(G)'
  BY <1>1, <1>6 DEF Loaded, GPUHas
<1>. QED
  BY <1>1, <1>7, FELinked, FEDriver DEF Loaded

\* The user's buffer leaves the state of its context, or none.
LEMMA ExecuteBufferLoaded ==
    ASSUME NEW G \in [Nat -> AnyContext], NEW W \in [Nat -> PagePlaces], Control, Ring(W),
           Loaded(G), FrontEnd, ExecuteBuffer
    PROVE  Loaded(G)'
<1>1. /\ FEFrame /\ UNCHANGED <<currContext, ctx, loading>> /\ executed' = executed + 1
      /\ fe.kind = "buffer" /\ ~fe.load /\ fe' = fe.back
      /\ gpuCtx' = IF fe.ctx = NoContext THEN NoContext ELSE gpuCtx
  BY DEF FrontEnd, ExecuteBuffer, FEFrame, queueVars, actorVars
<1>2. fe # Stopped
  BY <1>1 DEF Stopped
<1>3. InItsBuffer(W) /\ executed + 1 \in Nat
  <2>1. InItsBuffer(W)
    BY <1>1, <1>2, WhereFEIs
  <2>2. executed + 1 \in Nat
    BY DEF Control, QTypes
  <2>. QED
    BY <2>1, <2>2
<1>4. fe.back = W[executed + 1]
  BY <1>3 DEF InItsBuffer, InBuffer
<1>5. fe'.kind = "page"
  BY <1>1, <1>3, <1>4, Place
<1>6. GPUHas(G)'
  BY <1>1, <1>5 DEF Loaded, GPUHas
<1>. QED
  BY <1>1, <1>6, FELinked, FEDriver DEF Loaded

-----------------------------------------------------------------------------
(* The invariant with the contexts.                                        *)

CInv ==
    /\ Control
    /\ \E W \in [Nat -> PagePlaces] : Ring(W)
    /\ \E G \in [Nat -> AnyContext] : Loaded(G)

\* No context is loaded.
LEMMA InitLoaded ==
    ASSUME Init
    PROVE  \E G \in [Nat -> AnyContext] : Loaded(G)
<1>1. PICK G \in [Nat -> AnyContext] : G = [n \in Nat |-> NoContext]
  BY DEF AnyContext
<1>2. \A p \in Pages : \A o \in Offsets : mem[p][o].op = "none"
  BY DEF Init, Offsets, Unwritten
<1>3. LinkedFor(G)
  BY <1>2 DEF LinkedFor, BufferAhead, Pending, KernelCommands
<1>4. GPUHas(G)
  BY <1>1 DEF Init, GPUHas, Stopped
<1>5. DriverKnows(G)
  <2>1. \A a \in Actors : pc[a] # "link"
    BY DEF Init
  <2>. QED
    BY <1>1, <2>1 DEF Init, DriverKnows, Actors, AnyContext
<1>. QED
  BY <1>3, <1>4, <1>5 DEF Loaded

\* Every step leaves the contexts in order.
LEMMA StepLoaded ==
    ASSUME NEW G \in [Nat -> AnyContext], NEW W \in [Nat -> PagePlaces], Control, Ring(W),
           Loaded(G), [Next]_vars
    PROVE  \E H \in [Nat -> AnyContext] : Loaded(H)'
<1>1. ASSUME NEW t \in Threads, Commit(t) \/ UserEvents(t) \/ Stall(t)
      PROVE  \E H \in [Nat -> AnyContext] : Loaded(H)'
  BY <1>1, CommitStillLoaded, CommitWriteLoaded, CommitLinkLoaded DEF Commit
<1>2. ASSUME NEW a \in Actors, Submit(a)
      PROVE  \E H \in [Nat -> AnyContext] : Loaded(H)'
  BY <1>2, SubmitStillLoaded, FillLoaded, ExecuteLoaded DEF Submit
<1>3. ASSUME PowerManagement
      PROVE  \E H \in [Nat -> AnyContext] : Loaded(H)'
  BY <1>3, PowerStillLoaded, StopLoaded, StartLoaded, InitializeLoaded DEF PowerManagement
<1>4. ASSUME FrontEnd \/ ResumeWaitLinkFE \/ NotifyPage
      PROVE  \E H \in [Nat -> AnyContext] : Loaded(H)'
  BY <1>4, FetchLinkLoaded, FetchCommandLoaded, FEGoesLoaded, LoadContextLoaded,
     ExecuteBufferLoaded, PowerStillLoaded DEF FrontEnd
<1>5. ASSUME UNCHANGED vars
      PROVE  \E H \in [Nat -> AnyContext] : Loaded(H)'
  <2>1. UNCHANGED <<mem, executed, issued, fe, gpuCtx, currContext, pc, ctx, loading>>
    BY <1>5 DEF vars, queueVars, actorVars, gpuVars
  <2>. QED
    BY <2>1, StillLoaded
<1>. QED
  BY <1>1, <1>2, <1>3, <1>4, <1>5 DEF Next

\* A user's buffer runs on its own context, whatever commits with other contexts
\* or with none, failed commits and power transitions come between (_Commit and
\* gckCOMMAND_Commit, which go through the context's buffer only on a switch).
THEOREM ContextsLoaded == Spec => []ContextLoaded
<1>1. Init => CInv
  BY InitQInv, InitLoaded DEF QInv, CInv
<1>2. CInv /\ [Next]_vars => CInv'
  <2>1. SUFFICES ASSUME CInv, [Next]_vars
                 PROVE  CInv'
    OBVIOUS
  <2>2. Control' /\ \E W \in [Nat -> PagePlaces] : Ring(W)'
    BY <2>1, StepQInv DEF QInv, CInv
  <2>3. \E H \in [Nat -> AnyContext] : Loaded(H)'
    BY <2>1, StepLoaded DEF CInv
  <2>. QED
    BY <2>2, <2>3 DEF CInv
<1>3. CInv => ContextLoaded
  BY DEF CInv, Loaded, GPUHas, ContextLoaded
<1>. QED
  BY <1>1, <1>2, <1>3, PTL DEF Spec
=============================================================================
