------------------------- MODULE EventManagerProofs -------------------------
(***************************************************************************)
(* Theorems about EventManager, for any threads, records, slots and losses.*)
(* The inductive invariant is IInv; each action has a lemma.               *)
(* The count of the interrupts to come is a second induction, Balance.     *)
(***************************************************************************)
EXTENDS EventManager, TLAPS, SequenceTheorems, FiniteSetTheorems

\* The slots are the numbers below NumSlots, and there is one.
LEMMA SlotsAreNaturals ==
    /\ NumSlots \in Nat /\ NumSlots > 0
    /\ Slots \subseteq Nat /\ 0 \in Slots
    /\ \A i \in Int : i \in Slots <=> 0 <= i /\ i < NumSlots
BY NumSlotsAssumption DEF Slots

-----------------------------------------------------------------------------
(* Initial states. *)

\* gckEVENT_Construct leaves every variable in its type.
LEMMA InitTypes == Init => TypeOK
<1> SUFFICES ASSUME Init PROVE TypeOK
  OBVIOUS
<1> USE SlotsAreNaturals DEF Init
<1>1. ListTypes
  BY RepoCountAssumption DEF ListTypes
<1>2. SlotTypes
  <2>1. head \in [Slots -> {"null", "invalid", "records"}]
    OBVIOUS
  <2>2. recs \in [Slots -> Seq(Records)]
    OBVIOUS
  <2>3. stampOf \in [Slots -> Nat] /\ source \in [Slots -> Sources]
    BY DEF Sources
  <2>4. stamp \in Nat /\ lastID \in Slots /\ freeQueueCount \in Int
    OBVIOUS
  <2> QED BY <2>1, <2>2, <2>3, <2>4 DEF SlotTypes
<1>3. ThreadTypes
  BY DEF ThreadTypes, Positions
<1>4. GpuTypes
  BY DEF GpuTypes
<1>5. IsrTypes
  BY DEF IsrTypes
<1>6. NotifyTypes
  BY DEF NotifyTypes
<1>7. HistTypes
  BY DEF HistTypes
<1> QED
  BY <1>1, <1>2, <1>3, <1>4, <1>5, <1>6, <1>7 DEF TypeOK

\* gckEVENT_Construct establishes the invariant: all slots are free.
LEMMA InitIInv == Init => IInv
<1> SUFFICES ASSUME Init PROVE IInv
  OBVIOUS
<1>1. TypeOK
  BY InitTypes
<1>2. Locks
  BY NoThreadAssumption DEF Init, Locks
<1>3. \A i \in Slots : ~Busy(i) /\ ~InFlight(i) /\ ~Executed(i) /\ NotSubmitting(i)
  BY DEF Init, Busy, InFlight, Executed, NotSubmitting, Submitting
<1>4. SlotState
  BY <1>3 DEF Init, SlotState, Submitting
<1>5. Stamps /\ RingOrder /\ Executions
  BY <1>3 DEF Init, Stamps, RingOrder, Executions, Before
<1>6. Bits /\ NotifyState
  BY <1>3 DEF Init, Bits, NotifyState
<1>7. PassedRecords
  BY <1>3 DEF Init, PassedRecords, NoEarlyDelivery, AllPassed
<1> QED
  BY <1>1, <1>2, <1>4, <1>5, <1>6, <1>7 DEF IInv

-----------------------------------------------------------------------------
(* Frames: what steps that leave some variables alone preserve. *)

\* A group of variables that does not change keeps its type.
LEMMA TypesFrame ==
    ASSUME TypeOK
    PROVE  /\ UNCHANGED listVars => ListTypes'
           /\ UNCHANGED slotVars => SlotTypes'
           /\ UNCHANGED threadVars => ThreadTypes'
           /\ UNCHANGED gpuVars => GpuTypes'
           /\ UNCHANGED isrVars => IsrTypes'
           /\ UNCHANGED notifyVars => NotifyTypes'
           /\ UNCHANGED histVars => HistTypes'
<1> USE DEF TypeOK
<1>1. UNCHANGED listVars => ListTypes'
  BY DEF listVars, ListTypes
<1>2. UNCHANGED slotVars => SlotTypes'
  BY DEF slotVars, SlotTypes
<1>3. UNCHANGED threadVars => ThreadTypes'
  BY DEF threadVars, ThreadTypes
<1>4. UNCHANGED gpuVars => GpuTypes'
  BY DEF gpuVars, GpuTypes
<1>5. UNCHANGED isrVars => IsrTypes'
  BY DEF isrVars, IsrTypes
<1>6. UNCHANGED notifyVars => NotifyTypes'
  BY DEF notifyVars, NotifyTypes
<1>7. UNCHANGED histVars => HistTypes'
  BY DEF histVars, HistTypes
<1> QED
  BY <1>1, <1>2, <1>3, <1>4, <1>5, <1>6, <1>7

\* The parts of the invariant that do not mention the locks and the list.
EventInv == SlotState /\ Stamps /\ RingOrder /\ Executions /\ Bits /\ NotifyState /\ PassedRecords

SameSubmitters ==
    \A t \in Threads : \A i \in Slots :
        /\ Submitting(t, i)' <=> Submitting(t, i)
        /\ Submitting(t, i) => (pc'[t] = "move" <=> pc[t] = "move")

\* A step that leaves the slots, the GPU and the submitters alone.
LEMMA EventFrame ==
    ASSUME EventInv, SameSubmitters,
           UNCHANGED <<head, recs, stampOf, source, stamp, gpu, at, tail, ack, pending>>,
           UNCHANGED <<npc, snap, cur, mask, todo, delivered, passed>>,
           cur \in Slots
    PROVE  EventInv'
<1> USE DEF EventInv
<1>1. \A i \in Slots : NotSubmitting(i)' <=> NotSubmitting(i)
  BY DEF SameSubmitters, NotSubmitting
<1>2. \A i \in Slots : Busy(i)' <=> Busy(i)
  BY DEF Busy
<1>3. \A i \in Slots : InFlight(i)' <=> InFlight(i)
  BY DEF InFlight
<1>4. \A i \in Slots : Executed(i)' <=> Executed(i)
  BY <1>1, <1>2 DEF Executed
<1>5. \A i, j \in Slots : Before(i, j)' <=> Before(i, j)
  BY <1>2 DEF Before
<1>6. SlotState'
  BY <1>1, <1>3 DEF SlotState, SameSubmitters
<1>7. Stamps'
  <2>1. Stamps /\ stampOf' = stampOf /\ stamp' = stamp
    OBVIOUS
  <2> QED BY <2>1, <1>2 DEF Stamps
<1>8. RingOrder' /\ Executions'
  BY <1>3, <1>4, <1>5 DEF RingOrder, Executions
<1>9. Bits'
  BY <1>4, <1>5 DEF Bits
<1>10. NotifyState'
  BY <1>4, <1>5 DEF NotifyState
<1>11. PassedRecords'
  BY <1>4 DEF PassedRecords, NoEarlyDelivery, AllPassed
<1> QED
  BY <1>6, <1>7, <1>8, <1>9, <1>10, <1>11

\* Only the holder of the command queue submits.
LEMMA OneSubmitter ==
    ASSUME IInv
    PROVE  /\ \A t, u \in Threads : \A i \in Slots :
                pc[t] \in {"loop", "lock", "get", "move", "reserve", "exec", "link"} /\ Submitting(u, i)
                    => u = t
           /\ \A t \in Threads : \A i \in Slots : pc[t] \in {"loop", "get"} => NotSubmitting(i)
<1>1. ASSUME NEW t \in Threads, NEW u \in Threads, NEW i \in Slots,
             pc[t] \in {"loop", "lock", "get", "move", "reserve", "exec", "link"}, Submitting(u, i)
      PROVE  u = t
  <2>1. mutexQueue = t /\ mutexQueue = u
    BY <1>1 DEF IInv, Locks, Submitting
  <2> QED BY <2>1
<1>2. ASSUME NEW t \in Threads, NEW i \in Slots, pc[t] \in {"loop", "get"}
      PROVE  NotSubmitting(i)
  BY <1>1, <1>2 DEF Submitting, NotSubmitting
<1> QED BY <1>1, <1>2

-----------------------------------------------------------------------------
(* gckEVENT_Commit and gckEVENT_Submit. *)

\* gckEVENT_AddList keeps the list a list of queues of records.
LEMMA AddListStep ==
    ASSUME ListTypes, HistTypes, NEW t \in Threads, NEW r \in Records, NEW src \in Sources,
           AddList(t, r, src)
    PROVE  ListTypes' /\ HistTypes' /\ list' # <<>> /\ UNCHANGED <<listMutex, delivered, passed>>
<1> USE DEF AddList
<1>1. list' \in Seq(Queues) /\ list' # <<>> /\ freeList' \in Nat
  <2>1. CASE NeedsNewQueue(src)
    <3>1. [source |-> src, recs |-> <<r>>] \in Queues
      BY DEF Queues
    <3>2. freeList > 0 /\ freeList' = freeList - 1
      BY <2>1
    <3>3. list' = Append(list, [source |-> src, recs |-> <<r>>])
      BY <2>1
    <3>4. freeList' \in Nat
      <4>1. freeList \in Nat
        BY DEF ListTypes
      <4> HIDE DEF AddList
      <4> QED BY <3>2, <4>1
    <3>5. list' \in Seq(Queues) /\ list' # <<>>
      <4>1. list \in Seq(Queues)
        BY DEF ListTypes
      <4> HIDE DEF AddList
      <4>2. PICK q \in Queues : list' = Append(list, q)
        BY <3>1, <3>3
      <4> QED BY <4>1, <4>2
    <3> QED
      BY <3>4, <3>5
  <2>2. CASE ~NeedsNewQueue(src)
    <3>1. list \in Seq(Queues) /\ list # <<>>
      BY <2>2 DEF NeedsNewQueue, ListTypes
    <3>2. Len(list) \in DOMAIN list /\ list[Len(list)] \in Queues
      BY <3>1
    <3> DEFINE q == [list[Len(list)] EXCEPT !.recs = Append(@, r)]
    <3>3. q \in Queues
      <4>1. ASSUME NEW x \in [source : Sources, recs : Seq(Records)], NEW y \in Seq(Records)
            PROVE  [x EXCEPT !.recs = y] \in [source : Sources, recs : Seq(Records)]
        OBVIOUS
      <4>2. Append(list[Len(list)].recs, r) \in Seq(Records)
        BY <3>2 DEF Queues
      <4> QED BY <3>2, <4>1, <4>2 DEF Queues
    <3>4. list' = [list EXCEPT ![Len(list)] = q]
      <4>1. list' = [list EXCEPT ![Len(list)].recs = Append(@, r)]
        BY <2>2
      <4> QED BY <4>1, <3>1, <3>2 DEF Queues
    <3>6. freeList' = freeList
      BY <2>2
    <3> HIDE DEF q
    <3>5. list' \in Seq(Queues) /\ Len(list') = Len(list)
      BY <3>1, <3>2, <3>3, <3>4
    <3> QED
      BY <3>1, <3>5, <3>6 DEF ListTypes
  <2> QED
    BY <2>1, <2>2
<1>2. adder' \in [Records -> Threads \cup {NoThread}] /\ added' \in Seq(Records)
  BY DEF HistTypes
<1> QED
  BY <1>1, <1>2 DEF ListTypes, HistTypes

\* Steps that move one thread to another position, outside a submission or
\* from one position of it to the next.
LEMMA SubmittersFrame ==
    ASSUME ThreadTypes, NEW t \in Threads, NEW p \in Positions, UNCHANGED id,
           pc' = [pc EXCEPT ![t] = p],
           p \in {"reserve", "exec", "link"} <=> pc[t] \in {"reserve", "exec", "link"},
           p # "move", pc[t] # "move"
    PROVE  SameSubmitters /\ pc' \in [Threads -> Positions] /\ id' \in [Threads -> Slots]
<1>1. pc' \in [Threads -> Positions] /\ id' \in [Threads -> Slots]
  BY DEF ThreadTypes
<1>2. \A u \in Threads : pc'[u] = IF u = t THEN p ELSE pc[u]
  BY DEF ThreadTypes
<1>3. SameSubmitters
  BY <1>2 DEF SameSubmitters, Submitting
<1> QED
  BY <1>1, <1>3

\* A thread that only moves, and takes or releases no lock, keeps the invariant.
LEMMA MoveThread ==
    ASSUME IInv, NEW t \in Threads, NEW p \in Positions, UNCHANGED id,
           pc' = [pc EXCEPT ![t] = p],
           p \in {"reserve", "exec", "link"} <=> pc[t] \in {"reserve", "exec", "link"},
           p # "move", pc[t] # "move",
           UNCHANGED <<slotVars, gpu, at, tail, ack, pending, notifyVars, delivered, passed>>
    PROVE  /\ EventInv'
           /\ pc' \in [Threads -> Positions] /\ id' \in [Threads -> Slots]
           /\ \A u \in Threads : pc'[u] = IF u = t THEN p ELSE pc[u]
<1> ThreadTypes /\ cur \in Slots
  BY DEF IInv, TypeOK, NotifyTypes
<1>1. SameSubmitters /\ pc' \in [Threads -> Positions] /\ id' \in [Threads -> Slots]
  BY SubmittersFrame
<1>2. EventInv'
  <2>1. UNCHANGED <<head, recs, stampOf, source, stamp, gpu, at, tail, ack, pending>>
    BY DEF slotVars
  <2>2. UNCHANGED <<npc, snap, cur, mask, todo, delivered, passed>>
    BY DEF notifyVars
  <2>3. EventInv
    BY DEF IInv, EventInv
  <2> QED
    BY <1>1, <2>1, <2>2, <2>3, EventFrame
<1>3. \A u \in Threads : pc'[u] = IF u = t THEN p ELSE pc[u]
  BY DEF ThreadTypes
<1> QED
  BY <1>1, <1>2, <1>3

\* Steps that only move the thread.
LEMMA PlainStep ==
    ASSUME IInv, NEW t \in Threads,
           StartCommit(t) \/ EndRecords(t) \/ SubmitCheck(t) \/ Reserve(t)
    PROVE  IInv'
<1>1. PICK p \in Positions :
        /\ pc' = [pc EXCEPT ![t] = p] /\ p # "move" /\ pc[t] # "move"
        /\ p \in {"reserve", "exec", "link"} <=> pc[t] \in {"reserve", "exec", "link"}
        /\ p \in {"loop", "reserve", "exec", "link"} <=> pc[t] \in {"loop", "reserve", "exec", "link"}
        /\ p \notin {"lock", "get"} /\ pc[t] \notin {"lock", "get"}
  BY DEF StartCommit, EndRecords, SubmitCheck, Reserve, Positions
<1>2. /\ UNCHANGED <<listVars, slotVars, mutexQueue, id, gpuVars, isrVars, notifyVars>>
      /\ UNCHANGED histVars
  BY DEF StartCommit, EndRecords, SubmitCheck, Reserve
<1>3. /\ EventInv'
      /\ pc' \in [Threads -> Positions] /\ id' \in [Threads -> Slots]
      /\ \A u \in Threads : pc'[u] = IF u = t THEN p ELSE pc[u]
  BY <1>1, <1>2, MoveThread DEF gpuVars, isrVars, histVars
<1>4. TypeOK'
  <2>1. ThreadTypes'
    BY <1>2, <1>3 DEF ThreadTypes, IInv, TypeOK
  <2> QED
    BY <1>2, <2>1, TypesFrame DEF IInv, TypeOK
<1>5. Locks'
  BY <1>1, <1>2, <1>3 DEF IInv, Locks, listVars, notifyVars
<1> QED
  BY <1>3, <1>4, <1>5 DEF IInv, EventInv

\* Steps that add a record to the list.
LEMMA RecordStep ==
    ASSUME IInv, NEW t \in Threads,
           CommitRecord(t) \/ ForceRecord(t) \/ ReserveNewQueue(t)
    PROVE  IInv'
<1>1. PICK r \in Records, src \in Sources : AddList(t, r, src)
  BY DEF CommitRecord, ForceRecord, ReserveNewQueue, Unused, Sources
<1>2. PICK p \in Positions :
        /\ pc' = [pc EXCEPT ![t] = p] /\ p # "move" /\ pc[t] # "move"
        /\ p \in {"reserve", "exec", "link"} <=> pc[t] \in {"reserve", "exec", "link"}
        /\ p \in {"loop", "reserve", "exec", "link"} <=> pc[t] \in {"loop", "reserve", "exec", "link"}
        /\ p \notin {"lock", "get"} /\ pc[t] \notin {"lock", "get"}
  <2>1. CASE CommitRecord(t)
    <3>1. pc' = pc /\ pc[t] = "add" /\ pc \in [Threads -> Positions]
      BY <2>1 DEF CommitRecord, threadVars, IInv, TypeOK, ThreadTypes
    <3>2. pc' = [pc EXCEPT ![t] = "add"]
      BY <3>1
    <3> QED BY <3>1, <3>2 DEF Positions
  <2>2. CASE ForceRecord(t)
    BY <2>2 DEF ForceRecord, Positions
  <2>3. CASE ReserveNewQueue(t)
    BY <2>3 DEF ReserveNewQueue, Positions
  <2> QED BY <2>1, <2>2, <2>3
<1>3. UNCHANGED <<slotVars, mutexQueue, id, gpuVars, isrVars, notifyVars>>
  BY DEF CommitRecord, ForceRecord, ReserveNewQueue, threadVars
<1>4. ListTypes' /\ HistTypes' /\ list' # <<>> /\ UNCHANGED <<listMutex, delivered, passed>>
  BY <1>1, AddListStep DEF IInv, TypeOK
<1>5. /\ EventInv'
      /\ pc' \in [Threads -> Positions] /\ id' \in [Threads -> Slots]
      /\ \A u \in Threads : pc'[u] = IF u = t THEN p ELSE pc[u]
  BY <1>2, <1>3, <1>4, MoveThread DEF gpuVars, isrVars
<1>6. TypeOK'
  <2>1. ThreadTypes'
    BY <1>3, <1>5 DEF ThreadTypes, IInv, TypeOK
  <2> QED
    BY <1>3, <1>4, <2>1, TypesFrame DEF IInv, TypeOK
<1>7. Locks'
  BY <1>2, <1>3, <1>4, <1>5 DEF IInv, Locks, notifyVars
<1> QED
  BY <1>5, <1>6, <1>7 DEF IInv, EventInv

\* Steps that take and release the command queue and the list.
LEMMA LockStep ==
    ASSUME IInv, NEW t \in Threads,
           EnterCommit(t) \/ SubmitNext(t) \/ LockList(t) \/ ExitCommit(t) \/ CountInterrupt(t)
    PROVE  IInv'
<1>1. PICK p \in Positions :
        /\ pc' = [pc EXCEPT ![t] = p] /\ p # "move" /\ pc[t] # "move"
        /\ p \in {"reserve", "exec", "link"} <=> pc[t] \in {"reserve", "exec", "link"}
  BY DEF EnterCommit, SubmitNext, LockList, ExitCommit, CountInterrupt, Positions
<1>2. UNCHANGED <<slotVars, id, gpuVars, pending, sema, notifyVars, histVars, list, freeList>>
  BY DEF EnterCommit, SubmitNext, LockList, ExitCommit, CountInterrupt, listVars, isrVars
<1>3. /\ EventInv'
      /\ pc' \in [Threads -> Positions] /\ id' \in [Threads -> Slots]
      /\ \A u \in Threads : pc'[u] = IF u = t THEN p ELSE pc[u]
  BY <1>1, <1>2, MoveThread DEF gpuVars, histVars
<1>4. TypeOK'
  <2>1. ThreadTypes'
    BY <1>3 DEF EnterCommit, SubmitNext, LockList, ExitCommit, CountInterrupt, ThreadTypes, IInv, TypeOK
  <2>2. ListTypes'
    BY DEF EnterCommit, SubmitNext, LockList, ExitCommit, CountInterrupt, listVars, ListTypes, IInv, TypeOK
  <2>3. IsrTypes'
    BY DEF EnterCommit, SubmitNext, LockList, ExitCommit, CountInterrupt, isrVars, IsrTypes, IInv, TypeOK
  <2> QED
    BY <1>2, <2>1, <2>2, <2>3, TypesFrame DEF IInv, TypeOK
<1>5. Locks'
  <2> pc \in [Threads -> Positions] /\ queueMutex' = queueMutex /\ npc' = npc /\ list' = list
    BY <1>2 DEF IInv, TypeOK, ThreadTypes, notifyVars
  <2>1. CASE EnterCommit(t)
    BY <2>1, NoThreadAssumption DEF EnterCommit, IInv, Locks, listVars
  <2>2. CASE SubmitNext(t)
    BY <2>2 DEF SubmitNext, IInv, Locks, listVars
  <2>3. CASE ExitCommit(t)
    BY <2>3, NoThreadAssumption DEF ExitCommit, IInv, Locks, listVars
  <2>4. CASE CountInterrupt(t)
    BY <2>4 DEF CountInterrupt, IInv, Locks, listVars
  <2>5. CASE LockList(t)
    BY <2>5, NoThreadAssumption DEF LockList, IInv, Locks
  <2> QED
    BY <2>1, <2>2, <2>3, <2>4, <2>5
<1> QED
  BY <1>3, <1>4, <1>5 DEF IInv, EventInv

\* A new event has the largest stamp, so it comes before none.
LEMMA GetEventStep ==
    ASSUME IInv, NEW t \in Threads, GetEvent(t)
    PROVE  IInv'
<1> TypeOK /\ Locks /\ SlotState /\ Stamps /\ RingOrder /\ Executions /\ Bits /\ NotifyState
    /\ PassedRecords
  BY DEF IInv
<1>1. PICK i \in Slots :
        /\ head[i] = "null"
        /\ head' = [head EXCEPT ![i] = "invalid"]
        /\ stampOf' = [stampOf EXCEPT ![i] = stamp + 1]
        /\ source' = [source EXCEPT ![i] = list[1].source]
        /\ lastID' = (i + 1) % NumSlots
        /\ id' = [id EXCEPT ![t] = i]
  BY DEF GetEvent, NextFree, Free, NextID
<1>2. /\ pc[t] = "get" /\ queueMutex = "free" /\ pc' = [pc EXCEPT ![t] = "move"]
      /\ stamp' = stamp + 1 /\ freeQueueCount' = freeQueueCount - 1
      /\ UNCHANGED <<listVars, recs, mutexQueue, gpuVars, isrVars, notifyVars, histVars>>
  BY DEF GetEvent
<1>3. list # <<>> /\ list[1] \in Queues
  BY <1>2 DEF Locks, TypeOK, ListTypes
<1>4. TypeOK'
  <2>1. SlotTypes'
    <3>1. /\ head' \in [Slots -> {"null", "invalid", "records"}] /\ recs' \in [Slots -> Seq(Records)]
          /\ stampOf' \in [Slots -> Nat] /\ stamp' \in Nat /\ freeQueueCount' \in Int
      BY <1>1, <1>2 DEF TypeOK, SlotTypes
    <3>2. source' \in [Slots -> Sources]
      BY <1>1, <1>3 DEF TypeOK, SlotTypes, Queues
    <3>3. lastID' \in Slots
      BY <1>1, NumSlotsAssumption DEF Slots
    <3> QED BY <3>1, <3>2, <3>3 DEF SlotTypes
  <2>2. ThreadTypes'
    BY <1>1, <1>2 DEF TypeOK, ThreadTypes, Positions
  <2> QED
    BY <1>2, <2>1, <2>2, TypesFrame DEF TypeOK
<1>5. Locks'
  BY <1>2 DEF Locks, TypeOK, ThreadTypes, listVars, notifyVars
<1>6. \A j \in Slots : NotSubmitting(j)
  BY <1>2, OneSubmitter
<1>7. \A u \in Threads : \A j \in Slots : Submitting(u, j)' <=> u = t /\ j = i
  BY <1>1, <1>2, <1>6 DEF Submitting, NotSubmitting, TypeOK, ThreadTypes
<1>8. \A j \in Slots : NotSubmitting(j)' <=> j # i
  BY <1>7 DEF NotSubmitting
<1>9. \A j \in Slots : Busy(j)' <=> Busy(j) \/ j = i
  BY <1>1 DEF Busy, TypeOK, SlotTypes
<1>10. ~Busy(i) /\ ~Executed(i) /\ ~InFlight(i) /\ gpu[i] = "done"
  BY <1>1 DEF Busy, Executed, SlotState, InFlight, TypeOK, GpuTypes
<1>11. \A j \in Slots : InFlight(j)' <=> InFlight(j)
  BY <1>2 DEF InFlight, gpuVars
<1>12. \A j \in Slots : Executed(j)' <=> Executed(j)
  BY <1>2, <1>6, <1>8, <1>9, <1>10 DEF Executed, gpuVars
<1>13. \A j \in Slots : /\ j # i => stampOf'[j] = stampOf[j] /\ source'[j] = source[j]
                        /\ stampOf'[i] = stamp + 1 /\ stampOf[j] <= stamp
                        /\ stampOf[j] \in Nat /\ stamp \in Nat
  BY <1>1 DEF Stamps, TypeOK, SlotTypes
<1>14. \A j, k \in Slots : Before(j, k)' /\ k # i => Before(j, k)
  BY <1>9, <1>13 DEF Before
<1>15. SlotState'
  <2>1. \A j \in Slots : head'[j] = IF j = i THEN "invalid" ELSE head[j]
    BY <1>1 DEF TypeOK, SlotTypes
  <2>2. pc'[t] = "move" /\ gpu' = gpu /\ stampOf'[i] = stamp'
    BY <1>2, <1>13 DEF TypeOK, ThreadTypes, gpuVars
  <2>3. \A j \in Slots : head'[j] = "invalid" => ~NotSubmitting(j)'
    BY <1>6, <1>8, <2>1 DEF SlotState
  <2>4. \A j \in Slots : InFlight(j)' => head'[j] = "records" /\ NotSubmitting(j)'
    BY <1>8, <1>10, <1>11, <2>1 DEF SlotState
  <2> QED
    BY <1>7, <1>10, <2>1, <2>2, <2>3, <2>4 DEF SlotState
<1>16. Stamps'
  BY <1>2, <1>9, <1>13 DEF Stamps
<1>17. RingOrder'
  BY <1>2, <1>10, <1>11, <1>13 DEF RingOrder, gpuVars, InFlight
<1>18. Executions'
  BY <1>2, <1>8, <1>12, <1>14 DEF Executions, Executed, gpuVars
<1>19. Bits'
  BY <1>2, <1>10, <1>12, <1>14 DEF Bits, gpuVars, isrVars
<1>20. NotifyState'
  <2> npc \notin {"pick", "scan"} /\ npc' = npc
    BY <1>2 DEF Locks, notifyVars
  <2> QED
    BY DEF NotifyState
<1>21. PassedRecords'
  BY <1>2, <1>12 DEF PassedRecords, NoEarlyDelivery, AllPassed, notifyVars, histVars
<1> QED
  BY <1>4, <1>5, <1>15, <1>16, <1>17, <1>18, <1>19, <1>20, <1>21 DEF IInv

\* A reserved slot receives its records before anyone else can look at it.
LEMMA MoveQueueStep ==
    ASSUME IInv, NEW t \in Threads, MoveQueue(t)
    PROVE  IInv'
<1> TypeOK /\ Locks /\ SlotState /\ Stamps /\ RingOrder /\ Executions /\ Bits /\ NotifyState
    /\ PassedRecords
  BY DEF IInv
<1> DEFINE i == id[t]
<1>1. /\ pc[t] = "move" /\ pc' = [pc EXCEPT ![t] = "reserve"]
      /\ head' = [head EXCEPT ![i] = "records"]
      /\ recs' = [recs EXCEPT ![i] = list[1].recs]
      /\ list' = Tail(list) /\ freeList' = freeList + 1 /\ listMutex' = NoThread
      /\ UNCHANGED <<stampOf, source, stamp, lastID, freeQueueCount, mutexQueue, id,
                     gpuVars, isrVars, notifyVars, histVars>>
  BY DEF MoveQueue
<1>2. i \in Slots /\ Submitting(t, i) /\ head[i] = "invalid"
  BY <1>1 DEF TypeOK, ThreadTypes, Submitting, SlotState
<1> HIDE DEF i
<1>3. list # <<>> /\ list[1] \in Queues /\ Tail(list) \in Seq(Queues)
  BY <1>1 DEF Locks, TypeOK, ListTypes
<1>4. TypeOK'
  <2>1. SlotTypes'
    BY <1>1, <1>2, <1>3 DEF TypeOK, SlotTypes, Queues
  <2>2. ThreadTypes'
    BY <1>1 DEF TypeOK, ThreadTypes, Positions
  <2>3. ListTypes'
    BY <1>1, <1>3 DEF TypeOK, ListTypes
  <2> QED
    BY <1>1, <2>1, <2>2, <2>3, TypesFrame DEF TypeOK
<1>5. Locks'
  BY <1>1, NoThreadAssumption DEF Locks, TypeOK, ThreadTypes, notifyVars
<1>6. \A u \in Threads : \A j \in Slots : Submitting(u, j) => u = t /\ j = i
  BY <1>1, <1>2, OneSubmitter DEF Submitting, i
<1>7. \A u \in Threads : \A j \in Slots : Submitting(u, j)' <=> Submitting(u, j)
  BY <1>1 DEF Submitting, TypeOK, ThreadTypes
<1>8. \A j \in Slots : NotSubmitting(j)' <=> NotSubmitting(j)
  BY <1>7 DEF NotSubmitting
<1>9. \A j \in Slots : Busy(j)' <=> Busy(j)
  BY <1>1, <1>2 DEF Busy, TypeOK, SlotTypes
<1>10. \A j \in Slots : InFlight(j)' <=> InFlight(j)
  BY <1>1 DEF InFlight, gpuVars
<1>11. \A j \in Slots : Executed(j)' <=> Executed(j)
  BY <1>1, <1>8, <1>9 DEF Executed, gpuVars
<1>12. \A j, k \in Slots : Before(j, k)' <=> Before(j, k)
  BY <1>1, <1>9 DEF Before
<1>13. SlotState'
  <2>1. \A j \in Slots : head'[j] = IF j = i THEN "records" ELSE head[j]
    BY <1>1, <1>2 DEF TypeOK, SlotTypes
  <2>2. \A u \in Threads : u # t => pc'[u] = pc[u]
    BY <1>1 DEF TypeOK, ThreadTypes
  <2>3. pc'[t] = "reserve"
    BY <1>1 DEF TypeOK, ThreadTypes
  <2>4. gpu' = gpu /\ stampOf' = stampOf /\ stamp' = stamp
    BY <1>1 DEF gpuVars
  <2> QED
    BY <1>2, <1>6, <1>7, <1>8, <1>10, <2>1, <2>2, <2>3, <2>4 DEF SlotState
<1>14. Stamps' /\ RingOrder'
  BY <1>1, <1>9, <1>10 DEF Stamps, RingOrder, gpuVars
<1>15. Executions' /\ Bits'
  BY <1>1, <1>11, <1>12 DEF Executions, Bits, gpuVars, isrVars
<1>16. NotifyState'
  BY <1>1, <1>11, <1>12 DEF NotifyState, gpuVars, isrVars, notifyVars, TypeOK, NotifyTypes
<1>17. PassedRecords'
  <2>1. \A j \in Slots : Executed(j) => recs'[j] = recs[j]
    BY <1>1, <1>2 DEF Executed, NotSubmitting, TypeOK, SlotTypes
  <2> QED
    BY <1>1, <1>11, <2>1 DEF PassedRecords, NoEarlyDelivery, AllPassed, notifyVars, histVars
<1> QED
  BY <1>4, <1>5, <1>13, <1>14, <1>15, <1>16, <1>17 DEF IInv

\* The command is written behind all others, with the largest stamp.
LEMMA ExecuteStep ==
    ASSUME IInv, NEW t \in Threads, Execute(t)
    PROVE  IInv'
<1> TypeOK /\ Locks /\ SlotState /\ Stamps /\ RingOrder /\ Executions /\ Bits /\ NotifyState
    /\ PassedRecords
  BY DEF IInv
<1> DEFINE i == id[t]
<1>1. /\ pc[t] = "link" /\ pc' = [pc EXCEPT ![t] = "loop"]
      /\ gpu' = [gpu EXCEPT ![i] = "ring"]
      /\ at' = [at EXCEPT ![i] = tail] /\ tail' = tail + 1
      /\ UNCHANGED <<listVars, slotVars, mutexQueue, id, ack, lost, isrVars, notifyVars, histVars>>
  BY DEF Execute
<1>2. i \in Slots /\ Submitting(t, i) /\ head[i] = "records" /\ gpu[i] = "done"
      /\ stampOf[i] = stamp
  BY <1>1 DEF TypeOK, ThreadTypes, Submitting, SlotState
<1> HIDE DEF i
<1>3. TypeOK'
  <2>1. GpuTypes'
    BY <1>1, <1>2 DEF TypeOK, GpuTypes
  <2>2. ThreadTypes'
    BY <1>1 DEF TypeOK, ThreadTypes, Positions
  <2> QED
    BY <1>1, <2>1, <2>2, TypesFrame DEF TypeOK
<1>4. Locks'
  BY <1>1 DEF Locks, TypeOK, ThreadTypes, listVars, notifyVars
<1>5. \A u \in Threads : \A j \in Slots : Submitting(u, j) => u = t /\ j = i
  BY <1>1, <1>2, OneSubmitter DEF Submitting, i
<1>6. \A u \in Threads : \A j \in Slots : ~Submitting(u, j)'
  BY <1>1, <1>5 DEF Submitting, TypeOK, ThreadTypes
<1>7. \A j \in Slots : NotSubmitting(j)' /\ (NotSubmitting(j) <=> j # i)
  BY <1>2, <1>5, <1>6 DEF NotSubmitting
<1>8. /\ \A j \in Slots : gpu'[j] = IF j = i THEN "ring" ELSE gpu[j]
      /\ \A j \in Slots : at'[j] = IF j = i THEN tail ELSE at[j]
  BY <1>1, <1>2 DEF TypeOK, GpuTypes
<1>9. head' = head /\ stampOf' = stampOf /\ source' = source /\ stamp' = stamp /\ recs' = recs
  BY <1>1 DEF slotVars
<1>10. \A j \in Slots : Busy(j)' <=> Busy(j)
  BY <1>9 DEF Busy
<1>11. \A j \in Slots : InFlight(j)' <=> InFlight(j) \/ j = i
  BY <1>8 DEF InFlight
<1>12. \A j \in Slots : Executed(j)' <=> Executed(j)
  BY <1>7, <1>8, <1>10 DEF Executed
<1>13. \A j, k \in Slots : Before(j, k)' <=> Before(j, k)
  BY <1>9, <1>10 DEF Before
<1>14. \A j \in Slots : stampOf[j] \in Nat /\ stampOf[j] <= stampOf[i] /\ at[j] \in Nat /\ tail \in Nat
  BY <1>2 DEF Stamps, TypeOK, SlotTypes, GpuTypes
<1>15. SlotState'
  BY <1>2, <1>6, <1>7, <1>9, <1>11 DEF SlotState
<1>16. Stamps'
  BY <1>9, <1>10 DEF Stamps
<1>17. RingOrder'
  <2>1. \A j \in Slots : InFlight(j)' => at'[j] < tail'
    BY <1>1, <1>8, <1>11, <1>14 DEF RingOrder
  <2>2. \A j \in Slots : gpu'[j] = "pipe" => source'[j] = gcvKERNEL_PIXEL
    BY <1>8, <1>9 DEF RingOrder
  <2>3. \A j, k \in Slots : InFlight(j)' /\ InFlight(k)' /\ stampOf'[j] < stampOf'[k] => at'[j] < at'[k]
    BY <1>8, <1>9, <1>11, <1>14 DEF RingOrder
  <2>4. \A j, k \in Slots : gpu'[j] = "pipe" /\ gpu'[k] = "ring" => at'[j] < at'[k]
    BY <1>8, <1>14 DEF RingOrder, InFlight
  <2> QED
    BY <2>1, <2>2, <2>3, <2>4 DEF RingOrder
<1>18. Executions'
  <2> SUFFICES ASSUME NEW j \in Slots, NEW k \in Slots, Before(j, k), Executed(k)
               PROVE  gpu'[j] = "done"
    BY <1>12, <1>13 DEF Executions
  <2>1. gpu[j] = "done"
    BY DEF Executions
  <2>2. j # i
    BY <1>2, <1>14 DEF Before
  <2> QED
    BY <1>8, <2>1, <2>2
<1>19. Bits'
  BY <1>1, <1>12, <1>13 DEF Bits, isrVars
<1>20. NotifyState'
  BY <1>1, <1>12, <1>13 DEF NotifyState, isrVars, notifyVars, TypeOK, NotifyTypes
<1>21. PassedRecords'
  BY <1>1, <1>9, <1>12 DEF PassedRecords, NoEarlyDelivery, AllPassed, notifyVars, histVars
<1> QED
  BY <1>3, <1>4, <1>15, <1>16, <1>17, <1>18, <1>19, <1>20, <1>21 DEF IInv

-----------------------------------------------------------------------------
(* The GPU. *)

\* An event that is raised when every earlier one has been executed.
LEMMA RaiseStep ==
    ASSUME IInv, NEW i \in Slots, InFlight(i), Raise(i),
           \A j \in Slots : Before(j, i) => gpu[j] = "done",
           UNCHANGED <<listVars, slotVars, threadVars, isrVars, notifyVars>>
    PROVE  IInv'
<1> TypeOK /\ Locks /\ SlotState /\ Stamps /\ RingOrder /\ Executions /\ Bits /\ NotifyState
    /\ PassedRecords
  BY DEF IInv
<1>1. /\ gpu' = [gpu EXCEPT ![i] = "done"] /\ passed' = passed \cup Elements(recs[i])
      /\ ack' \subseteq ack \cup {i} /\ ack \subseteq ack' /\ lost' \in {lost, lost + 1}
      /\ UNCHANGED <<at, tail, adder, added, delivered>>
  BY DEF Raise
<1>2. /\ UNCHANGED <<head, recs, stampOf, source, stamp, pc, id, pending>>
      /\ UNCHANGED <<npc, snap, cur, mask, todo>>
  BY DEF slotVars, threadVars, isrVars, notifyVars
<1>3. TypeOK'
  <2>1. GpuTypes'
    BY <1>1 DEF TypeOK, GpuTypes
  <2>2. HistTypes'
    <3>1. Elements(recs[i]) \subseteq Records
      BY DEF TypeOK, SlotTypes, Elements
    <3> QED BY <1>1, <3>1 DEF TypeOK, HistTypes
  <2> QED
    BY <2>1, <2>2, TypesFrame DEF TypeOK
<1>4. Locks'
  BY DEF Locks, listVars, threadVars, notifyVars
<1>5. \A u \in Threads : \A j \in Slots : Submitting(u, j)' <=> Submitting(u, j)
  BY <1>2 DEF Submitting
<1>6. \A j \in Slots : NotSubmitting(j)' <=> NotSubmitting(j)
  BY <1>5 DEF NotSubmitting
<1>7. \A j \in Slots : gpu'[j] = IF j = i THEN "done" ELSE gpu[j]
  BY <1>1 DEF TypeOK, GpuTypes
<1>8. Busy(i) /\ head[i] = "records" /\ NotSubmitting(i) /\ gpu[i] # "done" /\ ~Executed(i)
  BY DEF SlotState, InFlight, Busy, Executed
<1>9. \A j \in Slots : Busy(j)' <=> Busy(j)
  BY <1>2 DEF Busy
<1>10. \A j \in Slots : InFlight(j)' <=> InFlight(j) /\ j # i
  BY <1>7 DEF InFlight
<1>11. \A j \in Slots : Executed(j)' <=> Executed(j) \/ j = i
  BY <1>6, <1>7, <1>8, <1>9 DEF Executed
<1>12. \A j, k \in Slots : Before(j, k)' <=> Before(j, k)
  BY <1>2, <1>9 DEF Before
<1>13. \A j \in Slots : Before(i, j) => ~Executed(j)
  BY <1>8 DEF Executions
<1>14. SlotState'
  BY <1>2, <1>5, <1>6, <1>7, <1>8, <1>10 DEF SlotState
<1>15. Stamps'
  BY <1>2, <1>9 DEF Stamps
<1>16. RingOrder'
  BY <1>1, <1>2, <1>7, <1>10 DEF RingOrder
<1>17. Executions'
  BY <1>7, <1>11, <1>12 DEF Executions
<1>18. i \notin ack \cup pending
  BY <1>8 DEF Bits
<1>19. Bits'
  <2>1. \A j \in Slots \cap (ack' \cup pending') : Executed(j)'
    BY <1>1, <1>2, <1>11 DEF Bits
  <2>2. ack' \cap pending' \cap Slots = {}
    BY <1>1, <1>2, <1>18 DEF Bits
  <2>3. \A j, k \in Slots : Before(j, k)' /\ k \in pending' => j \notin ack'
    BY <1>1, <1>2, <1>12, <1>13 DEF Bits
  <2> QED BY <2>1, <2>2, <2>3 DEF Bits
<1>20. NotifyState'
  <2> cur \in Slots
    BY DEF TypeOK, NotifyTypes
  <2>1. CASE npc = "pick"
    <3>1. \A k \in Slots : k \in snap => Executed(k)
      BY <2>1 DEF NotifyState, Bits
    <3> QED
      BY <1>1, <1>2, <1>12, <1>13, <2>1, <3>1 DEF NotifyState
  <2>2. CASE npc = "scan"
    BY <1>1, <1>2, <1>8, <1>11, <1>12, <1>13, <2>2 DEF NotifyState
  <2> QED
    BY <1>2, <2>1, <2>2 DEF NotifyState
<1>21. PassedRecords'
  <2>1. \A k \in DOMAIN recs[i] : recs[i][k] \in passed'
    BY <1>1 DEF Elements
  <2> QED
    BY <1>1, <1>2, <1>11, <2>1 DEF PassedRecords, NoEarlyDelivery, AllPassed
<1> QED
  BY <1>3, <1>4, <1>14, <1>15, <1>16, <1>17, <1>19, <1>20, <1>21 DEF IInv

\* The oldest event of the pixel pipe has none before it left to execute.
LEMMA PixelEventStep ==
    ASSUME IInv, NEW i \in Slots, PixelEvent(i)
    PROVE  IInv'
<1> SlotState /\ RingOrder /\ TypeOK /\ Stamps
  BY DEF IInv
<1>1. gpu[i] = "pipe" /\ InFlight(i) /\ Raise(i)
      /\ UNCHANGED <<listVars, slotVars, threadVars, isrVars, notifyVars>>
  BY DEF PixelEvent, Oldest, InFlight
<1>2. ASSUME NEW j \in Slots, Before(j, i) PROVE gpu[j] = "done"
  <2>1. SUFFICES ASSUME InFlight(j) PROVE FALSE
    BY DEF TypeOK, GpuTypes, InFlight
  <2>2. at[j] < at[i] /\ at[i] \in Nat /\ at[j] \in Nat
    BY <1>1, <1>2, <2>1 DEF RingOrder, Before, TypeOK, GpuTypes
  <2> QED
    BY <1>1, <2>1, <2>2 DEF PixelEvent, Oldest, RingOrder, InFlight
<1> QED
  BY <1>1, <1>2, RaiseStep

\* The front end executes the oldest command: a COMMAND event is raised past the pipe.
LEMMA FrontEndEventStep ==
    ASSUME IInv, NEW i \in Slots, FrontEndEvent(i)
    PROVE  IInv'
<1> TypeOK /\ Locks /\ SlotState /\ Stamps /\ RingOrder /\ Executions /\ Bits /\ NotifyState
    /\ PassedRecords
  BY DEF IInv
<1>1. gpu[i] = "ring" /\ InFlight(i) /\ \A j \in Slots : gpu[j] = "ring" => at[i] <= at[j]
      /\ UNCHANGED <<listVars, slotVars, threadVars, isrVars, notifyVars>>
  BY DEF FrontEndEvent, Oldest, InFlight
<1>2. CASE source[i] = gcvKERNEL_COMMAND
  <2>1. Raise(i)
    BY <1>2 DEF FrontEndEvent
  <2>2. ASSUME NEW j \in Slots, Before(j, i) PROVE gpu[j] = "done"
    <3>1. SUFFICES ASSUME InFlight(j) PROVE FALSE
      BY DEF TypeOK, GpuTypes, InFlight
    <3>2. source[j] <= 0
      BY <1>2, <2>2 DEF Before, gcvKERNEL_COMMAND
    <3>3. gpu[j] = "ring"
      BY <3>1, <3>2 DEF RingOrder, InFlight, gcvKERNEL_PIXEL
    <3>4. at[j] < at[i] /\ at[i] \in Nat /\ at[j] \in Nat
      BY <1>1, <2>2, <3>1 DEF RingOrder, Before, TypeOK, GpuTypes
    <3> QED
      BY <1>1, <3>3, <3>4
  <2> QED
    BY <1>1, <2>1, <2>2, RaiseStep
<1>3. CASE source[i] # gcvKERNEL_COMMAND
  <2>1. gpu' = [gpu EXCEPT ![i] = "pipe"] /\ UNCHANGED <<at, tail, ack, lost, histVars>>
    BY <1>3 DEF FrontEndEvent
  <2>2. /\ UNCHANGED <<head, recs, stampOf, source, stamp, pc, id, pending>>
        /\ UNCHANGED <<npc, snap, cur, mask, todo, delivered, passed>>
    BY <1>1, <2>1 DEF slotVars, threadVars, isrVars, notifyVars, histVars
  <2>3. TypeOK'
    <3>1. GpuTypes'
      BY <2>1 DEF TypeOK, GpuTypes
    <3> QED
      BY <1>1, <2>1, <3>1, TypesFrame DEF TypeOK
  <2>4. Locks'
    BY <1>1 DEF Locks, listVars, threadVars, notifyVars
  <2>5. \A u \in Threads : \A j \in Slots : Submitting(u, j)' <=> Submitting(u, j)
    BY <2>2 DEF Submitting
  <2>6. \A j \in Slots : NotSubmitting(j)' <=> NotSubmitting(j)
    BY <2>5 DEF NotSubmitting
  <2>7. \A j \in Slots : gpu'[j] = IF j = i THEN "pipe" ELSE gpu[j]
    BY <2>1 DEF TypeOK, GpuTypes
  <2>8. \A j \in Slots : (Busy(j)' <=> Busy(j)) /\ (InFlight(j)' <=> InFlight(j))
    BY <1>1, <2>2, <2>7 DEF Busy, InFlight
  <2>9. \A j \in Slots : (gpu'[j] = "done" <=> gpu[j] = "done") /\ (Executed(j)' <=> Executed(j))
    BY <1>1, <2>6, <2>7, <2>8 DEF Executed
  <2>10. \A j, k \in Slots : Before(j, k)' <=> Before(j, k)
    BY <2>2, <2>8 DEF Before
  <2>11. SlotState' /\ Stamps'
    BY <2>2, <2>5, <2>6, <2>8, <2>9 DEF SlotState, Stamps
  <2>12. RingOrder'
    <3>1. \A j \in Slots : gpu'[j] = "pipe" => source'[j] = gcvKERNEL_PIXEL
      BY <1>3, <2>2, <2>7 DEF RingOrder, TypeOK, SlotTypes, Sources
    <3>2. ASSUME NEW k \in Slots, gpu[k] = "ring", k # i PROVE at[i] < at[k]
      <4>1. InFlight(k) /\ Busy(k) /\ Busy(i)
        BY <1>1, <3>2 DEF InFlight, SlotState, Busy
      <4>2. stampOf[i] # stampOf[k] /\ stampOf[i] \in Nat /\ stampOf[k] \in Nat
        BY <3>2, <4>1 DEF Stamps, TypeOK, SlotTypes
      <4>3. at[i] \in Nat /\ at[k] \in Nat /\ at[i] <= at[k]
        BY <1>1, <3>2 DEF TypeOK, GpuTypes
      <4> QED
        BY <1>1, <4>1, <4>2, <4>3 DEF RingOrder
    <3>3. \A j, k \in Slots : gpu'[j] = "pipe" /\ gpu'[k] = "ring" => at'[j] < at'[k]
      BY <2>1, <2>7, <3>2 DEF RingOrder
    <3> QED
      BY <2>1, <2>2, <2>8, <3>1, <3>3 DEF RingOrder
  <2>13. Executions' /\ Bits'
    BY <2>1, <2>2, <2>9, <2>10 DEF Executions, Bits
  <2>14. NotifyState' /\ PassedRecords'
    BY <2>1, <2>2, <2>9, <2>10 DEF NotifyState, PassedRecords, NoEarlyDelivery, AllPassed,
                                   TypeOK, NotifyTypes
  <2> QED
    BY <2>3, <2>4, <2>11, <2>12, <2>13, <2>14 DEF IInv
<1> QED
  BY <1>2, <1>3

-----------------------------------------------------------------------------
(* The interrupt routine and gckEVENT_Notify: none moves a thread.         *)

\* A step that leaves the threads, the slots and the GPU's progress alone.
LEMMA QuietStep ==
    ASSUME IInv, UNCHANGED <<listVars, slotVars, threadVars, gpu, at, tail, passed>>
    PROVE  /\ UNCHANGED <<head, recs, stampOf, source, stamp>>
           /\ \A i \in Slots : Executed(i)' <=> Executed(i)
           /\ \A i, j \in Slots : Before(i, j)' <=> Before(i, j)
           /\ SlotState' /\ Stamps' /\ RingOrder' /\ Executions'
<1> SlotState /\ Stamps /\ RingOrder /\ Executions
  BY DEF IInv
<1>1. UNCHANGED <<head, recs, stampOf, source, stamp, pc, id>>
  BY DEF slotVars, threadVars
<1>2. \A u \in Threads : \A j \in Slots : Submitting(u, j)' <=> Submitting(u, j)
  BY <1>1 DEF Submitting
<1>3. \A j \in Slots : NotSubmitting(j)' <=> NotSubmitting(j)
  BY <1>2 DEF NotSubmitting
<1>4. \A j \in Slots : (Busy(j)' <=> Busy(j)) /\ (InFlight(j)' <=> InFlight(j))
  BY <1>1 DEF Busy, InFlight
<1>5. \A j \in Slots : Executed(j)' <=> Executed(j)
  BY <1>3, <1>4 DEF Executed
<1>6. \A j, k \in Slots : Before(j, k)' <=> Before(j, k)
  BY <1>1, <1>4 DEF Before
<1>7. SlotState' /\ Stamps'
  BY <1>1, <1>2, <1>3, <1>4 DEF SlotState, Stamps
<1>8. RingOrder' /\ Executions'
  BY <1>1, <1>4, <1>5, <1>6 DEF RingOrder, Executions
<1> QED
  BY <1>1, <1>5, <1>6, <1>7, <1>8

\* An error bit is not a slot.
LEMMA BusErrorStep ==
    ASSUME IInv, BusError
    PROVE  IInv'
<1> TypeOK /\ Locks /\ Bits /\ NotifyState /\ PassedRecords /\ cur \in Slots
  BY DEF IInv, TypeOK, NotifyTypes
<1>1. PICK e \in ErrorBits : ack' = ack \cup {e}
  BY DEF BusError
<1>2. e \notin Slots
  BY ErrorBitsAssumption
<1>3. /\ UNCHANGED <<listVars, slotVars, threadVars, gpu, at, tail, lost, isrVars, notifyVars, histVars>>
      /\ UNCHANGED <<pending, npc, snap, cur, mask, todo, delivered, passed>>
  BY DEF BusError, isrVars, notifyVars, histVars
<1>5. /\ UNCHANGED recs /\ \A i \in Slots : Executed(i)' <=> Executed(i)
      /\ \A i, j \in Slots : Before(i, j)' <=> Before(i, j)
      /\ SlotState' /\ Stamps' /\ RingOrder' /\ Executions'
  BY <1>3, QuietStep
<1>6. TypeOK'
  <2>1. GpuTypes'
    BY <1>1, <1>3 DEF TypeOK, GpuTypes
  <2> QED
    BY <1>3, <2>1, TypesFrame DEF TypeOK
<1>7. Locks'
  BY <1>3 DEF Locks, listVars, threadVars, notifyVars
<1>8. Bits'
  BY <1>1, <1>2, <1>3, <1>5 DEF Bits
<1>9. NotifyState'
  BY <1>1, <1>2, <1>3, <1>5 DEF NotifyState
<1>10. PassedRecords'
  BY <1>3, <1>5 DEF PassedRecords, NoEarlyDelivery, AllPassed
<1> QED
  BY <1>5, <1>6, <1>7, <1>8, <1>9, <1>10 DEF IInv

\* The bits of the register are those of events raised after all in the mask.
LEMMA InterruptStep ==
    ASSUME IInv, Interrupt
    PROVE  IInv'
<1> TypeOK /\ Locks /\ Bits /\ NotifyState /\ PassedRecords /\ cur \in Slots
  BY DEF IInv, TypeOK, NotifyTypes
<1>1. /\ pending' = pending \cup ack /\ ack' = {} /\ sema' = sema + 1
      /\ interruptCount' = interruptCount - Cardinality(ack \cap Slots)
  BY DEF Interrupt
<1>2. /\ UNCHANGED <<listVars, slotVars, threadVars, gpu, at, tail, lost, notifyVars, histVars>>
      /\ UNCHANGED <<npc, snap, cur, mask, todo, delivered, passed>>
  BY DEF Interrupt, notifyVars, histVars
<1>3. /\ UNCHANGED recs /\ \A i \in Slots : Executed(i)' <=> Executed(i)
      /\ \A i, j \in Slots : Before(i, j)' <=> Before(i, j)
      /\ SlotState' /\ Stamps' /\ RingOrder' /\ Executions'
  BY <1>2, QuietStep
<1>4. TypeOK'
  <2>1. GpuTypes'
    BY <1>1, <1>2 DEF TypeOK, GpuTypes
  <2>2. IsrTypes'
    <3>1. ack \cap Slots \subseteq 0 .. NumSlots - 1 /\ NumSlots - 1 \in Int
      BY NumSlotsAssumption DEF Slots
    <3>2. IsFiniteSet(0 .. NumSlots - 1)
      BY <3>1, FS_Interval
    <3>3. IsFiniteSet(ack \cap Slots)
      BY <3>1, <3>2, FS_Subset
    <3>4. Cardinality(ack \cap Slots) \in Nat
      BY <3>3, FS_CardinalityType
    <3> QED BY <1>1, <3>4 DEF TypeOK, GpuTypes, IsrTypes
  <2> QED
    BY <1>2, <2>1, <2>2, TypesFrame DEF TypeOK
<1>5. Locks'
  BY <1>2 DEF Locks, listVars, threadVars, notifyVars
<1>6. Bits'
  BY <1>1, <1>3 DEF Bits
<1>7. NotifyState'
  BY <1>1, <1>2, <1>3 DEF NotifyState
<1>8. PassedRecords'
  BY <1>2, <1>3 DEF PassedRecords, NoEarlyDelivery, AllPassed
<1> QED
  BY <1>3, <1>4, <1>5, <1>6, <1>7, <1>8 DEF IInv

\* The mask read under eventQueueMutex holds whole prefixes of the events.
LEMMA NotifyReadStep ==
    ASSUME IInv, NotifyWake \/ NotifyRead \/ NotifyDone
    PROVE  IInv'
<1> TypeOK /\ Locks /\ Bits /\ NotifyState /\ PassedRecords /\ cur \in Slots
  BY DEF IInv, TypeOK, NotifyTypes
<1>1. /\ UNCHANGED <<listVars, slotVars, threadVars, gpuVars, gpu, at, tail, pending,
                     interruptCount, ack, cur, mask, scan, todo, histVars, passed, delivered>>
  BY DEF NotifyWake, NotifyRead, NotifyDone, gpuVars, histVars, isrVars
<1>2. /\ UNCHANGED recs /\ \A i \in Slots : Executed(i)' <=> Executed(i)
      /\ \A i, j \in Slots : Before(i, j)' <=> Before(i, j)
      /\ SlotState' /\ Stamps' /\ RingOrder' /\ Executions'
  BY <1>1, QuietStep
<1>3. TypeOK'
  <2>1. IsrTypes'
    BY DEF TypeOK, IsrTypes, NotifyWake, NotifyRead, NotifyDone, isrVars
  <2>2. NotifyTypes'
    BY DEF TypeOK, NotifyTypes, IsrTypes, NotifyWake, NotifyRead, NotifyDone
  <2> QED
    BY <1>1, <2>1, <2>2, TypesFrame DEF TypeOK
<1>4. Locks'
  <2>1. (queueMutex = "held" <=> npc \in {"pick", "scan"})'
    BY DEF Locks, NotifyWake, NotifyRead, NotifyDone
  <2> QED
    BY <1>1, <2>1 DEF Locks, listVars, threadVars
<1>5. Bits'
  BY <1>1, <1>2 DEF Bits
<1>6. NotifyState'
  <2>1. npc' # "scan"
    BY DEF NotifyWake, NotifyRead, NotifyDone
  <2>2. npc' = "pick" => snap' = pending \ ErrorBits
    BY DEF NotifyWake, NotifyRead, NotifyDone
  <2>3. \A i \in Slots : i \notin ErrorBits
    BY ErrorBitsAssumption
  <2> QED
    BY <1>1, <1>2, <2>1, <2>2, <2>3 DEF NotifyState, Bits
<1>7. PassedRecords'
  BY <1>1, <1>2 DEF PassedRecords, NoEarlyDelivery, AllPassed
<1> QED
  BY <1>2, <1>3, <1>4, <1>5, <1>6, <1>7 DEF IInv

\* The oldest raised slot has no earlier event with a bit in the masks.
LEMMA NotifyPickStep ==
    ASSUME IInv, NotifyPick
    PROVE  IInv'
<1> TypeOK /\ Locks /\ Bits /\ NotifyState /\ PassedRecords /\ cur \in Slots
  BY DEF IInv, TypeOK, NotifyTypes
<1>1. /\ npc = "pick"
      /\ UNCHANGED <<listVars, slotVars, threadVars, gpuVars, gpu, at, tail,
                     interruptCount, sema, ack, todo, snap, histVars, passed, delivered>>
  BY DEF NotifyPick, gpuVars, histVars
<1>2. /\ UNCHANGED <<head, recs, stampOf, source>> /\ \A i \in Slots : Executed(i)' <=> Executed(i)
      /\ \A i, j \in Slots : Before(i, j)' <=> Before(i, j)
      /\ SlotState' /\ Stamps' /\ RingOrder' /\ Executions'
  BY <1>1, QuietStep
<1>3. pending' \subseteq pending
  BY DEF NotifyPick
<1>4. TypeOK'
  <2>1. IsrTypes'
    BY <1>1, <1>3 DEF TypeOK, IsrTypes
  <2>2. NotifyTypes'
    <3>1. queueMutex' \in {"free", "held"} /\ npc' \in {"wait", "top", "pick", "scan", "handle"}
      BY DEF TypeOK, NotifyTypes, NotifyPick
    <3>2. cur' \in Slots /\ mask' \subseteq Slots
      BY DEF TypeOK, NotifyTypes, NotifyPick
    <3>3. scan' = scan \/ scan' = 0
      BY DEF NotifyPick
    <3>4. scan' \in 0 .. NumSlots
      BY <3>3, NumSlotsAssumption DEF TypeOK, NotifyTypes
    <3> QED
      BY <1>1, <3>1, <3>2, <3>4 DEF TypeOK, NotifyTypes
  <2> QED
    BY <1>1, <2>1, <2>2, TypesFrame DEF TypeOK
<1>5. Locks'
  <2>1. (queueMutex = "held" <=> npc \in {"pick", "scan"})'
    BY DEF Locks, NotifyPick
  <2> QED
    BY <1>1, <2>1 DEF Locks, listVars, threadVars
<1>6. Bits'
  BY <1>1, <1>2, <1>3 DEF Bits
<1>7. NotifyState'
  <2>1. CASE \A i \in Slots : ~Raised(i)
    BY <2>1 DEF NotifyPick, OldestRaised, NotifyState
  <2>2. CASE ~\A i \in Slots : ~Raised(i)
    <3>1. PICK i \in Slots : OldestRaised(i) /\ cur' = i /\ mask' = {i} /\ npc' = "scan"
                             /\ pending' = pending
      BY <2>2 DEF NotifyPick
    <3>2. i \in snap /\ i \in pending /\ Executed(i) /\ i \notin ack
      BY <1>1, <3>1 DEF OldestRaised, Raised, NotifyState, Bits
    <3>3. ASSUME NEW j \in Slots, Before(j, i) PROVE j \notin ack \cup pending
      <4>1. stampOf[j] \in Nat /\ stampOf[i] \in Nat
        BY DEF TypeOK, SlotTypes
      <4>2. j \notin snap
        BY <3>1, <3>3, <4>1 DEF OldestRaised, Raised, Before, Busy
      <4> QED
        BY <1>1, <3>2, <3>3, <4>2 DEF NotifyState
    <3> QED
      BY <1>1, <1>2, <3>1, <3>2, <3>3 DEF NotifyState
  <2> QED
    BY <2>1, <2>2
<1>8. PassedRecords'
  BY <1>1, <1>2 DEF PassedRecords, NoEarlyDelivery, AllPassed
<1> QED
  BY <1>2, <1>4, <1>5, <1>6, <1>7, <1>8 DEF IInv

\* A slot found missing has been executed: it comes before one that has.
LEMMA NotifyScanStep ==
    ASSUME IInv, NotifyScan
    PROVE  IInv'
<1> TypeOK /\ Locks /\ SlotState /\ Stamps /\ Executions /\ Bits /\ NotifyState /\ PassedRecords
    /\ cur \in Slots
  BY DEF IInv, TypeOK, NotifyTypes
<1>1. /\ npc = "scan" /\ npc' = "scan" /\ scan < NumSlots /\ scan' = scan + 1
      /\ UNCHANGED <<listVars, slotVars, threadVars, gpuVars, gpu, at, tail, isrVars, queueMutex,
                     pending, ack, snap, todo, histVars, passed, delivered>>
  BY DEF NotifyScan, gpuVars, isrVars, histVars
<1>2. /\ UNCHANGED <<head, recs, stampOf, source>> /\ \A i \in Slots : Executed(i)' <=> Executed(i)
      /\ \A i, j \in Slots : Before(i, j)' <=> Before(i, j)
      /\ SlotState' /\ Stamps' /\ RingOrder' /\ Executions'
  BY <1>1, QuietStep
<1>3. scan \in Slots /\ scan + 1 \in 0 .. NumSlots
  BY <1>1, SlotsAreNaturals DEF TypeOK, NotifyTypes
<1>4. TypeOK'
  <2>1. NotifyTypes'
    BY <1>1, <1>3 DEF TypeOK, NotifyTypes, NotifyScan
  <2> QED
    BY <1>1, <2>1, TypesFrame DEF TypeOK
<1>5. Locks'
  BY <1>1 DEF Locks, listVars, threadVars
<1>6. Bits'
  BY <1>1, <1>2 DEF Bits
<1>7. NotifyState'
  <2>1. CASE Missed(scan, cur)
    <3>1. cur' = scan /\ mask' = {}
      BY <2>1 DEF NotifyScan
    <3>2. Executed(cur) /\ \A i \in Slots : Before(i, cur) => i \notin ack \cup pending
      BY <1>1 DEF NotifyState
    <3>3. Before(scan, cur)
      BY <1>3, <2>1, <3>2 DEF Missed, Before, Busy, Executed
    <3>4. gpu[scan] = "done"
      BY <1>3, <3>2, <3>3 DEF Executions
    <3>8. /\ stampOf[scan] \in Nat /\ stampOf[cur] \in Nat /\ stamp \in Nat
          /\ stampOf[scan] < stampOf[cur] /\ stampOf[cur] <= stamp
      BY <1>3, <3>3 DEF Before, Stamps, TypeOK, SlotTypes
    <3>5. NotSubmitting(scan)
      BY <1>3, <3>8 DEF SlotState, NotSubmitting
    <3>6. Executed(scan) /\ scan \notin ack \cup pending
      BY <1>3, <3>2, <3>3, <3>4, <3>5 DEF Executed, Before
    <3>7. ASSUME NEW i \in Slots, Before(i, scan) PROVE Before(i, cur)
      <4>1. /\ stampOf[i] \in Nat /\ source[i] \in Nat
            /\ stampOf[scan] \in Nat /\ source[scan] \in Nat
            /\ stampOf[cur] \in Nat /\ source[cur] \in Nat
        <5>1. \A c \in Sources : c \in Nat
          BY DEF Sources, gcvKERNEL_COMMAND, gcvKERNEL_PIXEL
        <5> QED
          BY <1>3, <5>1 DEF TypeOK, SlotTypes
      <4> QED
        BY <4>1, <3>3, <3>7 DEF Before
    <3> QED
      BY <1>1, <1>2, <1>3, <3>1, <3>2, <3>6, <3>7 DEF NotifyState
  <2>2. CASE ~Missed(scan, cur)
    <3>1. cur' = cur /\ mask' = mask
      BY <2>2 DEF NotifyScan
    <3> QED
      BY <1>1, <1>2, <3>1 DEF NotifyState
  <2> QED
    BY <2>1, <2>2
<1>8. PassedRecords'
  BY <1>1, <1>2 DEF PassedRecords, NoEarlyDelivery, AllPassed
<1> QED
  BY <1>2, <1>4, <1>5, <1>6, <1>7, <1>8 DEF IInv

\* The claimed slot is executed, and none of its bits stays behind.
LEMMA NotifyClaimStep ==
    ASSUME IInv, NotifyClaim
    PROVE  IInv'
<1> TypeOK /\ Locks /\ SlotState /\ Stamps /\ RingOrder /\ Executions /\ Bits /\ NotifyState
    /\ PassedRecords /\ cur \in Slots
  BY DEF IInv, TypeOK, NotifyTypes
<1>1. /\ npc = "scan" /\ npc' = "handle" /\ queueMutex' = "free"
      /\ pending' = pending \ mask /\ todo' = recs[cur]
      /\ head' = [head EXCEPT ![cur] = "null"] /\ recs' = [recs EXCEPT ![cur] = <<>>]
      /\ freeQueueCount' = freeQueueCount + 1
      /\ UNCHANGED <<listVars, stampOf, source, stamp, lastID, threadVars, gpuVars,
                     interruptCount, sema, snap, cur, mask, scan, histVars>>
  BY DEF NotifyClaim
<1>2. UNCHANGED <<pc, id, gpu, at, tail, ack, delivered, passed>>
  BY <1>1 DEF threadVars, gpuVars, histVars
<1>3. Executed(cur) /\ cur \notin ack /\ cur \notin pending'
  BY <1>1 DEF NotifyState
<1>4. TypeOK'
  <2>1. SlotTypes'
    BY <1>1 DEF TypeOK, SlotTypes
  <2>2. IsrTypes'
    BY <1>1 DEF TypeOK, IsrTypes
  <2>3. NotifyTypes'
    BY <1>1 DEF TypeOK, NotifyTypes, SlotTypes
  <2> QED
    BY <1>1, <2>1, <2>2, <2>3, TypesFrame DEF TypeOK
<1>5. Locks'
  BY <1>1 DEF Locks, listVars, threadVars
<1>6. \A u \in Threads : \A j \in Slots : Submitting(u, j)' <=> Submitting(u, j)
  BY <1>2 DEF Submitting
<1>7. \A j \in Slots : NotSubmitting(j)' <=> NotSubmitting(j)
  BY <1>6 DEF NotSubmitting
<1>8. \A j \in Slots : head'[j] = IF j = cur THEN "null" ELSE head[j]
  BY <1>1 DEF TypeOK, SlotTypes
<1>9. \A j \in Slots : /\ Busy(j)' <=> Busy(j) /\ j # cur
                       /\ InFlight(j)' <=> InFlight(j)
                       /\ InFlight(j) => j # cur
  BY <1>2, <1>3, <1>8 DEF Busy, InFlight, Executed
<1>10. \A j \in Slots : Executed(j)' <=> Executed(j) /\ j # cur
  BY <1>2, <1>7, <1>9 DEF Executed
<1>11. \A j, k \in Slots : Before(j, k)' => Before(j, k)
  BY <1>1, <1>9 DEF Before
<1>12. \A u \in Threads : ~Submitting(u, cur)
  BY <1>3 DEF Executed, NotSubmitting
<1>13. SlotState'
  BY <1>1, <1>2, <1>6, <1>7, <1>8, <1>9, <1>12 DEF SlotState
<1>14. Stamps'
  BY <1>1, <1>9 DEF Stamps
<1>15. RingOrder'
  BY <1>1, <1>2, <1>9 DEF RingOrder
<1>16. Executions'
  BY <1>2, <1>10, <1>11 DEF Executions
<1>17. Bits'
  BY <1>1, <1>2, <1>3, <1>10, <1>11 DEF Bits
<1>18. NotifyState'
  BY <1>1 DEF NotifyState
<1>19. PassedRecords'
  <2>1. \A j \in Slots : j # cur => recs'[j] = recs[j]
    BY <1>1 DEF TypeOK, SlotTypes
  <2> QED
    BY <1>1, <1>2, <1>3, <1>10, <2>1 DEF PassedRecords, NoEarlyDelivery, AllPassed
<1> QED
  BY <1>4, <1>5, <1>13, <1>14, <1>15, <1>16, <1>17, <1>18, <1>19 DEF IInv

\* The records performed are those of a claimed, so executed, slot.
LEMMA NotifyRecordStep ==
    ASSUME IInv, NotifyRecord
    PROVE  IInv'
<1> TypeOK /\ Locks /\ Bits /\ NotifyState /\ PassedRecords /\ cur \in Slots
  BY DEF IInv, TypeOK, NotifyTypes
<1>1. /\ npc = "handle" /\ npc' = npc /\ todo # <<>>
      /\ delivered' = Append(delivered, todo[1]) /\ todo' = Tail(todo)
      /\ UNCHANGED <<listVars, slotVars, threadVars, gpuVars, isrVars, queueMutex,
                     snap, cur, mask, scan, adder, added, passed>>
  BY DEF NotifyRecord
<1>2. UNCHANGED <<gpu, at, tail, ack, pending>>
  BY <1>1 DEF gpuVars, isrVars
<1>3. /\ UNCHANGED recs /\ \A i \in Slots : Executed(i)' <=> Executed(i)
      /\ \A i, j \in Slots : Before(i, j)' <=> Before(i, j)
      /\ SlotState' /\ Stamps' /\ RingOrder' /\ Executions'
  BY <1>1, <1>2, QuietStep
<1>4. /\ todo \in Seq(Records) /\ delivered \in Seq(Records) /\ Len(todo) > 0
      /\ todo[1] \in Records
  BY <1>1 DEF TypeOK, NotifyTypes, HistTypes
<1>5. TypeOK'
  <2>1. NotifyTypes'
    BY <1>1, <1>4 DEF TypeOK, NotifyTypes
  <2>2. HistTypes'
    BY <1>1, <1>4 DEF TypeOK, HistTypes
  <2> QED
    BY <1>1, <2>1, <2>2, TypesFrame DEF TypeOK
<1>6. Locks'
  BY <1>1 DEF Locks, listVars, threadVars
<1>7. Bits'
  BY <1>2, <1>3 DEF Bits
<1>8. NotifyState'
  BY <1>1 DEF NotifyState
<1>9. PassedRecords'
  <2>1. AllPassed(todo) /\ AllPassed(delivered)
    BY DEF PassedRecords, NoEarlyDelivery
  <2>2. todo[1] \in passed
    BY <1>4, <2>1 DEF AllPassed
  <2>3. \A k \in DOMAIN Tail(todo) : Tail(todo)[k] \in passed
    BY <1>1, <1>4, <2>1 DEF AllPassed
  <2>4. \A k \in DOMAIN Append(delivered, todo[1]) : Append(delivered, todo[1])[k] \in passed
    BY <1>4, <2>1, <2>2 DEF AllPassed
  <2> QED
    BY <1>1, <1>3, <2>3, <2>4 DEF PassedRecords, NoEarlyDelivery, AllPassed
<1> QED
  BY <1>3, <1>5, <1>6, <1>7, <1>8, <1>9 DEF IInv

-----------------------------------------------------------------------------
(* Every step, and the theorems. *)

\* A step of a thread, the GPU or the interrupt path, or none, keeps IInv.
LEMMA NextIInv == IInv /\ [Next]_vars => IInv'
<1> SUFFICES ASSUME IInv, [Next]_vars PROVE IInv'
  OBVIOUS
<1>1. ASSUME NEW t \in Threads, Commit(t) PROVE IInv'
  BY <1>1, PlainStep, RecordStep DEF Commit
<1>2. ASSUME NEW t \in Threads, Submit(t) PROVE IInv'
  BY <1>2, PlainStep, RecordStep, LockStep, GetEventStep, MoveQueueStep, ExecuteStep DEF Submit
<1>3. CASE GPU
  BY <1>3, FrontEndEventStep, PixelEventStep DEF GPU
<1>4. CASE BusError
  BY <1>4, BusErrorStep
<1>5. CASE Interrupt
  BY <1>5, InterruptStep
<1>6. CASE Notify
  BY <1>6, NotifyReadStep, NotifyPickStep, NotifyScanStep, NotifyClaimStep, NotifyRecordStep
  DEF Notify
<1>7. CASE UNCHANGED vars
  <2> TypeOK /\ Locks /\ Bits /\ NotifyState /\ PassedRecords
    BY DEF IInv
  <2>1. UNCHANGED <<listVars, slotVars, threadVars, gpuVars, isrVars, notifyVars, histVars>>
    BY <1>7 DEF vars
  <2>2. UNCHANGED <<gpu, at, tail, ack, pending, npc, snap, cur, mask, todo, delivered, passed>>
    BY <2>1 DEF gpuVars, isrVars, notifyVars, histVars
  <2>3. /\ UNCHANGED recs /\ \A i \in Slots : Executed(i)' <=> Executed(i)
        /\ \A i, j \in Slots : Before(i, j)' <=> Before(i, j)
        /\ SlotState' /\ Stamps' /\ RingOrder' /\ Executions'
    BY <2>1, <2>2, QuietStep
  <2>4. TypeOK'
    BY <2>1, TypesFrame DEF TypeOK
  <2>5. Locks'
    BY <2>1 DEF Locks, listVars, threadVars, notifyVars
  <2>6. Bits'
    BY <2>2, <2>3 DEF Bits
  <2>8. NotifyState'
    <3>1. npc' = npc /\ snap' = snap /\ cur' = cur /\ mask' = mask /\ pending' = pending /\ ack' = ack
      BY <2>2
    <3>2. cur \in Slots
      BY DEF TypeOK, NotifyTypes
    <3> QED
      BY <3>1, <3>2, <2>3 DEF NotifyState
  <2>7. PassedRecords'
    BY <2>2, <2>3 DEF PassedRecords, NoEarlyDelivery, AllPassed
  <2> QED
    BY <2>3, <2>4, <2>5, <2>6, <2>7, <2>8 DEF IInv
<1> QED
  BY <1>1, <1>2, <1>3, <1>4, <1>5, <1>6, <1>7 DEF Next

\* IInv holds in every reachable state.
LEMMA IInvAlways == Spec => []IInv
<1>1. Init => IInv
  BY InitIInv
<1>2. IInv /\ [Next]_vars => IInv'
  BY NextIInv
<1> QED
  BY <1>1, <1>2, PTL DEF Spec

\* The variables hold values of their types: the slot Submit and Notify work
\* on exists, and every record handled is a record.
THEOREM TypeCorrect == Spec => []TypeOK
<1>1. IInv => TypeOK
  BY DEF IInv
<1> QED
  BY <1>1, IInvAlways, PTL

\* gckEVENT_Submit finds the queue it tested for once it holds eventListMutex,
\* although it tests queueHead without that mutex: only the thread that has
\* the command queue takes queues off the list.
THEOREM SubmitFindsQueue == Spec => []SubmitSeesQueue
<1>1. IInv => SubmitSeesQueue
  BY DEF IInv, Locks, SubmitSeesQueue
<1> QED
  BY <1>1, IInvAlways, PTL

\* Records are performed only after the GPU has executed their EVENT, however
\* the threads, the GPU and the interrupts interleave and whatever is lost.
THEOREM NeverEarly == Spec => []NoEarlyDelivery
<1>1. IInv => NoEarlyDelivery
  BY DEF IInv, PassedRecords
<1> QED
  BY <1>1, IInvAlways, PTL

\* No interrupt bit outlives the event it was raised for.
THEOREM NeverStale == Spec => []NoStaleInterrupt
<1>1. ASSUME IInv PROVE NoStaleInterrupt
  <2> TypeOK /\ SlotState /\ Bits
    BY <1>1 DEF IInv
  <2> SUFFICES ASSUME NEW i \in Slots, i \in ack \cup pending
               PROVE  head[i] = "records" /\ gpu[i] = "done" /\ NotSubmitting(i)
    BY DEF NoStaleInterrupt, NotSubmitting
  <2>2. head[i] # "null" /\ gpu[i] = "done" /\ NotSubmitting(i)
    BY DEF Bits, Executed, Busy
  <2>3. head[i] \in {"null", "invalid", "records"} /\ head[i] # "invalid"
    BY <2>2 DEF TypeOK, SlotTypes, SlotState
  <2> QED
    BY <2>2, <2>3
<1>2. IInv => NoStaleInterrupt
  BY <1>1
<1> QED
  BY <1>2, IInvAlways, PTL

\* gckEVENT_Notify never walks a slot that is empty or only reserved.
THEOREM NeverClaimsEmpty == Spec => []ClaimsRecords
<1>1. ASSUME IInv, npc = "scan" PROVE head[cur] = "records"
  <2>1. cur \in Slots /\ Executed(cur)
    BY <1>1 DEF IInv, TypeOK, NotifyTypes, NotifyState
  <2>2. head[cur] \in {"null", "invalid", "records"}
    BY <1>1, <2>1 DEF IInv, TypeOK, SlotTypes
  <2> QED
    BY <1>1, <2>1, <2>2 DEF IInv, SlotState, Executed, Busy
<1>2. IInv => ClaimsRecords
  BY <1>1 DEF ClaimsRecords
<1> QED
  BY <1>2, IInvAlways, PTL

-----------------------------------------------------------------------------
(* The queues of the list. *)

\* AddList keeps the queues of the list in the order of the pipe.
LEMMA AddListQueues ==
    ASSUME ListTypes, RepoQueuesSuffice, NEW t \in Threads, NEW r \in Records,
           NEW src \in Sources, AddList(t, r, src)
    PROVE  RepoQueuesSuffice'
<1> list \in Seq(Queues) /\ freeList \in Nat /\ RepoCount \in Nat
  BY RepoCountAssumption DEF ListTypes
<1>1. CASE NeedsNewQueue(src)
  <2>1. /\ freeList' = freeList - 1
        /\ list' = Append(list, [source |-> src, recs |-> <<r>>])
    BY <1>1 DEF AddList
  <2>2. /\ Len(list') = Len(list) + 1
        /\ \A k \in 1 .. Len(list) : list'[k] = list[k]
        /\ list'[Len(list) + 1].source = src
    BY <2>1
  <2>3. Len(list) <= 1 /\ (Len(list) = 1 => list[1].source < src)
    <3>1. \A c \in Sources : c = 0 \/ c = 4
      BY DEF Sources, gcvKERNEL_COMMAND, gcvKERNEL_PIXEL
    <3>2. Len(list) \in Nat /\ \A k \in 1 .. Len(list) : list[k].source \in Sources
      <4>1. ASSUME NEW k \in 1 .. Len(list) PROVE list[k].source \in Sources
        <5>1. list[k] \in Queues
          OBVIOUS
        <5> QED
          BY <5>1 DEF Queues
      <4> QED
        BY <4>1
    <3>3. CASE list = <<>>
      BY <3>3
    <3>4. CASE list # <<>>
      <4>1. Len(list) >= 1 /\ list[Len(list)].source < src
        BY <1>1, <3>4 DEF NeedsNewQueue
      <4>2. CASE Len(list) = 2
        <5>1. list[1].source < list[2].source /\ list[2].source < src
          BY <4>1, <4>2 DEF RepoQueuesSuffice
        <5>2. list[1].source \in Sources /\ list[2].source \in Sources
          BY <3>2, <4>2
        <5> QED
          BY <3>1, <5>1, <5>2
      <4>3. CASE Len(list) = 1
        BY <4>1, <4>3
      <4>4. Len(list) = 1 \/ Len(list) = 2
        <5>1. Len(list) <= 2
          BY DEF RepoQueuesSuffice
        <5>2. Len(list) \in Nat
          OBVIOUS
        <5>3. Len(list) # 0
          BY <3>4
        <5>4. \A n \in Nat : n <= 2 /\ n # 0 => n = 1 \/ n = 2
          OBVIOUS
        <5> QED
          BY <5>1, <5>2, <5>3, <5>4, Zenon
      <4> QED
        BY <4>2, <4>3, <4>4
    <3> QED
      BY <3>3, <3>4
  <2> QED
    BY <2>1, <2>2, <2>3 DEF RepoQueuesSuffice
<1>2. CASE ~NeedsNewQueue(src)
  <2>1. /\ UNCHANGED freeList
        /\ list' = [list EXCEPT ![Len(list)].recs = Append(@, r)]
    BY <1>2 DEF AddList
  <2>2. Len(list') = Len(list)
    BY <2>1
  <2>3. \A k \in 1 .. Len(list) : list'[k].source = list[k].source
    BY <2>1 DEF Queues
  <2> QED
    BY <2>1, <2>2, <2>3 DEF RepoQueuesSuffice
<1> QED
  BY <1>1, <1>2

\* gckEVENT_AllocateQueue always finds a free queue, for any number of threads
\* and records: the list never holds more than one queue of each source.
THEOREM QueuesSuffice == Spec => []RepoQueuesSuffice
<1>1. Init => RepoQueuesSuffice
  BY RepoCountAssumption DEF Init, RepoQueuesSuffice
<1>2. ASSUME IInv, RepoQueuesSuffice, [Next]_vars PROVE RepoQueuesSuffice'
  <2> TypeOK /\ ListTypes /\ Locks
    BY <1>2 DEF IInv, TypeOK
  <2>1. ASSUME NEW t \in Threads,
               CommitRecord(t) \/ ForceRecord(t) \/ ReserveNewQueue(t)
        PROVE  RepoQueuesSuffice'
    <3>1. PICK r \in Records, src \in Sources : AddList(t, r, src)
      BY <2>1 DEF CommitRecord, ForceRecord, ReserveNewQueue, Unused, Sources
    <3> QED
      BY <1>2, <3>1, AddListQueues
  <2>2. ASSUME NEW t \in Threads, MoveQueue(t) PROVE RepoQueuesSuffice'
    <3>1. list # <<>> /\ list \in Seq(Queues) /\ freeList \in Nat /\ RepoCount \in Nat
      BY <2>2, RepoCountAssumption DEF MoveQueue, Locks, ListTypes
    <3>2. list' = Tail(list) /\ freeList' = freeList + 1
      BY <2>2 DEF MoveQueue
    <3>3. Len(list') = Len(list) - 1 /\ Len(list) \in Nat /\ Len(list) > 0
      BY <3>1, <3>2
    <3>4. Len(list) + freeList = RepoCount /\ Len(list) <= 2
      BY <1>2 DEF RepoQueuesSuffice
    <3>5. Len(list') + freeList' = RepoCount /\ Len(list') <= 2 /\ Len(list') # 2
      <4>1. freeList \in Nat /\ freeList' = freeList + 1
        BY <3>1, <3>2
      <4>2. Len(list') + freeList' = Len(list) + freeList
        BY <3>3, <4>1
      <4>3. Len(list') <= 1
        BY <3>3, <3>4
      <4> QED
        <5>1. Len(list') # 2
          BY <3>3, <3>4
        <5> QED
          BY <3>4, <4>2, <4>3, <3>3, <5>1
    <3> QED
      BY <3>5 DEF RepoQueuesSuffice
  <2>3. ASSUME UNCHANGED <<list, freeList>> PROVE RepoQueuesSuffice'
    BY <1>2, <2>3 DEF RepoQueuesSuffice
  <2>4. ASSUME NEW t \in Threads, Commit(t) PROVE RepoQueuesSuffice'
    BY <2>1, <2>3, <2>4 DEF Commit, StartCommit, EndRecords, listVars
  <2>5. ASSUME NEW t \in Threads, Submit(t) PROVE RepoQueuesSuffice'
    BY <2>1, <2>2, <2>3, <2>5 DEF Submit, SubmitCheck, EnterCommit, SubmitNext, LockList, ExitCommit,
       GetEvent, Reserve, CountInterrupt, Execute, listVars
  <2>6. CASE GPU \/ BusError \/ Interrupt \/ Notify \/ UNCHANGED vars
    <3>1. UNCHANGED listVars
      BY <2>6 DEF GPU, FrontEndEvent, PixelEvent, BusError, Interrupt, Notify, NotifyWake,
         NotifyRead, NotifyPick, NotifyScan, NotifyClaim, NotifyRecord, NotifyDone, vars
    <3> QED
      BY <2>3, <3>1 DEF listVars
  <2> QED
    BY <1>2, <2>4, <2>5, <2>6 DEF Next
<1>3. IInv /\ RepoQueuesSuffice /\ [Next]_vars => RepoQueuesSuffice'
  BY <1>2
<1> QED
  BY <1>1, <1>3, IInvAlways, PTL DEF Spec

-----------------------------------------------------------------------------
(* What gckEVENT_Submit leaves on the list. *)

\* No record of a thread that is not in Submit is on the list.
NotOnList ==
    \A t \in Threads : pc[t] = "idle" =>
        \A k \in DOMAIN list : \A r \in Elements(list[k].recs) : adder[r] # t

\* A record that was added is somewhere, and nothing lies where records go to.
Places ==
    /\ \A r \in Records : adder[r] # NoThread => Listed(r) \/ HandedOver(r)
    /\ \A i \in Slots : head[i] \in {"null", "invalid"} => recs[i] = <<>>
    /\ npc # "handle" => todo = <<>>

\* A record added by t is the only new one on the list.
LEMMA AddListRecords ==
    ASSUME ListTypes, NEW t \in Threads, NEW r \in Records,
           NEW src \in Sources, AddList(t, r, src),
           NEW k \in DOMAIN list', NEW q \in Elements(list'[k].recs)
    PROVE  q = r \/ (k \in DOMAIN list /\ q \in Elements(list[k].recs))
<1> list \in Seq(Queues)
  BY DEF ListTypes
<1>1. CASE NeedsNewQueue(src)
  <2>1. list' = Append(list, [source |-> src, recs |-> <<r>>])
    BY <1>1 DEF AddList
  <2>2. CASE k = Len(list) + 1
    <3>1. list'[k].recs = <<r>>
      BY <2>1, <2>2
    <3> QED
      BY <3>1 DEF Elements
  <2>3. CASE k # Len(list) + 1
    <3>1. k \in 1 .. Len(list) /\ list'[k] = list[k]
      BY <2>1, <2>3
    <3> QED
      BY <3>1
  <2> QED
    BY <2>2, <2>3
<1>2. CASE ~NeedsNewQueue(src)
  <2>1. /\ list # <<>>
        /\ list' = [list EXCEPT ![Len(list)].recs = Append(@, r)]
    BY <1>2 DEF AddList, NeedsNewQueue
  <2>2. k \in DOMAIN list /\ list[k] \in Queues
    BY <2>1
  <2>3. list[k].recs \in Seq(Records)
    BY <2>2 DEF Queues
  <2>4. CASE k = Len(list)
    <3>1. list'[k].recs = Append(list[k].recs, r)
      BY <2>1, <2>2, <2>4 DEF Queues
    <3> QED
      BY <2>2, <2>3, <3>1 DEF Elements
  <2>5. CASE k # Len(list)
    <3>1. list'[k] = list[k]
      BY <2>1, <2>2, <2>5
    <3> QED
      BY <2>2, <3>1
  <2> QED
    BY <2>4, <2>5
<1> QED
  BY <1>1, <1>2

\* The records of the list are records.
LEMMA ListedRecords ==
    ASSUME ListTypes, NEW k \in DOMAIN list, NEW q \in Elements(list[k].recs)
    PROVE  q \in Records
<1>1. list[k] \in Queues
  BY DEF ListTypes
<1>2. list[k].recs \in Seq(Records)
  BY <1>1 DEF Queues
<1> QED
  BY <1>2 DEF Elements

\* A thread that adds a record is not yet through with gckEVENT_Submit.
LEMMA AddListFlushes ==
    ASSUME TypeOK, NotOnList, NEW t \in Threads, NEW r \in Records,
           NEW src \in Sources, AddList(t, r, src), pc'[t] # "idle",
           \A s \in Threads : pc'[s] = "idle" => pc[s] = "idle"
    PROVE  NotOnList'
<1> ListTypes /\ HistTypes
  BY DEF TypeOK
<1> SUFFICES ASSUME NEW s \in Threads, pc'[s] = "idle", NEW k \in DOMAIN list',
                    NEW q \in Elements(list'[k].recs)
             PROVE  adder'[q] # s
  BY DEF NotOnList
<1>1. adder' = [adder EXCEPT ![r] = t] /\ adder \in [Records -> Threads \cup {NoThread}]
  BY DEF AddList, HistTypes
<1>2. CASE q = r
  BY <1>1, <1>2
<1>3. CASE q # r
  <2>1. k \in DOMAIN list /\ q \in Elements(list[k].recs)
    BY <1>3, AddListRecords
  <2>2. q \in Records /\ adder[q] # s
    BY <2>1, ListedRecords DEF NotOnList
  <2> QED
    BY <1>1, <1>3, <2>2
<1> QED
  BY <1>2, <1>3

\* Submit only returns when it has seen the list empty, and the records of other
\* threads do not count.
LEMMA LeavesNothing == Spec => []NotOnList
<1>1. Init => NotOnList
  BY DEF Init, NotOnList
<1>2. ASSUME IInv, NotOnList, [Next]_vars PROVE NotOnList'
  <2> TypeOK /\ ListTypes /\ Locks /\ pc \in [Threads -> Positions]
    BY <1>2 DEF IInv, TypeOK, ThreadTypes
  <2>1. ASSUME NEW t \in Threads,
               CommitRecord(t) \/ ForceRecord(t) \/ ReserveNewQueue(t)
        PROVE  NotOnList'
    <3>1. PICK r \in Records, src \in Sources : AddList(t, r, src)
      BY <2>1 DEF CommitRecord, ForceRecord, ReserveNewQueue, Unused, Sources
    <3>2. pc'[t] # "idle" /\ \A s \in Threads : pc'[s] = "idle" => pc[s] = "idle"
      BY <2>1 DEF CommitRecord, ForceRecord, ReserveNewQueue, threadVars
    <3> QED
      BY <1>2, <3>1, <3>2, AddListFlushes
  <2>2. ASSUME NEW t \in Threads, MoveQueue(t) PROVE NotOnList'
    <3>1. list # <<>> /\ list \in Seq(Queues) /\ list' = Tail(list) /\ UNCHANGED adder
      BY <2>2 DEF MoveQueue, Locks, ListTypes, histVars
    <3>2. \A k \in DOMAIN list' : k + 1 \in DOMAIN list /\ list'[k] = list[k + 1]
      BY <3>1
    <3>3. \A s \in Threads : pc'[s] = "idle" => pc[s] = "idle"
      BY <2>2 DEF MoveQueue
    <3> QED
      BY <1>2, <3>1, <3>2, <3>3 DEF NotOnList
  <2>3. ASSUME UNCHANGED <<list, adder>>,
               \A s \in Threads : pc'[s] = "idle" => pc[s] = "idle"
        PROVE  NotOnList'
    BY <1>2, <2>3 DEF NotOnList
  <2>4. ASSUME UNCHANGED list, list = <<>> PROVE NotOnList'
    BY <2>4 DEF NotOnList
  <2>5. ASSUME NEW t \in Threads, Commit(t) PROVE NotOnList'
    BY <2>1, <2>3, <2>5 DEF Commit, StartCommit, EndRecords, listVars, histVars
  <2>6. ASSUME NEW t \in Threads, SubmitCheck(t) \/ ExitCommit(t) PROVE NotOnList'
    BY <2>3, <2>4, <2>6 DEF SubmitCheck, ExitCommit, listVars, histVars
  <2>7. ASSUME NEW t \in Threads,
               EnterCommit(t) \/ SubmitNext(t) \/ LockList(t) \/ GetEvent(t)
               \/ Reserve(t) \/ CountInterrupt(t) \/ Execute(t)
        PROVE  NotOnList'
    <3>1. UNCHANGED <<list, adder>>
      BY <2>7 DEF EnterCommit, SubmitNext, LockList, GetEvent, Reserve, CountInterrupt, Execute,
         listVars, histVars
    <3>2. \A s \in Threads : pc'[s] = "idle" => pc[s] = "idle"
      BY <2>7 DEF EnterCommit, SubmitNext, LockList, GetEvent, Reserve, CountInterrupt, Execute
    <3> QED
      BY <2>3, <3>1, <3>2
  <2>8. CASE GPU \/ BusError \/ Interrupt \/ Notify \/ UNCHANGED vars
    <3>1. UNCHANGED <<list, adder, pc>>
      BY <2>8 DEF GPU, FrontEndEvent, PixelEvent, Raise, BusError, Interrupt, Notify,
         NotifyWake, NotifyRead, NotifyPick, NotifyScan, NotifyClaim, NotifyRecord, NotifyDone,
         vars, listVars, threadVars, histVars
    <3> QED
      BY <2>3, <3>1
  <2> QED
    BY <1>2, <2>1, <2>2, <2>5, <2>6, <2>7, <2>8 DEF Next, Submit
<1>3. IInv /\ NotOnList /\ [Next]_vars => NotOnList'
  BY <1>2
<1> QED
  BY <1>1, <1>3, IInvAlways, PTL DEF Spec

\* A record that is added is on the list, and those that were there still are.
LEMMA AddListPlaces ==
    ASSUME TypeOK, Places, NEW t \in Threads, NEW r \in Records, NEW src \in Sources,
           AddList(t, r, src), UNCHANGED <<head, recs, npc, todo>>
    PROVE  Places'
<1> list \in Seq(Queues) /\ adder \in [Records -> Threads \cup {NoThread}]
  BY DEF TypeOK, ListTypes, HistTypes
<1>1. Listed(r)' /\ \A q \in Records : Listed(q) => Listed(q)'
  <2>1. CASE NeedsNewQueue(src)
    <3>1. list' = Append(list, [source |-> src, recs |-> <<r>>])
      BY <2>1 DEF AddList
    <3>2. /\ Len(list) + 1 \in DOMAIN list' /\ list'[Len(list) + 1].recs = <<r>>
          /\ \A k \in DOMAIN list : k \in DOMAIN list' /\ list'[k] = list[k]
      BY <3>1
    <3>3. r \in Elements(<<r>>)
      BY DEF Elements
    <3> QED
      BY <3>2, <3>3 DEF Listed
  <2>2. CASE ~NeedsNewQueue(src)
    <3>1. list # <<>> /\ list' = [list EXCEPT ![Len(list)].recs = Append(@, r)]
      BY <2>2 DEF AddList, NeedsNewQueue
    <3>2. Len(list) \in DOMAIN list /\ list[Len(list)] \in Queues
      BY <3>1
    <3> DEFINE old == list[Len(list)].recs
    <3>3. old \in Seq(Records) /\ list'[Len(list)].recs = Append(old, r)
      BY <3>1, <3>2 DEF Queues
    <3> HIDE DEF old
    <3>4. r \in Elements(Append(old, r)) /\ Elements(old) \subseteq Elements(Append(old, r))
      <4>1. /\ DOMAIN old = 1 .. Len(old) /\ Len(old) \in Nat
            /\ DOMAIN Append(old, r) = 1 .. Len(old) + 1
            /\ Append(old, r)[Len(old) + 1] = r
            /\ \A k \in 1 .. Len(old) : Append(old, r)[k] = old[k]
        BY <3>3
      <4> QED
        BY <4>1 DEF Elements
    <3>5. DOMAIN list' = DOMAIN list /\ \A k \in DOMAIN list : k # Len(list) => list'[k] = list[k]
      BY <3>1
    <3>6. Elements(list[Len(list)].recs) \subseteq Elements(list'[Len(list)].recs)
          /\ r \in Elements(list'[Len(list)].recs)
      BY <3>3, <3>4 DEF old
    <3>7. \A k \in DOMAIN list : Elements(list[k].recs) \subseteq Elements(list'[k].recs)
      BY <3>5, <3>6
    <3> QED
      BY <3>2, <3>5, <3>6, <3>7 DEF Listed
  <2> QED
    BY <2>1, <2>2
<1>2. \A q \in Records : HandedOver(q)' <=> HandedOver(q)
  BY DEF AddList, HandedOver
<1>3. adder' = [adder EXCEPT ![r] = t]
  BY DEF AddList
<1> QED
  BY <1>1, <1>2, <1>3 DEF Places

\* The first queue of the list goes to a slot that is empty.
LEMMA MoveQueuePlaces ==
    ASSUME IInv, Places, NEW t \in Threads, MoveQueue(t)
    PROVE  Places'
<1> DEFINE i == id[t]
<1>1. i \in Slots /\ recs[i] = <<>> /\ recs \in [Slots -> Seq(Records)]
      /\ head \in [Slots -> {"null", "invalid", "records"}]
  <2>1. i \in Slots /\ Submitting(t, i) /\ pc[t] = "move"
    BY DEF MoveQueue, IInv, TypeOK, ThreadTypes, Submitting
  <2>2. head[i] = "invalid"
    BY <2>1 DEF IInv, SlotState
  <2> QED
    BY <2>1, <2>2 DEF Places, IInv, TypeOK, SlotTypes
<1>2. /\ head' = [head EXCEPT ![i] = "records"] /\ recs' = [recs EXCEPT ![i] = list[1].recs]
      /\ list' = Tail(list) /\ UNCHANGED <<npc, todo, adder, delivered>>
  BY DEF MoveQueue, notifyVars, histVars
<1> HIDE DEF i
<1>3. list # <<>> /\ list \in Seq(Queues)
  BY DEF MoveQueue, IInv, Locks, TypeOK, ListTypes
<1>4. ASSUME NEW q \in Records, Listed(q) PROVE Listed(q)' \/ HandedOver(q)'
  <2>1. PICK k \in DOMAIN list : q \in Elements(list[k].recs)
    BY <1>4 DEF Listed
  <2>2. CASE k = 1
    <3>1. recs'[i] = list[1].recs
      BY <1>1, <1>2
    <3> QED
      BY <1>1, <2>1, <2>2, <3>1 DEF HandedOver
  <2>3. CASE k # 1
    <3>1. k - 1 \in DOMAIN list' /\ list'[k - 1] = list[k]
      BY <1>2, <1>3, <2>3
    <3> QED
      BY <2>1, <3>1 DEF Listed
  <2> QED
    BY <2>2, <2>3
<1>5. ASSUME NEW q \in Records, HandedOver(q) PROVE HandedOver(q)'
  <2>1. ASSUME NEW j \in Slots, q \in Elements(recs[j]) PROVE HandedOver(q)'
    <3>1. j # i
      BY <1>1, <2>1 DEF Elements
    <3>2. recs'[j] = recs[j]
      BY <1>1, <1>2, <3>1
    <3> QED
      BY <2>1, <3>2 DEF HandedOver
  <2> QED
    BY <1>2, <1>5, <2>1 DEF HandedOver
<1>6. \A j \in Slots : head'[j] \in {"null", "invalid"} => recs'[j] = <<>>
  BY <1>1, <1>2 DEF Places
<1> QED
  BY <1>2, <1>4, <1>5, <1>6 DEF Places

\* gckEVENT_Notify takes the records of a slot and performs them one by one.
LEMMA NotifyPlaces ==
    ASSUME IInv, Places, Notify
    PROVE  Places'
<1> /\ recs \in [Slots -> Seq(Records)] /\ cur \in Slots
    /\ head \in [Slots -> {"null", "invalid", "records"}]
    /\ todo \in Seq(Records) /\ delivered \in Seq(Records)
  BY DEF IInv, TypeOK, SlotTypes, NotifyTypes, HistTypes
<1>1. UNCHANGED <<list, adder>>
  BY DEF Notify, NotifyWake, NotifyRead, NotifyPick, NotifyScan, NotifyClaim, NotifyRecord,
     NotifyDone, listVars, histVars
<1>2. CASE NotifyClaim
  <2>1. /\ todo = <<>> /\ todo' = recs[cur] /\ recs' = [recs EXCEPT ![cur] = <<>>]
        /\ head' = [head EXCEPT ![cur] = "null"] /\ npc' = "handle" /\ UNCHANGED delivered
    BY <1>2 DEF NotifyClaim, Places, histVars
  <2>2. \A q \in Records : HandedOver(q) => HandedOver(q)'
    <3>1. ASSUME NEW q \in Records, NEW j \in Slots, q \in Elements(recs[j])
          PROVE  HandedOver(q)'
      <4>1. CASE j = cur
        BY <2>1, <3>1, <4>1 DEF HandedOver
      <4>2. CASE j # cur
        <5>1. recs'[j] = recs[j]
          BY <2>1, <4>2
        <5> QED
          BY <3>1, <5>1 DEF HandedOver
      <4> QED
        BY <4>1, <4>2
    <3>2. Elements(todo) = {}
      BY <2>1 DEF Elements
    <3> QED
      BY <2>1, <3>1, <3>2 DEF HandedOver
  <2>3. \A j \in Slots : head'[j] \in {"null", "invalid"} => recs'[j] = <<>>
    BY <2>1 DEF Places
  <2> QED
    BY <1>1, <2>1, <2>2, <2>3 DEF Places, Listed
<1>3. CASE NotifyRecord
  <2>1. /\ todo # <<>> /\ todo' = Tail(todo) /\ delivered' = Append(delivered, todo[1])
        /\ npc = "handle" /\ UNCHANGED <<head, recs, npc>>
    BY <1>3 DEF NotifyRecord, slotVars
  <2>2. \A q : q \in Elements(todo) \/ q \in Elements(delivered)
                => q \in Elements(todo') \/ q \in Elements(delivered')
    <3>1. ASSUME NEW k \in DOMAIN todo
          PROVE  todo[k] \in Elements(todo') \/ todo[k] \in Elements(delivered')
      <4>1. CASE k = 1
        <5>1. Len(delivered) + 1 \in DOMAIN delivered' /\ delivered'[Len(delivered) + 1] = todo[1]
          BY <2>1
        <5> QED
          BY <4>1, <5>1 DEF Elements
      <4>2. CASE k # 1
        <5>1. k - 1 \in DOMAIN todo' /\ todo'[k - 1] = todo[k]
          BY <2>1, <4>2
        <5> QED
          BY <5>1 DEF Elements
      <4> QED
        BY <4>1, <4>2
    <3>2. ASSUME NEW k \in DOMAIN delivered PROVE delivered[k] \in Elements(delivered')
      <4>1. k \in DOMAIN delivered' /\ delivered'[k] = delivered[k]
        BY <2>1
      <4> QED
        BY <4>1 DEF Elements
    <3> QED
      BY <3>1, <3>2 DEF Elements
  <2> QED
    BY <1>1, <2>1, <2>2 DEF Places, Listed, HandedOver
<1>4. CASE NotifyWake \/ NotifyRead \/ NotifyPick \/ NotifyScan \/ NotifyDone
  <2>1. UNCHANGED <<head, recs, todo, delivered>> /\ (npc' # "handle" => todo = <<>>)
    BY <1>4 DEF NotifyWake, NotifyRead, NotifyPick, NotifyScan, NotifyDone, slotVars, histVars,
       Places
  <2> QED
    BY <1>1, <2>1 DEF Places, Listed, HandedOver
<1> QED
  BY <1>2, <1>3, <1>4 DEF Notify

\* No record is dropped between the list, the slots and gckEVENT_Notify.
LEMMA PlacesAlways == Spec => []Places
<1>1. Init => Places
  BY DEF Init, Places
<1>2. ASSUME IInv, Places, [Next]_vars PROVE Places'
  <2> TypeOK /\ head \in [Slots -> {"null", "invalid", "records"}]
    BY <1>2 DEF IInv, TypeOK, SlotTypes
  <2>1. ASSUME NEW t \in Threads,
               CommitRecord(t) \/ ForceRecord(t) \/ ReserveNewQueue(t)
        PROVE  Places'
    <3>1. PICK r \in Records, src \in Sources : AddList(t, r, src)
      BY <2>1 DEF CommitRecord, ForceRecord, ReserveNewQueue, Unused, Sources
    <3>2. UNCHANGED <<head, recs, npc, todo>>
      BY <2>1 DEF CommitRecord, ForceRecord, ReserveNewQueue, slotVars, notifyVars
    <3> QED
      BY <1>2, <3>1, <3>2, AddListPlaces
  <2>2. ASSUME UNCHANGED <<list, adder, head, recs, npc, todo, delivered>> PROVE Places'
    BY <1>2, <2>2 DEF Places, Listed, HandedOver
  <2>3. ASSUME NEW t \in Threads, GetEvent(t) PROVE Places'
    <3>1. UNCHANGED <<list, adder, recs, npc, todo, delivered>>
      BY <2>3 DEF GetEvent, listVars, notifyVars, histVars
    <3>2. \A j \in Slots : head'[j] \in {"null", "invalid"} => head[j] \in {"null", "invalid"}
      BY <2>3 DEF GetEvent, NextFree, Free
    <3> QED
      BY <1>2, <3>1, <3>2 DEF Places, Listed, HandedOver
  <2>4. ASSUME NEW t \in Threads,
               \/ StartCommit(t) \/ EndRecords(t) \/ SubmitCheck(t) \/ EnterCommit(t)
               \/ SubmitNext(t) \/ LockList(t) \/ ExitCommit(t) \/ Reserve(t)
               \/ CountInterrupt(t) \/ Execute(t)
        PROVE  Places'
    <3>1. UNCHANGED <<list, adder, head, recs, npc, todo, delivered>>
      BY <2>4 DEF StartCommit, EndRecords, SubmitCheck, EnterCommit, SubmitNext, LockList,
         ExitCommit, Reserve, CountInterrupt, Execute, listVars, slotVars, notifyVars, histVars
    <3> QED
      BY <2>2, <3>1
  <2>5. CASE GPU \/ BusError \/ Interrupt \/ UNCHANGED vars
    <3>1. UNCHANGED <<list, adder, head, recs, npc, todo, delivered>>
      BY <2>5 DEF GPU, FrontEndEvent, PixelEvent, Raise, BusError, Interrupt, vars, listVars,
         slotVars, notifyVars, histVars
    <3> QED
      BY <2>2, <3>1
  <2> QED
    BY <1>2, <2>1, <2>3, <2>4, <2>5, MoveQueuePlaces, NotifyPlaces DEF Next, Commit, Submit
<1>3. IInv /\ Places /\ [Next]_vars => Places'
  BY <1>2
<1> QED
  BY <1>1, <1>3, IInvAlways, PTL DEF Spec

\* When gckEVENT_Submit has returned, every record of its caller has been handed
\* over: none is still on the list, and none was lost on the way to a slot or
\* from there, whichever thread submitted it.
THEOREM SubmitsAll == Spec => []SubmitFlushes
<1>1. ASSUME NotOnList, Places PROVE SubmitFlushes
  <2> SUFFICES ASSUME NEW t \in Threads, pc[t] = "idle", NEW r \in Records, adder[r] = t
               PROVE  ~Listed(r) /\ HandedOver(r)
    BY DEF SubmitFlushes
  <2>1. ~Listed(r)
    BY <1>1 DEF NotOnList, Listed
  <2> QED
    BY <1>1, <2>1, NoThreadAssumption DEF Places
<1>2. NotOnList /\ Places => SubmitFlushes
  BY <1>1
<1> QED
  BY <1>2, LeavesNothing, PlacesAlways, PTL

-----------------------------------------------------------------------------
(* The count of the interrupts to come, which the monitor timer watches.    *)

Flying == {i \in Slots : InFlight(i)}
Linking == {t \in Threads : pc[t] = "link"}

\* The sets that InterruptBalance counts are finite: there are finitely many
\* slots, and one thread at a time has the command queue.
LEMMA BalanceFinite ==
    ASSUME IInv
    PROVE  /\ IsFiniteSet(Flying) /\ IsFiniteSet(ack \cap Slots) /\ IsFiniteSet(Linking)
           /\ Cardinality(Flying) \in Nat /\ Cardinality(ack \cap Slots) \in Nat
           /\ Cardinality(Linking) \in Nat /\ lost \in Nat /\ interruptCount \in Int
<1>1. IsFiniteSet(Slots)
  BY NumSlotsAssumption, FS_Interval DEF Slots
<1>2. IsFiniteSet(Flying) /\ IsFiniteSet(ack \cap Slots)
  BY <1>1, FS_Subset DEF Flying
<1>3. IsFiniteSet(Linking)
  <2>1. Linking \subseteq {mutexQueue}
    BY DEF Linking, IInv, Locks
  <2> QED
    BY <2>1, FS_Singleton, FS_Subset
<1>4. lost \in Nat /\ interruptCount \in Int
  BY DEF IInv, TypeOK, GpuTypes, IsrTypes
<1> QED
  BY <1>2, <1>3, <1>4, FS_CardinalityType

Balance ==
    interruptCount = Cardinality(Flying) + Cardinality(ack \cap Slots) + lost
                       + Cardinality(Linking)

\* A step that neither counts, links, raises nor takes an interrupt.
LEMMA BalanceFrame ==
    ASSUME Balance, UNCHANGED <<gpu, ack, lost, interruptCount>>,
           \A t \in Threads : pc'[t] = "link" <=> pc[t] = "link"
    PROVE  Balance'
<1>1. Flying' = Flying /\ Linking' = Linking
  BY DEF Flying, InFlight, Linking
<1> QED
  BY <1>1 DEF Balance

\* A thread that moves on, neither from nor to the place where it has counted its
\* interrupt and not yet linked its command.
LEMMA BalanceThread ==
    ASSUME IInv, Balance, NEW t \in Threads,
           \/ StartCommit(t) \/ CommitRecord(t) \/ EndRecords(t) \/ ForceRecord(t)
           \/ SubmitCheck(t) \/ EnterCommit(t) \/ SubmitNext(t) \/ LockList(t) \/ GetEvent(t)
           \/ MoveQueue(t) \/ Reserve(t) \/ ReserveNewQueue(t) \/ ExitCommit(t)
    PROVE  Balance'
<1>1. UNCHANGED <<gpu, ack, lost, interruptCount>>
  BY DEF StartCommit, CommitRecord, EndRecords, ForceRecord, SubmitCheck, EnterCommit, SubmitNext,
     LockList, GetEvent, MoveQueue, Reserve, ReserveNewQueue, ExitCommit, gpuVars, isrVars
<1>2. pc[t] # "link" /\ \/ UNCHANGED pc
                        \/ \E place : place # "link" /\ pc' = [pc EXCEPT ![t] = place]
  <2>1. CASE CommitRecord(t)
    BY <2>1 DEF CommitRecord, threadVars
  <2>2. CASE EndRecords(t)
    <3>1. PICK place : place = IF Forced /\ list = <<>> /\ Unused # {} THEN "force" ELSE "check"
      OBVIOUS
    <3> QED
      BY <2>2, <3>1 DEF EndRecords
  <2>3. CASE SubmitCheck(t)
    <3>1. PICK place : place = IF list = <<>> THEN "idle" ELSE "enter"
      OBVIOUS
    <3> QED
      BY <2>3, <3>1 DEF SubmitCheck
  <2> QED
    BY <2>1, <2>2, <2>3
       DEF StartCommit, ForceRecord, EnterCommit, SubmitNext, LockList, GetEvent, MoveQueue,
           Reserve, ReserveNewQueue, ExitCommit
<1>3. \A u \in Threads : pc'[u] = "link" <=> pc[u] = "link"
  BY <1>2 DEF IInv, TypeOK, ThreadTypes
<1> QED
  BY <1>1, <1>3, BalanceFrame

\* CountInterrupt: the interrupt is counted, and its thread with it.
LEMMA BalanceCount ==
    ASSUME IInv, Balance, NEW t \in Threads, CountInterrupt(t)
    PROVE  Balance'
<1>1. /\ pc[t] = "exec" /\ pc' = [pc EXCEPT ![t] = "link"]
      /\ interruptCount' = interruptCount + 1 /\ UNCHANGED <<gpu, ack, lost>>
  BY DEF CountInterrupt, gpuVars
<1>2. Linking' = Linking \cup {t} /\ t \notin Linking
  BY <1>1 DEF Linking, IInv, TypeOK, ThreadTypes
<1>3. Cardinality(Linking') = Cardinality(Linking) + 1
  BY <1>2, BalanceFinite, FS_AddElement
<1>4. Flying' = Flying
  BY <1>1 DEF Flying, InFlight
<1> QED
  BY <1>1, <1>3, <1>4, BalanceFinite DEF Balance

\* Execute: the GPU has the command now.
LEMMA BalanceExecute ==
    ASSUME IInv, Balance, NEW t \in Threads, Execute(t)
    PROVE  Balance'
<1>1. /\ pc[t] = "link" /\ pc' = [pc EXCEPT ![t] = "loop"]
      /\ gpu' = [gpu EXCEPT ![id[t]] = "ring"] /\ UNCHANGED <<ack, lost, interruptCount>>
  BY DEF Execute, isrVars
<1>2. Linking' = Linking \ {t} /\ t \in Linking
  BY <1>1 DEF Linking, IInv, TypeOK, ThreadTypes
<1>3. Cardinality(Linking') = Cardinality(Linking) - 1
  BY <1>2, BalanceFinite, FS_RemoveElement
<1>4. id[t] \in Slots /\ gpu[id[t]] = "done"
  BY <1>1 DEF Submitting, IInv, SlotState, TypeOK, ThreadTypes
<1>5. Flying' = Flying \cup {id[t]} /\ id[t] \notin Flying
  BY <1>1, <1>4 DEF Flying, InFlight, IInv, TypeOK, GpuTypes
<1>6. Cardinality(Flying') = Cardinality(Flying) + 1
  BY <1>5, BalanceFinite, FS_AddElement
<1> QED
  BY <1>1, <1>3, <1>6, BalanceFinite DEF Balance

\* Raise: the interrupt is in the acknowledge register, or lost.
LEMMA BalanceRaise ==
    ASSUME IInv, Balance, NEW i \in Slots, InFlight(i), Raise(i),
           UNCHANGED <<pc, interruptCount>>
    PROVE  Balance'
<1>1. /\ gpu' = [gpu EXCEPT ![i] = "done"]
      /\ \/ ack' = ack \cup {i} /\ UNCHANGED lost
         \/ lost' = lost + 1 /\ UNCHANGED ack
  BY DEF Raise
<1>2. Flying' = Flying \ {i} /\ i \in Flying
  BY <1>1 DEF Flying, InFlight, IInv, TypeOK, GpuTypes
<1>3. Cardinality(Flying') = Cardinality(Flying) - 1
  BY <1>2, BalanceFinite, FS_RemoveElement
<1>4. Linking' = Linking
  BY DEF Linking
<1>5. i \notin ack
  BY DEF InFlight, IInv, Bits, Executed
<1>6. CASE ack' = ack \cup {i} /\ UNCHANGED lost
  <2>1. ack' \cap Slots = (ack \cap Slots) \cup {i} /\ i \notin ack \cap Slots
    BY <1>5, <1>6
  <2>2. Cardinality(ack' \cap Slots) = Cardinality(ack \cap Slots) + 1
    BY <2>1, BalanceFinite, FS_AddElement
  <2> QED
    BY <1>3, <1>4, <1>6, <2>2, BalanceFinite DEF Balance
<1>7. CASE lost' = lost + 1 /\ UNCHANGED ack
  BY <1>3, <1>4, <1>7, BalanceFinite DEF Balance
<1> QED
  BY <1>1, <1>6, <1>7

\* The GPU: an EVENT that goes on to the pixel pipe is still to come.
LEMMA BalanceGPU ==
    ASSUME IInv, Balance, GPU
    PROVE  Balance'
<1>1. PICK i \in Slots : FrontEndEvent(i) \/ PixelEvent(i)
  BY DEF GPU
<1>2. InFlight(i) /\ UNCHANGED <<pc, interruptCount>>
  BY <1>1 DEF FrontEndEvent, PixelEvent, Oldest, InFlight, threadVars, isrVars
<1>3. CASE Raise(i)
  BY <1>2, <1>3, BalanceRaise
<1>4. CASE ~Raise(i)
  <2>1. gpu' = [gpu EXCEPT ![i] = "pipe"] /\ UNCHANGED <<ack, lost>>
    BY <1>1, <1>4 DEF FrontEndEvent, PixelEvent
  <2>2. Flying' = Flying
    BY <1>2, <2>1 DEF Flying, InFlight, IInv, TypeOK, GpuTypes
  <2>3. Linking' = Linking
    BY <1>2 DEF Linking
  <2> QED
    BY <1>2, <2>1, <2>2, <2>3 DEF Balance
<1> QED
  BY <1>3, <1>4

\* The interrupt routine takes one from the count for each bit that it has read.
LEMMA BalanceInterrupt ==
    ASSUME IInv, Balance, Interrupt \/ BusError
    PROVE  Balance'
<1>1. CASE Interrupt
  <2>1. /\ interruptCount' = interruptCount - Cardinality(ack \cap Slots) /\ ack' = {}
        /\ UNCHANGED <<gpu, lost, pc>>
    BY <1>1 DEF Interrupt, threadVars
  <2>2. Flying' = Flying /\ Linking' = Linking
    BY <2>1 DEF Flying, InFlight, Linking
  <2>3. Cardinality(ack' \cap Slots) = 0
    BY <2>1, FS_EmptySet
  <2> QED
    BY <2>1, <2>2, <2>3, BalanceFinite DEF Balance
<1>2. CASE BusError
  <2>1. PICK e \in ErrorBits : ack' = ack \cup {e}
    BY <1>2 DEF BusError
  <2>2. UNCHANGED <<gpu, lost, pc, interruptCount>>
    BY <1>2 DEF BusError, threadVars, isrVars
  <2>3. ack' \cap Slots = ack \cap Slots
    BY <2>1, ErrorBitsAssumption
  <2>4. Flying' = Flying /\ Linking' = Linking
    BY <2>2 DEF Flying, InFlight, Linking
  <2> QED
    BY <2>2, <2>3, <2>4 DEF Balance
<1> QED
  BY <1>1, <1>2

\* InterruptBalance (interruptCount, raised by gckEVENT_Submit before it links an
\* EVENT and lowered by gckEVENT_Interrupt for each bit of the mask): it is the number
\* of interrupts still to come, for ever raised by those that were lost.
THEOREM InterruptsBalance == Spec => []InterruptBalance
<1>1. Init => Balance
  <2> SUFFICES ASSUME Init PROVE Balance
    OBVIOUS
  <2>1. Flying = {} /\ Linking = {} /\ ack \cap Slots = {}
    BY DEF Init, Flying, InFlight, Linking
  <2> QED
    BY <2>1, FS_EmptySet DEF Init, Balance
<1>2. ASSUME IInv, Balance, [Next]_vars PROVE Balance'
  <2>1. CASE \E t \in Threads : Commit(t) \/ Submit(t)
    BY <1>2, <2>1, BalanceThread, BalanceCount, BalanceExecute DEF Commit, Submit
  <2>2. CASE GPU \/ BusError \/ Interrupt
    BY <1>2, <2>2, BalanceGPU, BalanceInterrupt
  <2>3. CASE Notify \/ UNCHANGED vars
    <3>1. UNCHANGED <<gpu, ack, lost, interruptCount, pc>>
      BY <2>3 DEF Notify, NotifyWake, NotifyRead, NotifyPick, NotifyScan, NotifyClaim,
         NotifyRecord, NotifyDone, gpuVars, isrVars, threadVars, vars
    <3> QED
      BY <1>2, <3>1, BalanceFrame
  <2> QED
    BY <1>2, <2>1, <2>2, <2>3 DEF Next
<1>3. IInv /\ Balance /\ [Next]_vars => Balance'
  BY <1>2
<1>4. Balance => InterruptBalance
  BY DEF Balance, InterruptBalance, Flying, InFlight, Linking
<1> QED
  BY <1>1, <1>3, <1>4, IInvAlways, PTL DEF Spec

=============================================================================
