--------------------------- MODULE EventManager ---------------------------
(***************************************************************************)
(* The kernel event manager, gckEVENT (hal/kernel/gc_hal_kernel_event.c).  *)
(*                                                                         *)
(* Callers append event records (signals to raise, video memory to unlock, *)
(* words to write) to a pending list.  gckEVENT_Submit moves each queue of *)
(* the list into one of the hardware event slots and writes an EVENT       *)
(* command into the command queue.  The GPU raises the slot's interrupt    *)
(* when it gets there, the interrupt routine collects the bits in a mask,  *)
(* and the interrupt thread (gckEVENT_Notify) performs the records of the  *)
(* slots of the mask, oldest first, also those of slots whose interrupt    *)
(* was lost.                                                               *)
(*                                                                         *)
(* The order of the commands in the ring is kept as the write position     *)
(* "at"; the GPU executes them by increasing position.                     *)
(***************************************************************************)
EXTENDS Integers, Sequences, FiniteSets

CONSTANTS
    Threads,    \* kernel threads that add and submit events
    NoThread,   \* not a thread
    Records,    \* event records (gcsEVENT); the bound of every behaviour
    NumSlots,   \* gcmCOUNTOF(Event->queues): 29 in the driver
    RepoCount,  \* gcdREPO_LIST_COUNT: 3 in the driver
    ErrorBits,  \* AXI-error and MMU-exception bits of the interrupt mask
    MaxLost,    \* bound on the interrupts that never reach the CPU
    Forced      \* gckEVENT_Commit's Forced (the powerManagement option)

ASSUME NoThreadAssumption == NoThread \notin Threads
ASSUME NumSlotsAssumption == NumSlots \in Nat \ {0}
ASSUME RepoCountAssumption == RepoCount \in Nat /\ RepoCount >= 2
ASSUME BoundsAssumption == MaxLost \in Nat /\ Forced \in BOOLEAN

Slots == 0 .. NumSlots - 1
ASSUME ErrorBitsAssumption == ErrorBits \cap Slots = {}

\* gceKERNEL_WHERE: an event of the front end itself, or of the pixel pipe
\* behind it.  The code compares the two with <.
gcvKERNEL_COMMAND == 0
gcvKERNEL_PIXEL == 4
Sources == {gcvKERNEL_COMMAND, gcvKERNEL_PIXEL}

VARIABLES
    list,           \* queueHead .. queueTail: the queues not yet submitted
    freeList,       \* length of freeList, the free queues of repoList
    listMutex,      \* holder of eventListMutex
    head,           \* queues[i].head: NULL, gcdINVALID_EVENT_PTR or a list
    recs,           \* the records of that list
    stampOf,        \* queues[i].stamp
    source,         \* queues[i].source
    stamp,          \* Event->stamp
    lastID,         \* Event->lastID
    freeQueueCount, \* Event->freeQueueCount
    queueMutex,     \* eventQueueMutex: "held" by gckEVENT_Notify or "free"
    mutexQueue,     \* holder of the command queue (gckCOMMAND_EnterCommit)
    pc, id,         \* where each thread is, and its local "id"
    gpu, at, tail,  \* the GPU: state and ring position of each slot's EVENT
    ack,            \* AQIntrAcknowledge register
    lost,           \* interrupts lost so far
    pending,        \* Event->pending
    interruptCount, \* Event->interruptCount
    sema,           \* device->semas[core]: wake-ups of the interrupt thread
    npc,            \* where gckEVENT_Notify is
    snap, cur, mask, scan, \* its locals: pending, queue, mask, i
    todo,           \* the records it walks
    adder,          \* history: the thread that added each record
    added,          \* history: records added with source PIXEL, in order
    delivered,      \* history: records performed, in order
    passed          \* history: records whose EVENT the GPU has executed

listVars == <<list, freeList, listMutex>>
slotVars == <<head, recs, stampOf, source, stamp, lastID, freeQueueCount>>
threadVars == <<mutexQueue, pc, id>>
gpuVars == <<gpu, at, tail, ack, lost>>
isrVars == <<pending, interruptCount, sema>>
notifyVars == <<queueMutex, npc, snap, cur, mask, scan, todo>>
histVars == <<adder, added, delivered, passed>>
vars == <<listVars, slotVars, threadVars, gpuVars, isrVars, notifyVars, histVars>>

Elements(s) == {s[k] : k \in DOMAIN s}
Unused == {r \in Records : adder[r] = NoThread}
Free(i) == head[i] = "null"

\* The thread between gckEVENT_GetEvent and gckCOMMAND_Execute for slot i.
Submitting(t, i) == pc[t] \in {"move", "reserve", "exec", "link"} /\ id[t] = i

Init ==
    /\ list = <<>> /\ freeList = RepoCount /\ listMutex = NoThread
    /\ head = [i \in Slots |-> "null"]
    /\ recs = [i \in Slots |-> <<>>]
    /\ stampOf = [i \in Slots |-> 0]
    /\ source = [i \in Slots |-> gcvKERNEL_COMMAND]
    /\ stamp = 0 /\ lastID = 0 /\ freeQueueCount = NumSlots
    /\ mutexQueue = NoThread
    /\ pc = [t \in Threads |-> "idle"] /\ id = [t \in Threads |-> 0]
    /\ gpu = [i \in Slots |-> "done"] /\ at = [i \in Slots |-> 0]
    /\ tail = 0 /\ ack = {} /\ lost = 0
    /\ pending = {} /\ interruptCount = 0 /\ sema = 0
    /\ queueMutex = "free" /\ npc = "wait" /\ snap = {} /\ cur = 0
    /\ mask = {} /\ scan = 0 /\ todo = <<>>
    /\ adder = [r \in Records |-> NoThread]
    /\ added = <<>> /\ delivered = <<>> /\ passed = {}

-----------------------------------------------------------------------------
(* gckEVENT_AddList: append the record to the last queue of the list, or   *)
(* to a new queue when the last one is of an earlier source.               *)

\* Seeded fault: a queue is opened whenever the sources differ.
NeedsNewQueueOnChange(src) == list = <<>> \/ list[Len(list)].source # src

NeedsNewQueue(src) == list = <<>> \/ list[Len(list)].source < src

AddList(t, r, src) ==
    /\ listMutex = NoThread
    /\ IF NeedsNewQueue(src)
       THEN /\ freeList > 0
            /\ freeList' = freeList - 1
            /\ list' = Append(list, [source |-> src, recs |-> <<r>>])
       ELSE /\ list' = [list EXCEPT ![Len(list)].recs = Append(@, r)]
            /\ UNCHANGED freeList
    /\ adder' = [adder EXCEPT ![r] = t]
    /\ added' = IF src = gcvKERNEL_PIXEL THEN Append(added, r) ELSE added
    /\ UNCHANGED <<listMutex, delivered, passed>>

-----------------------------------------------------------------------------
(* gckEVENT_Commit, called at the end of every commit ioctl: the caller's  *)
(* records go on the list, then the list is submitted.  Threads do it side *)
(* by side: the commit ioctls are serialised by Device->commitMutex, but   *)
(* gckCOMMAND_Stall, the detach of a process and the submit timer, which   *)
(* add one record or none and submit, do not take that mutex.              *)

StartCommit(t) ==
    /\ pc[t] = "idle"
    /\ pc' = [pc EXCEPT ![t] = "add"]
    /\ UNCHANGED <<listVars, slotVars, mutexQueue, id, gpuVars, isrVars,
                   notifyVars, histVars>>

CommitRecord(t) ==
    /\ pc[t] = "add"
    /\ \E r \in Unused : AddList(t, r, gcvKERNEL_PIXEL)
    /\ UNCHANGED <<slotVars, threadVars, gpuVars, isrVars, notifyVars>>

\* "if (Forced && Event->queueHead == gcvNULL)" reads the list unlocked.
EndRecords(t) ==
    /\ pc[t] = "add"
    /\ pc' = [pc EXCEPT ![t] =
                IF Forced /\ list = <<>> /\ Unused # {} THEN "force" ELSE "check"]
    /\ UNCHANGED <<listVars, slotVars, mutexQueue, id, gpuVars, isrVars,
                   notifyVars, histVars>>

\* The COMMIT_DONE record, which has no effect but an interrupt.
ForceRecord(t) ==
    /\ pc[t] = "force"
    /\ \E r \in Unused : AddList(t, r, gcvKERNEL_PIXEL)
    /\ pc' = [pc EXCEPT ![t] = "check"]
    /\ UNCHANGED <<slotVars, mutexQueue, id, gpuVars, isrVars, notifyVars>>

-----------------------------------------------------------------------------
(* gckEVENT_Submit.                                                        *)

\* "Are there event queues?", read without a lock.
SubmitCheck(t) ==
    /\ pc[t] = "check"
    /\ pc' = [pc EXCEPT ![t] = IF list = <<>> THEN "idle" ELSE "enter"]
    /\ UNCHANGED <<listVars, slotVars, mutexQueue, id, gpuVars, isrVars,
                   notifyVars, histVars>>

\* Seeded fault: the command queue is not taken.
EnterCommitUnlocked(t) ==
    /\ pc[t] = "enter"
    /\ mutexQueue' = t
    /\ pc' = [pc EXCEPT ![t] = "loop"]
    /\ UNCHANGED <<listVars, slotVars, id, gpuVars, isrVars, notifyVars, histVars>>

EnterCommit(t) ==
    /\ pc[t] = "enter" /\ mutexQueue = NoThread
    /\ mutexQueue' = t
    /\ pc' = [pc EXCEPT ![t] = "loop"]
    /\ UNCHANGED <<listVars, slotVars, id, gpuVars, isrVars, notifyVars, histVars>>

\* "while (Event->queueHead != gcvNULL)", read without eventListMutex ...
SubmitNext(t) ==
    /\ pc[t] = "loop" /\ list # <<>>
    /\ pc' = [pc EXCEPT ![t] = "lock"]
    /\ UNCHANGED <<listVars, slotVars, mutexQueue, id, gpuVars, isrVars, notifyVars, histVars>>

\* ... which is taken then.
LockList(t) ==
    /\ pc[t] = "lock" /\ listMutex = NoThread
    /\ listMutex' = t
    /\ pc' = [pc EXCEPT ![t] = "get"]
    /\ UNCHANGED <<list, freeList, slotVars, mutexQueue, id, gpuVars, isrVars,
                   notifyVars, histVars>>

\* Seeded fault: one queue is submitted, not all of them.
ExitCommitEarly(t) ==
    /\ pc[t] = "loop"
    /\ mutexQueue' = NoThread
    /\ pc' = [pc EXCEPT ![t] = "idle"]
    /\ UNCHANGED <<listVars, slotVars, id, gpuVars, isrVars, notifyVars, histVars>>

\* gckEVENT_Submit leaves through gckCOMMAND_ExitCommit.
ExitCommit(t) ==
    /\ pc[t] = "loop" /\ list = <<>>
    /\ mutexQueue' = NoThread
    /\ pc' = [pc EXCEPT ![t] = "idle"]
    /\ UNCHANGED <<listVars, slotVars, id, gpuVars, isrVars, notifyVars, histVars>>

\* The walk over the slots from lastID, and around.
Distance(i) == (i - lastID) % NumSlots

\* Seeded fault: the number does not wrap.
NextIDUnwrapped(i) == i + 1

NextID(i) == (i + 1) % NumSlots

\* Seeded fault: a slot still waiting for its interrupt is handed out again.
NextFreeStale(i) ==
    /\ head[i] # "invalid"
    /\ \A j \in Slots : head[j] # "invalid" => Distance(i) <= Distance(j)

NextFree(i) == Free(i) /\ \A j \in Slots : Free(j) => Distance(i) <= Distance(j)

\* gckEVENT_GetEvent with Wait: without a free slot the caller stays here,
\* with eventListMutex, and looks again every millisecond.
GetEvent(t) ==
    /\ pc[t] = "get" /\ queueMutex = "free"
    /\ \E i \in Slots :
        /\ NextFree(i)
        /\ head' = [head EXCEPT ![i] = "invalid"]
        /\ stampOf' = [stampOf EXCEPT ![i] = stamp + 1]
        /\ source' = [source EXCEPT ![i] = list[1].source]
        /\ lastID' = NextID(i)
        /\ id' = [id EXCEPT ![t] = i]
    /\ stamp' = stamp + 1
    /\ freeQueueCount' = freeQueueCount - 1
    /\ pc' = [pc EXCEPT ![t] = "move"]
    /\ UNCHANGED <<listVars, recs, mutexQueue, gpuVars, isrVars, notifyVars, histVars>>

\* The queue's records go to the slot, without eventQueueMutex, and the
\* queue returns to the free list.
MoveQueue(t) ==
    /\ pc[t] = "move"
    /\ head' = [head EXCEPT ![id[t]] = "records"]
    /\ recs' = [recs EXCEPT ![id[t]] = list[1].recs]
    /\ list' = Tail(list)
    /\ freeList' = freeList + 1
    /\ listMutex' = NoThread
    /\ pc' = [pc EXCEPT ![t] = "reserve"]
    /\ UNCHANGED <<stampOf, source, stamp, lastID, freeQueueCount, mutexQueue, id,
                   gpuVars, isrVars, notifyVars, histVars>>

\* gckCOMMAND_Reserve finds space in the current page of the command queue.
Reserve(t) ==
    /\ pc[t] = "reserve"
    /\ pc' = [pc EXCEPT ![t] = "exec"]
    /\ UNCHANGED <<listVars, slotVars, mutexQueue, id, gpuVars, isrVars,
                   notifyVars, histVars>>

\* gckCOMMAND_Reserve moves to the other page (_NewQueue) and adds the signal
\* that gives the page it leaves back.
ReserveNewQueue(t) ==
    /\ pc[t] = "reserve"
    /\ \E r \in Unused : AddList(t, r, gcvKERNEL_COMMAND)
    /\ pc' = [pc EXCEPT ![t] = "exec"]
    /\ UNCHANGED <<slotVars, mutexQueue, id, gpuVars, isrVars, notifyVars>>

\* interruptCount is raised before the GPU can see the command.
CountInterrupt(t) ==
    /\ pc[t] = "exec"
    /\ interruptCount' = interruptCount + 1
    /\ pc' = [pc EXCEPT ![t] = "link"]
    /\ UNCHANGED <<listVars, slotVars, mutexQueue, id, gpuVars, pending, sema,
                   notifyVars, histVars>>

\* gckCOMMAND_Execute links the EVENT command behind those already written.
Execute(t) ==
    /\ pc[t] = "link"
    /\ gpu' = [gpu EXCEPT ![id[t]] = "ring"]
    /\ at' = [at EXCEPT ![id[t]] = tail]
    /\ tail' = tail + 1
    /\ pc' = [pc EXCEPT ![t] = "loop"]
    /\ UNCHANGED <<listVars, slotVars, mutexQueue, id, ack, lost, isrVars,
                   notifyVars, histVars>>

-----------------------------------------------------------------------------
(* The GPU (external): the front end executes the EVENT commands in ring   *)
(* order.  A COMMAND event raises its interrupt at once, a PIXEL event     *)
(* when the pixel pipe has drained up to it.  An interrupt may get lost.   *)

Oldest(i, state) == gpu[i] = state /\ \A j \in Slots : gpu[j] = state => at[i] <= at[j]

Raise(i) ==
    /\ gpu' = [gpu EXCEPT ![i] = "done"]
    /\ passed' = passed \cup Elements(recs[i])
    /\ \/ ack' = ack \cup {i} /\ UNCHANGED lost
       \/ lost < MaxLost /\ lost' = lost + 1 /\ UNCHANGED ack
    /\ UNCHANGED <<at, tail, adder, added, delivered>>

FrontEndEvent(i) ==
    /\ Oldest(i, "ring")
    /\ IF source[i] = gcvKERNEL_COMMAND
       THEN Raise(i)
       ELSE gpu' = [gpu EXCEPT ![i] = "pipe"] /\ UNCHANGED <<at, tail, ack, lost, histVars>>
    /\ UNCHANGED <<listVars, slotVars, threadVars, isrVars, notifyVars>>

PixelEvent(i) ==
    /\ Oldest(i, "pipe")
    /\ Raise(i)
    /\ UNCHANGED <<listVars, slotVars, threadVars, isrVars, notifyVars>>

BusError ==
    /\ \E e \in ErrorBits \ (ack \cup pending) : ack' = ack \cup {e}
    /\ UNCHANGED <<listVars, slotVars, threadVars, gpu, at, tail, lost, isrVars,
                   notifyVars, histVars>>

-----------------------------------------------------------------------------
(* The interrupt routine: gckHARDWARE_Interrupt reads, and so clears, the  *)
(* acknowledge register, gckEVENT_Interrupt merges it into the pending     *)
(* mask, and isrRoutine wakes the interrupt thread.                        *)

\* Seeded fault: one decrement for the whole mask.
InterruptOnce ==
    /\ ack # {}
    /\ pending' = pending \cup ack
    /\ interruptCount' = interruptCount - 1
    /\ ack' = {}
    /\ sema' = sema + 1
    /\ UNCHANGED <<listVars, slotVars, threadVars, gpu, at, tail, lost, notifyVars, histVars>>

\* Seeded fault: the interrupt thread is not woken.
InterruptSilent ==
    /\ ack # {}
    /\ pending' = pending \cup ack
    /\ interruptCount' = interruptCount - Cardinality(ack \cap Slots)
    /\ ack' = {}
    /\ UNCHANGED <<sema, listVars, slotVars, threadVars, gpu, at, tail, lost, notifyVars,
                   histVars>>

Interrupt ==
    /\ ack # {}
    /\ pending' = pending \cup ack
    /\ interruptCount' = interruptCount - Cardinality(ack \cap Slots)
    /\ ack' = {}
    /\ sema' = sema + 1
    /\ UNCHANGED <<listVars, slotVars, threadVars, gpu, at, tail, lost, notifyVars, histVars>>

-----------------------------------------------------------------------------
(* gckEVENT_Notify, run by the interrupt thread (threadRoutine).           *)

NotifyWake ==
    /\ npc = "wait" /\ sema > 0
    /\ sema' = sema - 1
    /\ npc' = "top"
    /\ UNCHANGED <<listVars, slotVars, threadVars, gpuVars, pending, interruptCount,
                   queueMutex, snap, cur, mask, scan, todo, histVars>>

\* Under eventQueueMutex: the mask is read, the error bits are reported and
\* left out.
NotifyRead ==
    /\ npc = "top"
    /\ snap' = pending \ ErrorBits
    /\ queueMutex' = IF pending = {} THEN "free" ELSE "held"
    /\ npc' = IF pending = {} THEN "wait" ELSE "pick"
    /\ UNCHANGED <<listVars, slotVars, threadVars, gpuVars, isrVars, cur, mask, scan,
                   todo, histVars>>

Raised(i) == head[i] # "null" /\ i \in snap

OldestRaised(i) == Raised(i) /\ \A j \in Slots : Raised(j) => stampOf[i] <= stampOf[j]

\* The oldest slot of the mask; without one the bits are dropped.
NotifyPick ==
    /\ npc = "pick"
    /\ \/ /\ \A i \in Slots : ~Raised(i)
          /\ pending' = pending \ snap
          /\ queueMutex' = "free" /\ npc' = "wait"
          /\ UNCHANGED <<cur, mask, scan>>
       \/ \E i \in Slots :
          /\ OldestRaised(i)
          /\ cur' = i /\ mask' = {i} /\ scan' = 0
          /\ npc' = "scan"
          /\ UNCHANGED <<pending, queueMutex>>
    /\ UNCHANGED <<listVars, slotVars, threadVars, gpuVars, interruptCount, sema, snap,
                   todo, histVars>>

\* Seeded fault: the pipeline position is not compared.
MissedAnySource(i, j) == head[i] # "null" /\ stampOf[i] < stampOf[j]

\* Seeded fault: a missed interrupt is not looked for.
MissedNever(i, j) == FALSE

\* Slot i must have been raised before slot j, so its interrupt is missing.
Missed(i, j) == head[i] # "null" /\ stampOf[i] < stampOf[j] /\ source[i] <= source[j]

\* One round of "Check whether there is a missed interrupt".
NotifyScan ==
    /\ npc = "scan" /\ scan < NumSlots
    /\ scan' = scan + 1
    /\ IF Missed(scan, cur)
       THEN cur' = scan /\ mask' = {}
       ELSE UNCHANGED <<cur, mask>>
    /\ UNCHANGED <<listVars, slotVars, threadVars, gpuVars, isrVars, queueMutex, npc,
                   snap, todo, histVars>>

\* Seeded fault: the bit of the slot stays in the mask.
NotifyClaimKeepBit ==
    /\ npc = "scan" /\ scan = NumSlots
    /\ todo' = recs[cur]
    /\ head' = [head EXCEPT ![cur] = "null"]
    /\ recs' = [recs EXCEPT ![cur] = <<>>]
    /\ freeQueueCount' = freeQueueCount + 1
    /\ queueMutex' = "free" /\ npc' = "handle"
    /\ UNCHANGED <<listVars, stampOf, source, stamp, lastID, threadVars, gpuVars, pending,
                   interruptCount, sema, snap, cur, mask, scan, histVars>>

\* The slot is emptied and eventQueueMutex released.
NotifyClaim ==
    /\ npc = "scan" /\ scan = NumSlots
    /\ pending' = pending \ mask
    /\ todo' = recs[cur]
    /\ head' = [head EXCEPT ![cur] = "null"]
    /\ recs' = [recs EXCEPT ![cur] = <<>>]
    /\ freeQueueCount' = freeQueueCount + 1
    /\ queueMutex' = "free" /\ npc' = "handle"
    /\ UNCHANGED <<listVars, stampOf, source, stamp, lastID, threadVars, gpuVars,
                   interruptCount, sema, snap, cur, mask, scan, histVars>>

\* Perform one record and free it, without any lock.
NotifyRecord ==
    /\ npc = "handle" /\ todo # <<>>
    /\ delivered' = Append(delivered, todo[1])
    /\ todo' = Tail(todo)
    /\ UNCHANGED <<listVars, slotVars, threadVars, gpuVars, isrVars, queueMutex, npc,
                   snap, cur, mask, scan, adder, added, passed>>

NotifyDone ==
    /\ npc = "handle" /\ todo = <<>>
    /\ npc' = "top"
    /\ UNCHANGED <<listVars, slotVars, threadVars, gpuVars, isrVars, queueMutex,
                   snap, cur, mask, scan, todo, histVars>>

-----------------------------------------------------------------------------
Submit(t) ==
    \/ SubmitCheck(t) \/ EnterCommit(t) \/ SubmitNext(t) \/ LockList(t) \/ GetEvent(t)
    \/ MoveQueue(t) \/ Reserve(t) \/ ReserveNewQueue(t) \/ CountInterrupt(t)
    \/ Execute(t) \/ ExitCommit(t)

Commit(t) == StartCommit(t) \/ CommitRecord(t) \/ EndRecords(t) \/ ForceRecord(t)

Notify == NotifyWake \/ NotifyRead \/ NotifyPick \/ NotifyScan \/ NotifyClaim
          \/ NotifyRecord \/ NotifyDone

GPU == \E i \in Slots : FrontEndEvent(i) \/ PixelEvent(i)

Next == (\E t \in Threads : Commit(t) \/ Submit(t)) \/ GPU \/ BusError \/ Interrupt \/ Notify

Spec == Init /\ [][Next]_vars

\* A thread inside the driver runs on, the mutexes are granted to every waiter
\* (the kernel's are queues), the GPU executes what it is given, the interrupt
\* line works and the interrupt thread is scheduled.  No thread has to start a
\* commit.
Fairness ==
    /\ \A t \in Threads : /\ WF_vars(EndRecords(t)) /\ WF_vars(ForceRecord(t))
                          /\ SF_vars(EnterCommit(t))
                          /\ WF_vars(Submit(t))
    /\ WF_vars(GPU) /\ WF_vars(Interrupt) /\ WF_vars(Notify)

LiveSpec == Spec /\ Fairness

-----------------------------------------------------------------------------
(* gckEVENT_Submit's error path, kept out of Next: gckCOMMAND_Reserve runs *)
(* out of memory for the record of the page it leaves.  The command queue  *)
(* is released first, and then the slot of "id" is cleared without         *)
(* eventQueueMutex.                                                        *)

ReserveFail(t) ==
    /\ pc[t] = "reserve"
    /\ mutexQueue' = NoThread
    /\ pc' = [pc EXCEPT ![t] = "unroll"]
    /\ UNCHANGED <<listVars, slotVars, id, gpuVars, isrVars, notifyVars, histVars>>

UnrollEvent(t) ==
    /\ pc[t] = "unroll"
    /\ head' = [head EXCEPT ![id[t]] = "null"]
    /\ recs' = [recs EXCEPT ![id[t]] = <<>>]
    /\ pc' = [pc EXCEPT ![t] = "idle"]
    /\ UNCHANGED <<listVars, stampOf, source, stamp, lastID, freeQueueCount, mutexQueue,
                   id, gpuVars, isrVars, notifyVars, histVars>>

FailingSpec ==
    Init /\ [][Next \/ \E t \in Threads : ReserveFail(t) \/ UnrollEvent(t)]_vars

-----------------------------------------------------------------------------
Positions == {"idle", "add", "force", "check", "enter", "loop", "lock", "get",
              "move", "reserve", "exec", "link"}
Queues == [source : Sources, recs : Seq(Records)]

ListTypes ==
    /\ list \in Seq(Queues) /\ freeList \in Nat /\ listMutex \in Threads \cup {NoThread}
SlotTypes ==
    /\ head \in [Slots -> {"null", "invalid", "records"}]
    /\ recs \in [Slots -> Seq(Records)]
    /\ stampOf \in [Slots -> Nat] /\ source \in [Slots -> Sources]
    /\ stamp \in Nat /\ lastID \in Slots /\ freeQueueCount \in Int
ThreadTypes ==
    /\ mutexQueue \in Threads \cup {NoThread}
    /\ pc \in [Threads -> Positions] /\ id \in [Threads -> Slots]
GpuTypes ==
    /\ gpu \in [Slots -> {"ring", "pipe", "done"}] /\ at \in [Slots -> Nat] /\ tail \in Nat
    /\ ack \subseteq Slots \cup ErrorBits /\ lost \in Nat
IsrTypes ==
    /\ pending \subseteq Slots \cup ErrorBits /\ interruptCount \in Int /\ sema \in Nat
NotifyTypes ==
    /\ queueMutex \in {"free", "held"}
    /\ npc \in {"wait", "top", "pick", "scan", "handle"}
    /\ snap \subseteq Slots /\ cur \in Slots /\ mask \subseteq Slots
    /\ scan \in 0 .. NumSlots /\ todo \in Seq(Records)
HistTypes ==
    /\ adder \in [Records -> Threads \cup {NoThread}]
    /\ added \in Seq(Records) /\ delivered \in Seq(Records) /\ passed \subseteq Records

\* The variables hold values of their types.
TypeOK ==
    /\ ListTypes /\ SlotTypes /\ ThreadTypes /\ GpuTypes
    /\ IsrTypes /\ NotifyTypes /\ HistTypes

(* What a caller may rely on.                                              *)

Listed(r) == \E k \in DOMAIN list : r \in Elements(list[k].recs)
HandedOver(r) ==
    \/ \E i \in Slots : r \in Elements(recs[i])
    \/ r \in Elements(todo) \/ r \in Elements(delivered)

\* When gckEVENT_Submit has returned, every record its caller added has left
\* the list, for a slot that still holds it or for gckEVENT_Notify: the caller
\* will wait for it (gckCOMMAND_Stall), and a concurrent Submit of another
\* thread may have taken it instead.
SubmitFlushes ==
    \A t \in Threads : pc[t] = "idle" =>
        \A r \in Records : adder[r] = t => ~Listed(r) /\ HandedOver(r)

\* The thread in gckEVENT_Submit finds a queue when it holds eventListMutex:
\* queueHead is tested before the mutex is taken, and used after.
SubmitSeesQueue ==
    \A t \in Threads : pc[t] \in {"get", "move"} => list # <<>> /\ listMutex = t

\* gckEVENT_Notify performs a record (a signal, an unlock) only after the GPU
\* has executed its EVENT command, whatever interrupts were lost.
AllPassed(s) == \A k \in DOMAIN s : s[k] \in passed
NoEarlyDelivery == AllPassed(todo) /\ AllPassed(delivered)

\* The slot gckEVENT_Notify settles on holds a list of records: neither NULL
\* nor the gcdINVALID_EVENT_PTR of a slot reserved by gckEVENT_GetEvent.
ClaimsRecords == npc = "scan" => head[cur] = "records"

\* An interrupt bit belongs to the event that now has the slot, never to an
\* event already handled: a stale bit would complete the next user's event.
NoStaleInterrupt ==
    \A i \in Slots \cap (ack \cup pending) :
        /\ head[i] = "records" /\ gpu[i] = "done"
        /\ ~\E t \in Threads : Submitting(t, i)

\* gckEVENT_AllocateQueue cannot fail: the list has at most one queue of each
\* source, in the order of the pipe.
RepoQueuesSuffice ==
    /\ Len(list) + freeList = RepoCount
    /\ Len(list) <= 2
    /\ Len(list) = 2 => list[1].source < list[2].source

\* freeQueueCount is the number of free slots whenever eventQueueMutex is free.
SlotAccounting == freeQueueCount = Cardinality({i \in Slots : Free(i)})

\* interruptCount, which the monitor timer watches, counts the EVENT commands
\* whose interrupt has not reached the CPU, and for ever the ones it never will.
InterruptBalance ==
    interruptCount = Cardinality({i \in Slots : gpu[i] \in {"ring", "pipe"}})
                   + Cardinality(ack \cap Slots) + lost
                   + Cardinality({t \in Threads : pc[t] = "link"})

\* Records of the pixel pipe are performed in the order in which they were
\* added, without a gap and each once: a WRITE_DATA or UNLOCK before the SIGNAL
\* that reports it, also when the interrupt of one of them was lost.
PixelInOrder ==
    /\ \A m, n \in DOMAIN delivered : delivered[m] = delivered[n] => m = n
    /\ \A k \in DOMAIN added, n \in DOMAIN delivered : delivered[n] = added[k] =>
          \A j \in 1 .. k - 1 : \E m \in 1 .. n - 1 : delivered[m] = added[j]

(* The event manager implements EventDelivery.                             *)

Phase(r) ==
    IF r \in Elements(delivered) THEN "performed"
    ELSE IF r \in passed THEN "passed"
    ELSE IF \E i \in Slots : r \in Elements(recs[i]) THEN "submitted"
    ELSE IF r \in Unused THEN "new" ELSE "queued"

Delivery == INSTANCE EventDelivery
    WITH phase <- [r \in Records |-> Phase(r)], performed <- delivered

\* Every record is queued, submitted, passed by the GPU and performed, in this
\* order and once: none is dropped, submitted twice or performed twice.
ImplementsDelivery == Delivery!Spec

\* Every record added is performed in the end, when no interrupt is lost.
EventuallyDelivered ==
    \A r \in Records : r \notin Unused ~> r \in Elements(delivered)

-----------------------------------------------------------------------------
(* The inductive invariant behind NoEarlyDelivery and NoStaleInterrupt.    *)

Busy(i) == head[i] # "null"
InFlight(i) == gpu[i] \in {"ring", "pipe"}
NotSubmitting(i) == \A t \in Threads : ~Submitting(t, i)

\* The GPU has executed the EVENT command of the records now in slot i.
Executed(i) == Busy(i) /\ gpu[i] = "done" /\ NotSubmitting(i)

\* Slot i is raised before slot j.
Before(i, j) == Busy(i) /\ Busy(j) /\ stampOf[i] < stampOf[j] /\ source[i] <= source[j]

Locks ==
    /\ \A t \in Threads :
        /\ mutexQueue = t <=> pc[t] \in {"loop", "lock", "get", "move", "reserve", "exec", "link"}
        /\ listMutex = t <=> pc[t] \in {"get", "move"}
        /\ pc[t] \in {"lock", "get", "move"} => list # <<>>
    /\ queueMutex = "held" <=> npc \in {"pick", "scan"}

\* A slot is reserved, or holds records that are being submitted, are in the
\* GPU, or have been executed by it.
SlotState ==
    /\ \A i \in Slots : head[i] = "invalid" => ~NotSubmitting(i)
    /\ \A t \in Threads : \A i \in Slots : Submitting(t, i) =>
        /\ head[i] = (IF pc[t] = "move" THEN "invalid" ELSE "records")
        /\ gpu[i] = "done" /\ stampOf[i] = stamp
    /\ \A i \in Slots : InFlight(i) => head[i] = "records" /\ NotSubmitting(i)

Stamps ==
    /\ \A i \in Slots : stampOf[i] <= stamp
    /\ \A i, j \in Slots : Busy(i) /\ Busy(j) /\ i # j => stampOf[i] # stampOf[j]

\* Stamps are given out in the order in which the commands are written, and
\* the pixel pipe holds what the front end executed before the ring.
RingOrder ==
    /\ \A i \in Slots : InFlight(i) => at[i] < tail
    /\ \A i \in Slots : gpu[i] = "pipe" => source[i] = gcvKERNEL_PIXEL
    /\ \A i, j \in Slots : InFlight(i) /\ InFlight(j) /\ stampOf[i] < stampOf[j] => at[i] < at[j]
    /\ \A i, j \in Slots : gpu[i] = "pipe" /\ gpu[j] = "ring" => at[i] < at[j]

\* Events are executed in their order.
Executions == \A i, j \in Slots : Before(i, j) /\ Executed(j) => gpu[i] = "done"

\* Interrupt bits arrive in the order of the events.
Bits ==
    /\ \A i \in Slots \cap (ack \cup pending) : Executed(i)
    /\ ack \cap pending \cap Slots = {}
    /\ \A i, j \in Slots : Before(i, j) /\ j \in pending => i \notin ack

NotifyState ==
    /\ npc = "pick" =>
        /\ snap \subseteq pending
        /\ \A i, j \in Slots : Before(i, j) /\ j \in snap => i \notin ack \cup (pending \ snap)
    /\ npc = "scan" =>
        /\ Executed(cur) /\ cur \notin ack
        /\ mask = {cur} \/ (mask = {} /\ cur \notin pending)
        /\ \A i \in Slots : Before(i, cur) => i \notin ack \cup pending

PassedRecords ==
    /\ \A i \in Slots : Executed(i) => AllPassed(recs[i])
    /\ NoEarlyDelivery

IInv == /\ TypeOK /\ Locks /\ SlotState /\ Stamps /\ RingOrder /\ Executions
        /\ Bits /\ NotifyState /\ PassedRecords
=============================================================================
