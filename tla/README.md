# A TLA+ model of the galcore kernel driver

This directory holds TLA+ specifications of the Vivante/VeriSilicon NPU kernel
driver (`galcore`, version 6.3.2.5) in `src/hal/kernel` and
`src/hal/os/linux/kernel`, the TLC configurations that check them on small
instances, and TLAPS proofs of what matters most. The driver is C and runs as
system calls of many threads, an interrupt routine, an interrupt thread, timers
and a GPU that reads and writes the same memory. The specifications are about
that concurrency; the programming of registers is left out.

## 1. The system

A user library writes command buffers and asks the driver, through ioctls, to
execute them. The driver appends them to a ring that the GPU fetches from, and
raises signals in user processes when the GPU has got past certain points.

```
 ioctl COMMIT ─► _Commit ─► gckCOMMAND_Commit ─► ring of pages ─► front end (GPU)
                    │            ▲  │ page signals    ▲                │ EVENT n
                    ▼            │  ▼                 │                ▼
              gckEVENT_Commit ─► event list ─► gckEVENT_Submit    interrupt line
                                                (slot n)               │
   signals, unlocks ◄─ gckEVENT_Notify ◄─ interrupt thread ◄─ isrRoutine
```

| Component (source) | State | Operations | Interacts with | What is hard, and what makes it correct |
|---|---|---|---|---|
| Event manager, `gckEVENT` (`gc_hal_kernel_event.c`) | list of queues not submitted, 29 slots with stamp and source, pending mask, `interruptCount`; `eventListMutex`, `eventQueueMutex` | `AddList`, `Submit`, `GetEvent`, `Commit`, `Interrupt`, `Notify` | command queue (`Reserve`, `Execute`), interrupt path, video memory, signals | Threads, interrupt and GPU interleave; interrupts get lost. A record is performed once, in order, and never before the GPU got there; slots and queues are not leaked. |
| Interrupt path (`gckHARDWARE_Interrupt`, `isrRoutine`, `threadRoutine`) | acknowledge register, semaphore of the interrupt thread | merge the mask, wake the thread, resume a paused front end | event manager, command queue | Merged or late interrupts; no wake-up is lost. |
| Command queue, `gckCOMMAND` (`gc_hal_kernel_command.c`, `gc_hal_kernel_hardware_waitlink_fe.c`) | pages, `offset`, `newQueue`, `waitPos`, `currContext`, page signals; power semaphore, `mutexQueue` | `EnterCommit`, `ExitCommit`, `Commit`, `Reserve`, `Execute`, `Start`, `Stop`, `Stall` | front end (shares the pages), event manager (gives pages back), power management | The GPU fetches while the driver writes; pages are used again; the wait for a page can depend on the waiter. Every command is executed once, in order, with the right context. |
| Commit ioctl, `_Commit` (`gc_hal_kernel.c`) | `commitMutex` | commit the chain of buffers, then the events | command queue, event manager | Failure in the middle. |
| Power management (`gckHARDWARE_SetPowerManagementState`) | power state, power mutex, global semaphore, idle timer | on, idle, suspend, off; broadcasts | command queue (stall, stop, start), event manager (`IsEmpty`) | Never stops a queue in use, never leaves it off with work to do. |
| Fences, commit stamps (`_WaitFence`, `gckFENCE_Signal`) | waiting lists, stamps | wait for a stamp, signal | event manager, video memory | Not in this build, see section 6. |
| Monitor timer, recovery (`_MonitorTimerFunction`, `gckKERNEL_Recovery`) | what was seen last, time | reset the GPU, complete the events | event manager | Races with interrupts that arrive after all. |
| Asynchronous and multi-channel front ends (`…_async_fe.c`, `…_mc_fe.c`, `gc_hal_kernel_command.c` 535–1000) | descriptor rings, semaphore ring, pending ring | execute on a channel, synchronise channels | event manager | Not in this build, see section 6. |
| Contexts (`gc_hal_kernel_context.c`; deltas in `hal/user/arch/gc_hal_user_hardware.c`) | two context buffers per client with their signals, a ring of three state deltas in shared memory | attach, detach, `gckCONTEXT_Update`, `_UpdateDelta` | command queue, event manager, user library | Two processes change the deltas. A client finds the registers as it left them; a buffer is written again only when the GPU is through with it. |
| Video memory objects (`gc_hal_kernel_video_memory.c`, `gc_hal_kernel.c`) | node references, handles per process, lock counts | allocate, lock, unlock in two halves, release, export and import | process database, event manager | The second half of an unlock comes from an event, maybe after the process has gone. |
| Linear heap (`gckVIDMEM`) | doubly linked nodes | `AllocateLinear`, `Free`, `_Split`, `_Merge` | video memory | The nodes stay a partition. |
| Page tables (`gckMMU`) | free list inside the map, `pageTableDirty` | allocate, free, collect, flush | command queue (flush) | Encoding of runs of 0, 1 and more pages; use after free until the flush. |
| Process database (`gc_hal_kernel_db.c`) | records per process | add, remove, attach, detach | all allocations | A process that dies leaves nothing and loses nothing in flight. |
| Kernel heap, integer ids, shared buffers, DVFS | — | — | — | Small, sequential; DVFS is compiled out. |
| `gckHARDWARE` programming, recorder; Linux layer; DRM and sync files | — | — | — | Data for the hardware; the kernel's own primitives. |
| Security build (`src/hal/security`, `…_security*.c`) | — | — | — | `gcdSECURITY` is 0. |
| User library (but for the deltas), OpenVX service, headers, prebuilt libraries | — | — | — | Clients of the ioctls. |

`PROJECT.json` lists the same components with their status, and the hazards of
the code line by line.

## 2. The modules

| Module | What it is |
|---|---|
| `EventManager` | the event manager, the interrupt path, and the GPU as the source of interrupts |
| `EventDelivery` | what the event manager promises: each record is queued, submitted, passed by the GPU, performed (`phase`), and performed once (`performed`) |
| `EventManagerProofs` | the theorems about `EventManager` |
| `EventDeliveryProofs` | the theorems that `EventManager` implements `EventDelivery` and keeps the order of the pixel pipe |
| `CommandQueue` | the command queue with the commit ioctl, power transitions as the queue sees them, and the front end that reads its pages |
| `CommandQueueProofs` | its four theorems: pages, order, contexts |
| `MCEventManager`, `MCCommandQueue` | symmetry sets for TLC |
| `PowerManagement` | `gckHARDWARE_SetPowerManagementState` with all its callers: commits, interrupt thread, delayed power-off, suspend and resume |
| `PowerManagementProofs` | its five theorems |
| `VideoMemory` | nodes, names, handles, locks, their two-part unlock, and the process database |
| `VideoMemoryProofs` | that references and locks are counted, that nothing names a freed node, and that a database is destroyed with no handle left |
| `AddressSpace` | what an allocator promises: intervals in use are disjoint |
| `LinearHeap`, `MmuArea` | the two allocators of the driver, each with the instance of `AddressSpace` it implements |
| `AllocatorProofs` | that they do implement it, keep their lists in order and find room; and the types of `MCParts` |
| `Recovery` | the monitor timer and `gckKERNEL_Recovery`, with a second `gckEVENT_Notify` |
| `RecoveryProofs` | that no record is performed twice; and, until a recovery is mistaken about a slot, that none is early, only a hanging GPU is reset, the count is exact, and what a reset skips is completed; its types |
| `ContextUpdate` | contexts, their buffers and deltas, and the commits that switch between them |
| `ContextUpdateProofs` | that a command buffer finds the registers right, and three more theorems |
| `MCParts` | `LinearHeap`, `MmuArea` and `Recovery` in one instance; a behaviour runs one of them |

`EventManager` and `CommandQueue` are two views of one system, and each contains
what it needs of the other one: `EventManager` lets `Reserve` add the record that
gives a page back (`ReserveNewQueue`); `CommandQueue` carries page signals
through `list`, `batch` and `raised`, in the phases of `EventDelivery`, and
leaves out slots and interrupts.

### EventManager

* Threads (`pc`) are ioctls of user threads, `gckCOMMAND_Stall`, the detach of a
  process and the submit timer. They run `gckEVENT_Commit` (`StartCommit`,
  `CommitRecord`, `EndRecords`, `ForceRecord`) and `gckEVENT_Submit` (the rest),
  one action per piece of code between two accesses to shared state that another
  actor can tell apart. They are not serialised by `commitMutex`: the last three
  callers do not take it.
* `list` is `queueHead`…`queueTail`, `freeList` counts `repoList`.
  `head[i]` is `queues[i].head` with its three kinds of value: `gcvNULL`,
  `gcdINVALID_EVENT_PTR`, or records (`recs[i]`).
* `gpu[i]`, `at`, `tail`, `ack` are the hardware (external): the front end takes
  EVENT commands in ring order, raises a COMMAND event at once and sends a
  PIXEL event down the pipe, which raises it later. At most `MaxLost` interrupts
  never arrive. `ErrorBits` are bits 30 and 31 of the mask.
* `NotifyRead`, `NotifyPick`, `NotifyScan`, `NotifyClaim` are the parts of
  `gckEVENT_Notify` under `eventQueueMutex`. They are separate actions because
  the interrupt routine and `MoveQueue` do not take that mutex.
* `adder`, `added`, `delivered`, `passed` are history variables.

Records are counted by the model value set `Records`: each is used once, which
bounds every behaviour. Stamps are unbounded (64 bits in the code). What a
record does to video memory, the commit stamp and the fence in `gckEVENT_Notify`
(lines 1896–1908) are left out; `_TryToIdleGPU` is in `PowerManagement`, a record
that unlocks a node in `VideoMemory`; `gckEVENT_FreeProcess` has no caller.

### CommandQueue

* The unit of space is a WAIT/LINK. `mem[p][o]` is what is in a page: a WAIT, a
  LINK to somewhere, an END, or a command of the kernel. A command that is not
  at the end of the page needs one unit for itself and one for the WAIT/LINK
  behind it, as `gckCOMMAND_Reserve` does.
* `fe` is where the front end is: at a place of a page, in a user's command
  buffer (which ends in a LINK back), paused behind EVENT 29, or stopped.
* `waitPos`, `offset`, `newQueue`, `index`, `running`, `currContext` are the
  fields of `gckCOMMAND`; `pageSignal` is `queues[i].signal`.
* A commit is `CommitEnter`, `CommitFlush`, `CommitSpace`, `CommitWrite`,
  `CommitLink` for each buffer of the chain, then `UserEvents` and
  `gckEVENT_Submit`. The split follows the order in which memory becomes visible
  to the front end.
* `Power` is the thread in `gckHARDWARE_SetPowerManagementState`, and the start of
  the driver: it takes the power semaphore, stalls or finds the GPU idle, stops
  the queue, may take the power off (`InitializeHardware` when it comes back),
  and starts the queue. `Spinning` stands for `gckHARDWARE_QueryIdle`; its test
  of `interruptCount` is left out, so the model stops in more states than the
  code does. `commitAtom` only makes power management give up more often and is
  left out too.
* The contents of the patch list, profiling, the recorder, the context switching
  mutex of shared contexts, and commits to several cores are left out.

### PowerManagement

* The code is the one compiled with `gcdPOWER_MANAGEMENT_REFINEMENT` 1
  (`gc_hal_kernel_hardware.h:64`): `_PmStallCommand`, `_PmSetPowerOnDirection`,
  `_PmSetPowerOffDirection`, `_PmInitializeGPU`, and
  `gckHARDWARE_SetPowerManagementState` above them.
  `request[a]` is the argument of the call actor `a` is in, split into where it
  wants to go and how (global, automatic, broadcast, timeout).
* A call is `LockBusy`, `LockUnchanged`, `LockGlobal` or `LockLocal`; then maybe
  `WaitGlobal` and `Relock`; `BroadcastBlocked`, `BroadcastAborts`,
  `BroadcastTakes` or `GlobalTakes` for the power semaphore; `StallSubmit` and
  `Drain`; `PowerOff` or `PowerOn`; `Release`, `Save`. Two threads can be in it at
  once: it lets go of the mutex while it waits for the global semaphore.
* `EnterCommit` … `LeaveCommit` and `WriteEvent` are a commit; `IsEmpty` and
  `TryToIdle` are what follows a submit and a notification. `IsEmpty` is a step
  of its own: nothing keeps its answer true until the broadcast.
* `busy`, `interruptCount`, `pending` stand for the ring and the slots;
  `loaded` is whether the GPU has the context that `currContext` claims.
* Left out: the option that disables power management, DVFS, IDLE broadcasts
  (compiled out), the cache flushes of FPGA and GC400, and failures on the way
  down (`PowerOnFails` is the one on the way up).

### VideoMemory

* `reference`, `named`, `locked`, `mapped`, `fds` belong to a node; `handles`,
  `owned`, `locks`, `opens`, `deleted` to a process database; `pending` counts the
  UNLOCK records of a node in the event manager. A process is in one ioctl
  (`call`), cut where another process or the interrupt thread can come in between:
  a handle is looked up, then the node referenced; the node is locked, then the
  lock recorded.
* The second half of an unlock is `BottomHalf` (ioctl) or `Notify` (interrupt
  thread, maybe of a process that is gone). `Detach` closes the last file;
  `CleanMemory`, `CleanLock`, `Unlink` are the loop of
  `gckKERNEL_DestroyProcessDB`, one record a step.
* Inputs are those of the user library: a process names its own handles, one
  call at a time per process, and undoes a lock once.
* Left out: CPU mapping counts, dma_buf export, the dmabuf branch of
  `WrapUserMemory`, tile-status nodes, counters of the database, the order of its
  records; and a name for which there is no id: `gckVIDMEM_NODE_Name`
  (`gc_hal_kernel_video_memory.c:3046`) then dereferences the node with the mutex of the
  name database taken, for which `gckVIDMEM_NODE_Dereference` (2177) waits, so that
  the thread, and whoever drops a reference from then on, hang. One thread is
  enough for that. `LockNodeFails` is not part of `Next`: `_LockVideoMemory` then undoes
  a GPU lock it has not got (`gc_hal_kernel.c:1410`; `address` starts as
  `gcvINVALID_ADDRESS`, which is not zero, so `if (address)` always holds), and under
  `FailingSpec` TLC finds `LockCount` violated. It is a hazard without a run,
  since nothing in the repository says otherwise.

### AddressSpace, LinearHeap, MmuArea

* `LinearHeap`: the doubly linked ring of nodes and the ring of free nodes, with
  the pointers as they are in memory; `_FindNode` with its alignment and its
  two search directions, `_Split` (which may fail for lack of a record,
  `AllocateUnsplit`), `_Merge`. One bank.
* `MmuArea`: the free list that is encoded in the words of the map itself (a
  single free page has its link in the word, a longer run its length and the link
  in the second word), `_AllocatePages`, `_FreePages` and `_Collect`, word by word.
* `HeapImplements` and `AreaImplements` are their refinements of `AddressSpace`:
  what was handed out, read from the nodes and from the callers' records.
* Left out: several banks, alignment to a bank, the vertex range of MMU version 0,
  `_FillFlatMappingInMap`, the secure area.

### Recovery

* The actors are a thread in `gckEVENT_Submit` (`BeginSubmit` takes the time
  stamp, then `GetSlot`, `Count`, `WriteEvent`, `ExecuteEvent`), the front end
  (`Pass`, `Hang`), the interrupt routine, the interrupt thread, the timer
  (`Tick`) and the recovery it calls (`Reset`, `SetPending`, `ClearPendingEvent`,
  then `Claim`, `Walk`, `EndNotify` of the walker `"monitor"`).
* It is about accounts: `interruptCount`, `pendingEvent`, `pending` and what the
  monitor remembers. The event manager is reduced to what they need: one source,
  one record per slot, and a read of `pending`, the search and the claim as one
  step; `EventManager` has those apart.
* **Timing.** Nothing is kept apart that the code does not keep apart: a submit
  begins with all slots in use and waits for one with its stamp taken; the restarted
  GPU passes EVENTs, the interrupt routine merges, the interrupt thread claims and
  slots are reused between any two steps of `gckKERNEL_Recovery`. The one assumption
  is `late`: half a time-out (10 s) is longer than any other step under way, so what
  one tick has seen begun is done at the next. Without it no monitor of this kind
  could tell a hang. It does not hold of a submit that waits for a slot.
* **Where the code goes wrong.** Two history variables name it, and the properties
  hold but for what they name; without these exceptions TLC refutes each of them
  with two slots, one hang and three commits (`SkippedHandled` with four). The recorded mask names slots, and a slot of it
  may hold another commit by the time it is used (`mistaken`):
  - *False alarm* (`gc_hal_kernel_event.c:1278`). All slots are in use and a submit
    waits, its stamp taken. The monitor looks. The GPU goes on, an interrupt empties a
    slot, the submit gets it, and `gckWLFE_Event` notes the same bit as pending again. A look
    before `gckCOMMAND_Execute` finds stamp, end of the queue and mask as they were,
    and resets a GPU that works.
  - *Early completion* (`gc_hal_kernel.c:4066`). The restarted GPU completes the commit
    behind the hang before the monitor has handed over its mask, and the one that hung
    with it, as a missed interrupt; the waiting submit gets a slot of the mask; the
    mask then completes that new commit, although the GPU has not got to it.

  And the mask is stored, not merged (`gc_hal_kernel.c:4066`, where
  `gckEVENT_Interrupt` has `AtomSetMask`), so that bits merged since the reset are gone
  (`wiped`):
  - *Lost completion.* Commit 1 hangs; commit 2 is behind the recorded end of the queue.
    The restarted GPU passes it, its interrupt is taken, and the store drops its bit.
    The interrupt does not come again, so commit 2 is performed only if a later commit
    is; the count is down, so the monitor does not look.
* Left out: `recovery = 0` and the stuck dump, a reset that fails,
  `monitorTimerStop`, the pages of the ring (`ring` is a sequence), `currContext`,
  lost interrupts. A lost interrupt whose slot another one completes leaves
  `interruptCount` positive for ever, and only a negative count is corrected:
  such an idle GPU would be reset every 20 s.

### ContextUpdate

* A `State` is a register, or a field of one that is written with a mask: a masked
  state is as many States as it has fields, since the library never writes one
  address both with and without a mask. `Set` is what setting states does to
  registers, to a buffer and to a delta alike.
* `records`, `refCount`, `delta` are the three deltas of a client in memory that
  the library and the driver share; `state`, `signal`, `first`, `deltaCount`,
  `buffer` are the two context buffers and the fields of `gckCONTEXT`.
* A commit is `StartCommit` (the library has recorded a command buffer),
  `EnterCommit`, `Update` (`gckCONTEXT_Update`: wait, merge, attach the delta to both
  buffers, add the event, advance) or `NoUpdate`, `Link`, `Submit`, `Return`
  (with `_UpdateDelta` of the library). `Submit` may also be another thread's.
* The ring and the slots are reduced to `commands`, what the front end has still to
  execute with the records of the events behind it, and `passed`. `CommandQueue`
  and `EventManager` have them in full.
* `registers` is the GPU; after a power-off it knows nothing (`PowerCycle`), nor
  after a buffer without a context (a 2D buffer, `gc_hal_user_buffer.c:2577`).
  `Attach` gives a client new deltas and buffers; a context that comes again may have
  the address of the one before it, which is why `Destroy` must clear `currContext`.
* Left out: the tables that give each state its place in a buffer, the count of
  vertex attributes, shared contexts, commits that fail (`_UpdateDelta` runs behind
  them as well), and the forced DETACH of a process that dies, which frees the buffers
  while commands of it may be queued (`gc_hal_kernel_db.c:1311`).

## 3. What the runs check

All bounds are CONSTANTS in the `.cfg`; history counters stop new work, never
work in progress.

| Run | Question | Bounds, and why they are enough |
|---|---|---|
| `event_safety` | `SubmitFlushes`, `SubmitSeesQueue`: `queueHead` is tested unlocked. `NoEarlyDelivery`, `PixelInOrder`: lost and merged interrupts. `NoStaleInterrupt`: slots used again. `RepoQueuesSuffice`, `InterruptBalance`: counts. No deadlock. | 2 threads, 3 records, 2 slots, 1 lost interrupt, 1 error bit, forced commits. Three records use two slots more than once, a COMMAND and a PIXEL event can overtake each other, and two threads can be in `Submit`. |
| `event_live` | `EventuallyDelivered`, `ImplementsDelivery` | 2 threads, 2 records, one slot: a thread polls in `GetEvent` with `eventListMutex` held while the other one wants it. |
| `event_unroll` (violation) | `SlotAccounting` under `FailingSpec`, which adds the error path of `Submit` | one failure is enough |
| `context_update` | `RegistersRight`: does a command buffer find what its client has set, with others and power-offs in between? `DeltaFree`: are three deltas enough? `UpdateReturns`: does the wait for a context buffer end? | 2 clients, 1 register with 2 values, 4 commits. With power-offs a single client switches at each commit, so four go once round its three deltas and use both buffers twice; with two clients each waits for a buffer behind the other one's commands. Registers do not influence each other. The theorems have no such bounds. |
| `command_safety` | `ExecutesInOrder`, `PageAccounting`, `PageLeft`, `ContextLoaded` | 2 threads, 2 contexts, 2 pages of 4 units, chains of 2, 4 commands, 1 flush with its pause, 1 failed commit, 1 power transition. Four commands of one or two units and their release events fill a page of 4 units several times over, so that both pages are used again. |
| `command_live` | `CommitsReturn` | 2 threads, one buffer per commit, no failure, 1 power transition |
| `command_chain` (violation) | `WaitedPageSubmitted` | a chain of 4 buffers over pages of 2 units |
| `command_context` (violation) | `ContextLoaded` under `FailingSpec`, which adds the late failure of a commit | one failure is enough |
| `power` | `PoweredWhileBusy`, `SemaphoreAccounting`: does a transition ever meet a commit? `ContextCurrent`: is a lost context loaded again? `DelayedSparesOn`: may the delayed power-off strike late? `CallsReturn`: does everybody come back? | one client, the interrupt thread, the timer and the system, one event. The four contend for the mutex and both semaphores in every order; an unbounded number of commits and transitions. A run with two clients (3.28 million states, safety only, not kept for its length) finds nothing more; the theorems are for any number. |
| `power_global` (violation) | `GlobalHolds`, what the comment at `gc_hal_kernel_hardware.c:9076` says | as `power` |
| `video_memory` | `RefCount`, `LockCount`: does an owner always own? `NoDangling`: does anything name a freed node? `HandlesReturned`, `Reclaimed`: does a process that dies leave something? | 2 processes, 1 node, 2 handles, one file, lock, UNLOCK record and exported file each. The node can be shared by both processes under two handles, with the death of one in every step of the other; nodes do not influence each other. A node that was freed is allocated again. |
| `allocators_recovery` | `HeapRings`, `AreaList`: are the lists those of a partition? `HeapFindsSpace`, `AreaFindsPages`: is a request refused that fits? `HeapImplements`, `AreaImplements`: disjoint intervals | 8 bytes and 8 pages, requests of 1 to 3, alignments 1 and 4: runs of 0, 1, 2 and more are left over, and all orders of release are reached; no bound on the number of calls. |
| | `NeverTwice`, `NoneEarly`, `NoFalseAlarm`, `CountExact`, `SkippedHandled`, `AllDone` of `Recovery`: is a GPU that works reset, a commit done early, twice or never? | 2 slots, 4 commits, 2 hangs: submits wait for slots, commits are submitted and passed beside the recovery, slots of its mask are used again before, during and after it, and a second hang meets what the first has left. `mistaken` and `wiped` both occur. |

The four violations are described under `findings` in `PROJECT.json`:

1. The error path of `gckEVENT_Submit` undoes half of the slot's allocation.
2. A commit of a chain of buffers long enough to leave two pages waits for a
   page whose signal it has not submitted. Pages are 4096 bytes, 256
   WAIT/LINKs: such a chain is long, but nothing in the driver bounds it. This
   library sends chains only with a multi-channel front end or to several cores.
3. `currContext` is set before the commit can still fail.
4. A global OFF or SUSPEND that finds the GPU in this state already returns
   without the global semaphore, so a commit turns the GPU on while the system is
   suspended.

The fault paths 1 and 3 are kept out of `Next`, so that the other properties
speak of the paths that are right, and are added by `FailingSpec`.

**Page size.** `CommitsReturn` needs more than `PageSize >= 2`: the release of a
page travels in an event that takes two units itself, and is submitted only at
the end of the commit. A page must have room for all that is written between a
`_NewQueue` and the submission of its release; with one buffer per commit four
units are enough, with three TLC finds a deadlock. The driver's 256 units leave
ample room except for the chains of finding 2. A failed
commit returns without submitting as well, and leaves the release on the list until
somebody else submits; with one buffer per commit nobody waits for that page
meanwhile. `CommitsReturn` still holds with one failure, but this takes TLC more than
four minutes, so `command_live` has none.

**Fairness.** `LiveSpec` of both modules assumes that a thread inside the driver
runs on (weak fairness of its actions), that mutexes and semaphores are granted
to each waiter in turn (strong fairness of `EnterCommit`: Linux semaphores and
mutexes queue their waiters), that the GPU executes what it finds, that the
interrupt line works and that the interrupt thread is scheduled. In
`CommandQueue` a power transition that has begun ends with the queue started:
`gckCOMMAND_EnterCommit` broadcasts `gcvBROADCAST_GPU_COMMIT`, which turns the
GPU on, before it takes the semaphore. No thread is assumed to start anything.

In `PowerManagement` the mutex and semaphores serve their waiters (strong
fairness of clients and the system), whoever has the mutex, the GPU and the work
queue run on, a suspended system is resumed, and a power-up of the system does
not fail for ever. In `VideoMemory` a call that has begun, the destruction of a
database and the interrupt thread go on; processes may stop at any time, in
particular with everything locked. In `Recovery` threads, the interrupt routine
and a front end that is not hung go on, and the timer is started again and again.
In `ContextUpdate` a commit that has begun, the front end and the interrupt thread
go on; nobody else is assumed to submit, and the power need not go off.

**Types.** `TypeOK` of `EventManager` is an invariant of `event_safety`, and proved as
well; those of `PowerManagement` and `MCParts` and `ContextTypeOK` are only proved.
`CommandQueue` and `VideoMemory` state theirs for the reader.

**Mutants.** Each property is paired with a seeded fault of the code (marked
`Seeded fault` beside the definition it replaces) that violates it.

## 4. What is proved

`EventManagerProofs` and `EventDeliveryProofs`, for every number of threads,
records, slots, losses and queues (`RepoCount >= 2`):

| Theorem | Says |
|---|---|
| `TypeCorrect` | `TypeOK` |
| `SubmitFindsQueue` | a thread with `eventListMutex` in `Submit` finds a queue |
| `InterruptsBalance` | `interruptCount` is the number of interrupts to come, and of those lost (`InterruptBalance`) |
| `SubmitsAll` | when `Submit` has returned, every record of its caller has left the list, and is in a slot or with `Notify` (`SubmitFlushes`) |
| `NeverEarly` | no record is performed before the GPU has passed it |
| `NeverStale` | an interrupt bit belongs to the records now in its slot |
| `NeverClaimsEmpty` | `Notify` settles on a slot with records |
| `QueuesSuffice` | `gckEVENT_AllocateQueue` never fails: at most two queues are pending, since a record joins the last one unless that is of an earlier source (the comment at `gc_hal_kernel.h:966` expects three) |
| `Implements` | `Spec => ImplementsDelivery`: a record is submitted in one batch, passed and performed once, in this order |
| `PixelsInOrder` | records of the pixel pipe are performed in the order in which they were added, without a gap (`PixelInOrder`) |

The argument. That a record is not performed early depends on the missed-interrupt
scan: a slot with an older stamp and an earlier or equal source is completed
*without* its own interrupt. This is right only because

* `Stamps`: stamps are given out in the order in which the EVENTs are written
  (`GetEvent` to `Execute` under the command queue's mutex, `Locks`,
  `SlotState`);
* `RingOrder`: the ring and the pipe keep that order;
* `Executions`: so what is `Before` an executed slot has been executed;
* `Bits`: interrupt bits arrive in that order, and only for executed slots;
* `NotifyState`: which is still so for the mask that `Notify` read some time ago,
  while new bits arrive and new slots are filled;
* `PassedRecords`: whence the records of an executed slot have been passed.

`IInv` is their conjunction with `TypeOK`. None of the parts is inductive alone:
`Bits` needs `Executions`, this needs `RingOrder`, this needs `Stamps` and
`SlotState`. The proof has one lemma per action. `QueuesSuffice`,
`InterruptsBalance` and `SubmitsAll` are separate inductions on top of `IInv`. The
second needs from `Locks` that one thread at a time is about to link an EVENT, and
from `Bits` that a bit is not in the acknowledge register twice, for a bit merged
with another one would be counted once. The last has two invariants,
`NotOnList` (a thread returns only when it has seen the list empty) and `Places`
(an added record is on the list, in a slot, or with `Notify`, and the slot and
the walk it goes to are empty). `Implements` adds a third one, `Once`: a record is
at one position of one queue, slot or walk only, a queued record was never passed,
and an unused one is nowhere. With it each step that moves records changes the
phase of exactly those (`PhaseStep`): `AddList` is `Add`, `MoveQueue` is
`SubmitBatch`, `Raise` is `Pass`, `NotifyRecord` is `Perform`. `NotifyClaim` moves
records from a slot to the walk, but `NotifyState` and `PassedRecords` say that
the GPU has passed them already, so it stutters.

`PixelsInOrder` rests on a fourth invariant, `PixelOrder`. `Follows(r, s)` says that
`r` is in front of `s` wherever `s` is: in its queue or an earlier one, in its slot or
one with a lesser stamp, in the walk, or performed; `InTurn` says it of any two records
in the order added. The step that could break it is `NotifyClaim`, which may take a slot
while a lesser stamp is still in another. `Scanned` (the slots that the search has
looked at are not before its own, and nobody gets a slot meanwhile) and `PixelPlaces` (records
of the pixel pipe are only in queues and slots of that source) exclude it: a slot
with a lesser stamp has an earlier or the same source then, and is `Before` it.

The assumptions are those of
`EventManager`: `NoThread` is no thread, there is a slot, `RepoCount >= 2`, and
error bits are no slots.

`PowerManagementProofs`, for every finite number of clients and every `MaxEvents`:

| Theorem | Says |
|---|---|
| `TypeCorrect` | `TypeOK`; in particular the bounds of both semaphores and of `atomCommit` |
| `SemaphoreAccounted` | the power semaphore is free, with one commit, or with the power management |
| `AlwaysPowered` | `PoweredWhileBusy` |
| `ContextIsCurrent` | `ContextCurrent` |
| `DelayedOffSparesOn` | `DelayedSparesOn` |

They come from one invariant, `IInv`. The early returns of a call are what makes
it work (`Underway`): behind them the request differs from the saved state, a
call that stalls has found ON, a timeout has not. `HardwareState` says what each
saved or just applied state means for clock, power and queue; `Quiet`, that
behind the stall nothing is left and, since the power semaphore is kept
(`Kept`), nothing is added. `SemaphoreAccounting` needs `Mutex` (one actor in the
section) to know who keeps it; `AtomCount` and `GlobalCount` count sets of actors, with
the cardinality lemmas of `FiniteSetTheorems`. `DelayedSparesOn` is an action
property: `Underway` excludes that a timeout saves over ON.

`CommandQueueProofs`, for any set of threads and of contexts, two or more pages of
two or more units, and any bounds:

| Theorem | Says |
|---|---|
| `PagesAccounted` | `PageAccounting` |
| `PagesLeft` | `PageLeft` |
| `InOrder` | `ExecutesInOrder` |
| `ContextsLoaded` | `ContextLoaded` |

What the properties depend on is the path of the front end, and the state does not
have it: a WAIT it has passed is a LINK, and the page of one it left long ago
is written again. `QInv` therefore says that there *is* a function `W` from the number
of an item to the place of the WAIT/LINK behind it. `Control` is what the actors
know: who has the queue, that a thread has the power semaphore exactly while it is
in it, and that there is room where one is about to write. `Ring(W)` says that
`W[issued]` is `waitPos`; that for each item from `executed + 1` to `issued`
the LINK at the place before leads to it, to a command or to a user's
buffer whose LINK back leads to `W` of it (`Chain`); that nothing on this path is
on a free or raised page or beyond `offset`; and that the front end is at
`W[executed]`, in the item behind it, paused there, or stopped (`FEAt`). `OneOwner`,
`ListApart` and `EventsApart` say who has a page; a page in an EVENT that is not
executed carries none of the places behind that EVENT (`Placed`), so that it has
been left when the EVENT raises its signal. That is why `_NewQueue` may
put the release of a page on the list before it has left the page. A commit extends
`W` by one place, and the front end moves along it; `Start` begins a new one.

`ContextLoaded` needs a second function of this kind. `currContext` is compared when
a buffer is written, and executed much later. `G[n]` is the context the GPU will
have behind item `n`: a buffer has been linked through its context's own buffer
exactly if `G` of the item before is another context, an EVENT leaves `G` as
it was, the GPU has `G[executed]`, and the driver remembers `G[issued]` (`Loaded`).
`InitializeHardware` forgets the context with the queue empty. `FailingSpec`, in which
a commit fails after it has set `currContext`, breaks the last part: finding 3.
The assumptions are those of `CommandQueue`: `Power`, `NoOne` and `NoContext` are no
threads and contexts, and the sizes.

`VideoMemoryProofs`, for every finite number of processes and handles, every set of nodes
and all bounds:

| Theorem | Says |
|---|---|
| `NoHandleLeft` | `HandlesReturned` |
| `ReferencesCounted` | `RefCount` |
| `LocksCounted` | `LockCount` |
| `NothingDangles` | `NoDangling` |

`HandleCount` says that the reference of a handle is the number of its records in
the database, so that removing the records removes the handle; it needs
`LockingHandle` (a lock that is about to be recorded names a handle) and
`DeletedClosed` (nobody adds records to a database that is destroyed). The other
three come from `VInv`, which adds the two counts themselves and `CallState`: the
handle that a call has looked up still names the same node when the call goes on.
That is so because only the process itself could release it, and it is in this
call; another process can only release its own handle of the node. The counts are
cardinalities of sets of pairs of a process and a handle, and of a lock's number;
each action adds or removes one element, so the laws of `FiniteSetTheorems`
are enough. `FiniteAssumption` is needed for them. `NoDangling` then follows: what names
a node is counted in its reference, or, as a name, is given back with the node
(`NamedAlive`).

`RecoveryProofs`, for every number of slots, commits and hangs, with the one assumption
`RecoveryAssumption`, that these are numbers:

| Theorem | Says |
|---|---|
| `PerformedOnce` | `NeverTwice`, also when a recovery is mistaken |
| `NothingEarly` | `NoneEarly` |
| `OnlyHungReset` | `NoFalseAlarm` |
| `CountKept` | `CountExact` |
| `SkippedTaken` | `SkippedHandled` |

`RInv` says that a commit is in one place: without a slot, in one slot, with one walk, or
performed. The other four come from one invariant, `EInv`, which says that `Timing`
holds until `mistaken`. Its core is what the monitor may conclude. While stamp and end
of the queue are those it has recorded (`Steady`), `Watch` says: after the first look the
state has changed, or changes before the next look because a submit is late, or looks
unchanged because a slot of the mask was given to another commit (`Changed`); or the
front end hangs, or an interrupt is up, or a front end with work to do is late; after
the second, it has changed, or the front end hangs with no interrupt up, or an
interrupt is late. So the look that ends an unchanged state resets a GPU that hangs, or
sets `mistaken`. `InReset` says what the mask is from then on: exactly the slots that
the reset jumps over, none of them reused, while the restarted GPU raises others.
`PendingEventIs` says which slots have their bit in `pendingEvent`; hence the count
(`Counted`), a cardinality that changes by one slot, by an interrupt or by the mask.
`Passed` and `WalkedPassed` give `NoneEarly`: a bit that the mask sets again, for a slot
emptied beside the recovery, finds no commit in it. `SkippedHeld` says that a slot with a
skipped commit is in the mask before the store and in `pending` behind it, whatever the
other walk claims; so when no walk finds a triggered slot any more, none is left.

`ContextUpdateProofs`, for every number of clients, registers, values and commits:

| Theorem | Says |
|---|---|
| `RegistersAlwaysRight` | `RegistersRight` |
| `DeltaAlwaysFree` | `DeltaFree` |
| `BuffersAlwaysQuiet` | `BufferQuiet`: no queued command loads a buffer whose signal is set |
| `ContextTypeCorrect` | `ContextTypeOK`, with the bounds of `refCount` and `deltaCount` |

Registers are right for four reasons, and `ContextInv` is their conjunction.
`RingOK`: where the two buffers stand in the ring of deltas, seen from the next free
one; there are three cases. `Content`: a buffer with its pending deltas is what its
client has set, so a merge makes it `written`; a delta that is merged into the one
before it (`ContentMerge`) is merged by both buffers because both have still to read
that one. `InFlight`: a buffer's record is on the list, behind its load, passed, or
nowhere, so that a set signal means that nobody loads the buffer, and a client that
is not attached has nothing anywhere. `Chain`: what each command relies on is what
the one before it leaves, or what is in the buffer it loads, which by `InFlight` does
not change. The one assumption is `ContextAssumption`.

`AllocatorProofs`, for every size of the heap and of the area, every request, and
every constant of `MCParts`:

| Theorem | Says |
|---|---|
| `HeapRefines` | `HeapSpec => HeapImplements`: each call is a step of `AddressSpace` or a stutter |
| `HeapNeverShares` | no byte is in use twice (`HeapSpace!Disjoint`) |
| `HeapInOrder` | both rings agree with the addresses, `freeBytes` with what is free (`HeapRings`) |
| `HeapFinds` | a request that fails is one that no free run could serve (`HeapFindsSpace`) |
| `AreaRefines` | `AreaSpec => AreaImplements`, through `_Collect` |
| `AreaNeverShares` | no page is in use twice (`AreaSpace!Disjoint`) |
| `AreaInOrder` | the list in the words of the map is in order and complete (`AreaList`) |
| `AreaFinds` | pages are found when enough lie free in a row (`AreaFindsPages`) |
| `PartsTyped` | `TypeOK` of `MCParts`, with `RecoveryProofs.RecoveryTyped` for the third part |

The argument for the heap. The invariant speaks of a node and its neighbours, not of
the walk along a ring. `Tiled`: a node ends where `next` begins, or at the sentinel,
and each pointer has its pointer back. `FreeInOrder`: in the second ring no free
node lies between a node and its `nextFree`. `Quiet`: no two free nodes touch.
`freeBytes` is the number of addresses no node in use covers. `_Split` and `Unlink`
keep the first two (`SplitSound`, `UnlinkSound`), and so does each half of
`gckVIDMEM_Free` (`MergeSound`), between which the heap is quiet but at the node that was
freed. A node cannot span one that is in use, since nodes that tile do not overlap
(`UsedApart`); so what `_FindNode` returns was free, and the step is one of
`AddressSpace`. That the search misses nothing needs `Quiet` as well: a free run
lies in one node.

The argument for the area. The list is not a structure of its own but words inside
the free pages, so each step must be shown to leave alone the words it does not mean.
`AreaHolds` says that some set N of nodes and the runs in use fill the area without
overlap (`Nodes`, `Covered`), that the list goes through some of N, L, in address order
(`Listed`), and that the length of a run in use is in its first word (`Runs`). When
pages were freed since the last `_Collect`, L may be less than N; otherwise L is N
and no two nodes of N could be one (`Maximal`). `_Collect` is a walk that overwrites
the map while it reads it: `Collecting` says that what is in front of the walk is as it
was (`Kept`), and that the list behind it is complete (`Built`).

`FreeRing`, `FreeList` and `Collect` are recursive functions over the number of
steps. The library's induction theorems cannot be used here (they take an operator as
a parameter), but a walk that goes wrong goes wrong at a least step, and that every
set of natural numbers has a least element follows from `WFMin` with a relation as
its parameter (`Least`, `WalkStays`, `WalkMeetsAll`). `HeapRings` says `freeBytes` as
a number of addresses instead of a sum over nodes for the same reason: cardinalities
have theorems, sums do not.

The types of `Recovery` (`TInv`) need one fact beside themselves: `gckKERNEL_Recovery`
sends the front end to the place that the monitor has recorded, which is in the ring
because the ring only grows.

Only model-checked: liveness (`EventuallyDelivered`, `CommitsReturn`, `Reclaimed`,
`CallsReturn`, `AllDone`, `UpdateReturns`), since fairness and ENABLED are beyond the
prover. Every other property of a passing run is stated by a theorem. No module with a theorem
uses a RECURSIVE operator.

## 5. Plan

Done: `EventManager`, `EventDelivery`, `CommandQueue`, `PowerManagement`,
`VideoMemory` with the process database, `LinearHeap`, `MmuArea`, `Recovery`,
`ContextUpdate`, and the proofs of section 4.

Left, by importance: commits that fail in `ContextUpdate` (the record of the buffer
stays on the list, the delta is attached or not), and the forced DETACH; the CPU
mapping counts and dma_buf export in `VideoMemory`; two event sources in `Recovery`.

Proofs: every invariant, action property and refinement of the passing runs is
proved. Left are `TypeOK` of `CommandQueue` and of `VideoMemory`, which no run checks;
what else is worth adding follows the models: commits that fail in `ContextUpdate` will
disturb `InFlight`, and a second event source in `Recovery` will need `Stamps` and
`Executions` of `EventManagerProofs` beside `EInv`.

## 6. Not modelled

| Part | Why |
|---|---|
| Multi-channel front end (`gckMCFE_*`, semaphores of `gc_hal_kernel_command.c` 535–1000) | Compiled under `GCREG_MCFE_STD_DESC_RING_BUF_START_ADDR_Address`, which no header of the repository defines: every function returns `gcvSTATUS_NOT_SUPPORTED`. |
| Asynchronous front end | Exists only with `gcvFEATURE_ASYNC_BLIT`; it executes one descriptor after another. |
| Fences | With that feature only as well: `_WaitFence` dereferences `asyncCommand->fence` for every engine but RENDER. It acquires `&fence->mutex`, the address of the pointer (`gc_hal_kernel.c:1986`, 2005), where `gckFENCE_Signal` takes the mutex: what happens then the code does not define. |
| The layout of a context buffer | `_InitializeContextBuffer` and the state map: tables built for each chip. |
| `gckHEAP`, integer ids, shared buffers | Sequential, under one mutex; the heap serves the security build. |
| DVFS, security | `gcdDVFS` and `gcdSECURITY` are 0. |
| Register sequences, feature database, recorder, dumps | Data for the hardware, no control that another actor sees. |
| User library but for its deltas, OpenVX service, SDK headers | Other processes: all they do to the driver is the ioctls, which are the inputs of the models. |

Of the repository's 686,500 lines the feature database (twice) is 219,000, the
user library more than 166,000, and the headers of the SDK, OVX and the compiler
about 100,000. The kernel driver is a small part, so the lines that are modelled
are a small share of all, although they hold most of the driver's synchronisation.
