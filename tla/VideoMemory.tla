----------------------------- MODULE VideoMemory -----------------------------
(***************************************************************************)
(* Video memory objects, the handles by which processes name them, and the *)
(* process database that cleans up after a process                         *)
(* (hal/kernel/gc_hal_kernel_video_memory.c, gc_hal_kernel.c,              *)
(* gc_hal_kernel_db.c).                                                    *)
(*                                                                         *)
(* A node is shared: by handles of several processes, by locks, by events  *)
(* that will undo a lock when the GPU is through with the node, by files.  *)
(* Each of them owns a reference, the last one frees the node.  A lock is  *)
(* undone in two halves; the second is a record of the event manager, and  *)
(* may be performed when the process is long gone.                         *)
(*                                                                         *)
(* Processes use the driver as the user library does: they name their own  *)
(* handles only, one call at a time, and undo a lock once.  They may end   *)
(* with any number of objects allocated and locked.                        *)
(***************************************************************************)
EXTENDS Integers, FiniteSets

CONSTANTS
    Procs,     \* processes that open the device
    Nodes,     \* gckVIDMEM_NODE objects; one that was freed may be allocated again
    Handles,   \* ids of a process's handle database
    Null,      \* no node, or no handle
    MaxOpens,  \* bound on the files by which a process has the device open
    MaxLocks,  \* bound on the locks of a process on one handle
    MaxPending, \* bound on the UNLOCK records of a node when a client locks it or adds one
    MaxFds     \* bound on the files of a node made by gckVIDMEM_NODE_GetFd

ASSUME FiniteAssumption == IsFiniteSet(Procs) /\ IsFiniteSet(Handles)
ASSUME NullAssumption == Null \notin Nodes \cup Handles
ASSUME BoundsAssumption ==
    MaxOpens \in Nat /\ MaxLocks \in Nat /\ MaxPending \in Nat /\ MaxFds \in Nat

VARIABLES
    reference, \* NodeObject->reference; 0: the node is free
    named,     \* whether the node is in the name database
    locked,    \* lock count of the node (VidMem.locked, Virtual.lockeds[type])
    mapped,    \* whether the node has its GPU address (Virtual.pageTables)
    fds,       \* open files that own a reference to the node
    handles,   \* database->handleDatabase of each process: node and reference
    opens,     \* database->refs of each process
    deleted,   \* database->deleted
    owned,     \* handles with a record gcvDB_VIDEO_MEMORY
    locks,     \* number of records gcvDB_VIDEO_MEMORY_LOCKED of each handle
    pending,   \* number of UNLOCK records of each node in the event manager
    call,      \* the call each process is in: place and local variables
    notify     \* the interrupt thread in gckEVENT_Notify, likewise

nodeVars == <<reference, named, locked, mapped, fds>>
dbVars == <<handles, opens, deleted, owned, locks>>
vars == <<nodeVars, dbVars, pending, call, notify>>

NoHandle == [node |-> Null, reference |-> 0]
At(place, n, h) == [at |-> place, node |-> n, handle |-> h]
Idle == At("idle", Null, Null)

Init ==
    /\ reference = [n \in Nodes |-> 0] /\ named = [n \in Nodes |-> FALSE]
    /\ locked = [n \in Nodes |-> 0] /\ mapped = [n \in Nodes |-> FALSE]
    /\ fds = [n \in Nodes |-> 0]
    /\ handles = [p \in Procs |-> [h \in Handles |-> NoHandle]]
    /\ opens = [p \in Procs |-> 0] /\ deleted = [p \in Procs |-> FALSE]
    /\ owned = [p \in Procs |-> {}]
    /\ locks = [p \in Procs |-> [h \in Handles |-> 0]]
    /\ pending = [n \in Nodes |-> 0]
    /\ call = [p \in Procs |-> Idle] /\ notify = Idle

-----------------------------------------------------------------------------
(* References of a node.  The last one takes the node's name and frees its  *)
(* memory; the mutex of the name database guards both, and Import.          *)

Reference(n) == reference' = [reference EXCEPT ![n] = @ + 1]

\* Seeded fault: the name of a node is not freed with it.
DereferenceKeepingName(n) ==
    /\ reference' = [reference EXCEPT ![n] = @ - 1]
    /\ UNCHANGED named

Dereference(n) ==
    /\ reference' = [reference EXCEPT ![n] = @ - 1]
    /\ named' = [named EXCEPT ![n] = @ /\ reference[n] > 1]

-----------------------------------------------------------------------------
(* Locks of a node, under its mutex.                                        *)

\* The first lock gives the node its GPU address.
NodeLock(n) ==
    /\ locked' = [locked EXCEPT ![n] = @ + 1]
    /\ mapped' = [mapped EXCEPT ![n] = TRUE]

\* Seeded fault: every unlock takes the address away.
NodeUnlockUnmapping(n) ==
    /\ locked' = [locked EXCEPT ![n] = IF @ = 0 THEN 0 ELSE @ - 1]
    /\ mapped' = [mapped EXCEPT ![n] = FALSE]

\* gckVIDMEM_NODE_Unlock with Asynchroneous = gcvNULL, the second half of an
\* unlock: the last one takes the address away.  A node that is not locked is
\* left alone (gcvSTATUS_MEMORY_UNLOCKED).
NodeUnlock(n) ==
    /\ locked' = [locked EXCEPT ![n] = IF @ = 0 THEN 0 ELSE @ - 1]
    /\ mapped' = [mapped EXCEPT ![n] = @ /\ locked[n] > 1]

-----------------------------------------------------------------------------
(* Handles of a process, under the mutex of its handle database.            *)

Known(p, h) == handles[p][h].reference > 0   \* gckVIDMEM_HANDLE_Lookup succeeds
NodeOf(p, h) == handles[p][h].node

HandleReference(p, h) == handles' = [handles EXCEPT ![p][h].reference = @ + 1]

\* The last reference gives the id back.
HandleDereference(p, h) ==
    handles' = [handles EXCEPT ![p][h] =
                   IF @.reference > 1
                   THEN [node |-> @.node, reference |-> @.reference - 1]
                   ELSE NoHandle]

-----------------------------------------------------------------------------
(* Calls of a process.  What a call does to the database of its own process *)
(* nobody else can see, and is joined with the step next to it.             *)

Ready(p) == opens[p] > 0 /\ call[p] = Idle
Goto(p, place, n, h) == call' = [call EXCEPT ![p] = At(place, n, h)]
In(p, place) == call[p].at = place

\* Many calls end with giving a reference back.
Return(p) ==
    /\ In(p, "dereference")
    /\ Dereference(call[p].node)
    /\ Goto(p, "idle", Null, Null)
    /\ UNCHANGED <<locked, mapped, fds, dbVars, pending, notify>>

\* _AllocateLinearMemory and _WrapUserMemory: a new node, with one reference.
Allocate(p, n) ==
    /\ Ready(p)
    /\ reference[n] = 0
    /\ Reference(n)
    /\ Goto(p, "handle", n, Null)
    /\ UNCHANGED <<named, locked, mapped, fds, dbVars, pending, notify>>

\* _ImportVideoMemory: the node of that name, with one more reference.
Import(p, n) ==
    /\ Ready(p)
    /\ named[n]
    /\ Reference(n)
    /\ Goto(p, "handle", n, Null)
    /\ UNCHANGED <<named, locked, mapped, fds, dbVars, pending, notify>>

\* Both make a handle and a record that own the reference.
MakeHandle(p, h) ==
    /\ In(p, "handle")
    /\ ~Known(p, h)
    /\ handles' = [handles EXCEPT ![p][h] = [node |-> call[p].node, reference |-> 1]]
    /\ owned' = [owned EXCEPT ![p] = @ \cup {h}]
    /\ Goto(p, "idle", Null, Null)
    /\ UNCHANGED <<nodeVars, opens, deleted, locks, pending, notify>>

\* Or fail to, and undo what they did.
MakeHandleFails(p) ==
    /\ In(p, "handle")
    /\ Goto(p, "dereference", call[p].node, Null)
    /\ UNCHANGED <<nodeVars, dbVars, pending, notify>>

\* _ReleaseVideoMemory: only the call that removes the record goes on.
Release(p, h) ==
    /\ Ready(p)
    /\ h \in owned[p]
    /\ owned' = [owned EXCEPT ![p] = @ \ {h}]
    /\ HandleDereference(p, h)
    /\ Goto(p, "dereference", NodeOf(p, h), Null)
    /\ UNCHANGED <<nodeVars, opens, deleted, locks, pending, notify>>

\* _NameVideoMemory, _GetVideoMemoryFd, _HandleTimestampPatch, _LockVideoMemory
\* look the node up, and then take a reference for the time of the call.
Lookup(p, h, place) ==
    /\ Ready(p)
    /\ h \in owned[p]
    /\ Goto(p, place, NodeOf(p, h), h)
    /\ UNCHANGED <<nodeVars, dbVars, pending, notify>>

\* gckVIDMEM_NODE_Name, with an id to be had.  Without one (gckKERNEL_AllocateIntegerId
\* fails) it dereferences the node while it has the mutex of the name database, which
\* gckVIDMEM_NODE_Dereference waits for: the thread never returns, nor does anybody who
\* drops a reference from then on.  That failure is left out.
Name(p) ==
    /\ In(p, "name")
    /\ Reference(call[p].node)
    /\ named' = [named EXCEPT ![call[p].node] = TRUE]
    /\ Goto(p, "dereference", call[p].node, Null)
    /\ UNCHANGED <<locked, mapped, fds, dbVars, pending, notify>>

\* _HandleTimestampPatch, and every call that only uses the node for a while.
Use(p) ==
    /\ In(p, "use")
    /\ Reference(call[p].node)
    /\ Goto(p, "dereference", call[p].node, Null)
    /\ UNCHANGED <<named, locked, mapped, fds, dbVars, pending, notify>>

\* gckVIDMEM_NODE_GetFd: the file keeps the reference.
GetFd(p) ==
    /\ In(p, "fd")
    /\ fds[call[p].node] < MaxFds
    /\ Reference(call[p].node)
    /\ fds' = [fds EXCEPT ![call[p].node] = @ + 1]
    /\ Goto(p, "idle", Null, Null)
    /\ UNCHANGED <<named, locked, mapped, dbVars, pending, notify>>

\* Or there is no memory or no file for it, and it is given back.
GetFdFails(p) ==
    /\ In(p, "fd")
    /\ Reference(call[p].node)
    /\ Goto(p, "dereference", call[p].node, Null)
    /\ UNCHANGED <<named, locked, mapped, fds, dbVars, pending, notify>>

\* _ReleaseFdPrivate, when whoever has the file closes it.
CloseFd(n) ==
    /\ fds[n] > 0
    /\ fds' = [fds EXCEPT ![n] = @ - 1]
    /\ Dereference(n)
    /\ UNCHANGED <<locked, mapped, dbVars, pending, call, notify>>

-----------------------------------------------------------------------------
(* _LockVideoMemory: reference the node, lock it, record the lock.          *)

StartLock(p, h) ==
    /\ Known(p, h)
    /\ locks[p][h] < MaxLocks /\ pending[NodeOf(p, h)] < MaxPending
    /\ Lookup(p, h, "reference")

LockReference(p) ==
    /\ In(p, "reference")
    /\ Reference(call[p].node)
    /\ Goto(p, "lock", call[p].node, call[p].handle)
    /\ UNCHANGED <<named, locked, mapped, fds, dbVars, pending, notify>>

LockNode(p) ==
    /\ In(p, "lock")
    /\ NodeLock(call[p].node)
    /\ Goto(p, "record", call[p].node, call[p].handle)
    /\ UNCHANGED <<reference, named, fds, dbVars, pending, notify>>

LockRecord(p) ==
    /\ In(p, "record")
    /\ locks' = [locks EXCEPT ![p][call[p].handle] = @ + 1]
    /\ HandleReference(p, call[p].handle)
    /\ Goto(p, "idle", Null, Null)
    /\ UNCHANGED <<nodeVars, opens, deleted, owned, pending, notify>>

\* Seeded fault: a lock that is not recorded is not undone.
LockRecordFailsOnly(p) ==
    /\ In(p, "record")
    /\ Goto(p, "idle", Null, Null)
    /\ UNCHANGED <<nodeVars, dbVars, pending, notify>>

\* gckKERNEL_AddProcessDB fails: OnError unlocks and dereferences the node.
LockRecordFails(p) ==
    /\ In(p, "record")
    /\ Goto(p, "undo", call[p].node, Null)
    /\ UNCHANGED <<nodeVars, dbVars, pending, notify>>

\* gckVIDMEM_NODE_LockCPU or gckVIDMEM_NODE_Lock fails: OnError unlocks as well,
\* since the address it tests was set to gcvINVALID_ADDRESS, which is not 0.
LockNodeFails(p) ==
    /\ In(p, "lock")
    /\ Goto(p, "undo", call[p].node, Null)
    /\ UNCHANGED <<nodeVars, dbVars, pending, notify>>

UndoLock(p) ==
    /\ In(p, "undo")
    /\ NodeUnlock(call[p].node)
    /\ Goto(p, "dereference", call[p].node, Null)
    /\ UNCHANGED <<reference, named, fds, dbVars, pending, notify>>

-----------------------------------------------------------------------------
(* Unlock.  The first half, _UnlockVideoMemory, tests that the node is      *)
(* locked.  The second half is an UNLOCK record: gckEVENT_AddList takes the *)
(* lock's record and handle reference from the process, its node reference  *)
(* goes to the event, and gckEVENT_Notify unlocks the node.                 *)

\* What both forms of the second half do to the database.
DropLock(p, h) ==
    /\ locks[p][h] > 0
    /\ locks' = [locks EXCEPT ![p][h] = @ - 1]
    /\ HandleDereference(p, h)

UnlockByEvent(p, h) ==
    /\ Ready(p)
    /\ DropLock(p, h)
    /\ locked[NodeOf(p, h)] > 0 /\ pending[NodeOf(p, h)] < MaxPending
    /\ pending' = [pending EXCEPT ![NodeOf(p, h)] = @ + 1]
    /\ UNCHANGED <<nodeVars, opens, deleted, owned, call, notify>>

\* _BottomHalfUnlockVideoMemory does it in the process itself; when the node is
\* not locked it returns without giving the reference back.
StartBottomHalf(p, h) ==
    /\ Ready(p)
    /\ DropLock(p, h)
    /\ locked[NodeOf(p, h)] > 0
    /\ Goto(p, "unlock", NodeOf(p, h), Null)
    /\ UNCHANGED <<nodeVars, opens, deleted, owned, pending, notify>>

BottomHalf(p) ==
    /\ In(p, "unlock")
    /\ NodeUnlock(call[p].node)
    /\ IF locked[call[p].node] > 0
       THEN Goto(p, "dereference", call[p].node, Null)
       ELSE Goto(p, "idle", Null, Null)
    /\ UNCHANGED <<reference, named, fds, dbVars, pending, notify>>

\* gckEVENT_Notify, once the GPU has passed the record.
NotifyTake(n) ==
    /\ notify = Idle
    /\ pending[n] > 0
    /\ pending' = [pending EXCEPT ![n] = @ - 1]
    /\ notify' = At("unlock", n, Null)
    /\ UNCHANGED <<nodeVars, dbVars, call>>

NotifyUnlock ==
    /\ notify.at = "unlock"
    /\ NodeUnlock(notify.node)
    /\ notify' = At("dereference", notify.node, Null)
    /\ UNCHANGED <<reference, named, fds, dbVars, pending, call>>

NotifyDereference ==
    /\ notify.at = "dereference"
    /\ Dereference(notify.node)
    /\ notify' = Idle
    /\ UNCHANGED <<locked, mapped, fds, dbVars, pending, call>>

-----------------------------------------------------------------------------
(* The process database.                                                    *)

\* drv_open, gckKERNEL_CreateProcessDB: not while the last one of that process
\* is being destroyed.
Attach(p) ==
    /\ ~deleted[p] /\ opens[p] < MaxOpens
    /\ opens' = [opens EXCEPT ![p] = @ + 1]
    /\ UNCHANGED <<nodeVars, handles, deleted, owned, locks, pending, call, notify>>

\* drv_release, gckKERNEL_DestroyProcessDB: the last file of a process, whose
\* calls have all returned, starts the clean-up, at which the records are
\* walked without dbMutex.
Detach(p) ==
    /\ opens[p] > 0
    /\ opens[p] = 1 => call[p] = Idle
    /\ opens' = [opens EXCEPT ![p] = @ - 1]
    /\ deleted' = [deleted EXCEPT ![p] = opens[p] = 1]
    /\ UNCHANGED <<nodeVars, handles, owned, locks, pending, call, notify>>

Cleaning(p) == deleted[p] /\ call[p] = Idle

\* Seeded fault: the handle of a record is left to the handle database.
CleanMemoryOnly(p, h) ==
    /\ Cleaning(p)
    /\ h \in owned[p]
    /\ owned' = [owned EXCEPT ![p] = @ \ {h}]
    /\ IF Known(p, h)
       THEN Goto(p, "dereference", NodeOf(p, h), Null)
       ELSE UNCHANGED call
    /\ UNCHANGED <<nodeVars, handles, opens, deleted, locks, pending, notify>>

\* A record gcvDB_VIDEO_MEMORY.
CleanMemory(p, h) ==
    /\ Cleaning(p)
    /\ h \in owned[p]
    /\ owned' = [owned EXCEPT ![p] = @ \ {h}]
    /\ IF Known(p, h)
       THEN HandleDereference(p, h) /\ Goto(p, "dereference", NodeOf(p, h), Null)
       ELSE UNCHANGED <<handles, call>>
    /\ UNCHANGED <<nodeVars, opens, deleted, locks, pending, notify>>

\* Seeded fault: the locks of a process that ends are dropped, not undone.
CleanLockOnly(p, h) ==
    /\ Cleaning(p)
    /\ locks[p][h] > 0
    /\ locks' = [locks EXCEPT ![p][h] = @ - 1]
    /\ IF Known(p, h) THEN HandleDereference(p, h) ELSE UNCHANGED handles
    /\ UNCHANGED <<nodeVars, opens, deleted, owned, pending, call, notify>>

\* A record gcvDB_VIDEO_MEMORY_LOCKED: the reference goes to an UNLOCK record.
CleanLock(p, h) ==
    /\ Cleaning(p)
    /\ locks[p][h] > 0
    /\ locks' = [locks EXCEPT ![p][h] = @ - 1]
    /\ IF Known(p, h)
       THEN /\ HandleDereference(p, h)
            /\ IF locked[NodeOf(p, h)] > 0
               THEN /\ pending' = [pending EXCEPT ![NodeOf(p, h)] = @ + 1]
                    /\ UNCHANGED call
               ELSE /\ Goto(p, "dereference", NodeOf(p, h), Null)
                    /\ UNCHANGED pending
       ELSE UNCHANGED <<handles, call, pending>>
    /\ UNCHANGED <<nodeVars, opens, deleted, owned, notify>>

\* All records are gone: the database is taken out of the hash, and its handle
\* database destroyed with it.
Unlink(p) ==
    /\ Cleaning(p)
    /\ owned[p] = {} /\ \A h \in Handles : locks[p][h] = 0
    /\ deleted' = [deleted EXCEPT ![p] = FALSE]
    /\ handles' = [handles EXCEPT ![p] = [h \in Handles |-> NoHandle]]
    /\ UNCHANGED <<nodeVars, opens, owned, locks, pending, call, notify>>

-----------------------------------------------------------------------------
Ioctl(p) ==
    \/ \E n \in Nodes : Allocate(p, n) \/ Import(p, n)
    \/ \E h \in Handles :
        \/ Release(p, h) \/ StartLock(p, h) \/ UnlockByEvent(p, h) \/ StartBottomHalf(p, h)
        \/ \E place \in {"name", "use", "fd"} : Lookup(p, h, place)

\* What a call that has begun does.
Finish(p) ==
    \/ Return(p) \/ MakeHandleFails(p) \/ (\E h \in Handles : MakeHandle(p, h))
    \/ Name(p) \/ Use(p) \/ GetFd(p) \/ GetFdFails(p)
    \/ LockReference(p) \/ LockNode(p) \/ LockRecord(p) \/ LockRecordFails(p)
    \/ UndoLock(p) \/ BottomHalf(p)

Clean(p) ==
    \/ \E h \in Handles : CleanMemory(p, h) \/ CleanLock(p, h)
    \/ Unlink(p)

Notify == (\E n \in Nodes : NotifyTake(n)) \/ NotifyUnlock \/ NotifyDereference

Next ==
    \/ \E p \in Procs : Attach(p) \/ Detach(p) \/ Ioctl(p) \/ Finish(p) \/ Clean(p)
    \/ \E n \in Nodes : CloseFd(n)
    \/ Notify

Spec == Init /\ [][Next]_vars

\* A call that has begun ends, so does the clean-up of a process that has closed
\* its files, and the event manager performs its records (EventuallyDelivered of
\* EventManager).  Nobody has to start anything.
LiveSpec ==
    /\ Spec
    /\ \A p \in Procs : WF_vars(Finish(p)) /\ WF_vars(Clean(p))
    /\ WF_vars(Notify)

\* With the failures behind which _LockVideoMemory undoes a lock it has not got.
FailingSpec == Init /\ [][Next \/ \E p \in Procs : LockNodeFails(p)]_vars

-----------------------------------------------------------------------------
(* Properties.                                                              *)

Calls == [at : {"idle", "handle", "dereference", "name", "use", "fd", "reference", "lock",
                "record", "undo", "unlock"},
          node : Nodes \cup {Null}, handle : Handles \cup {Null}]

\* The types of the variables; counts are never negative.
TypeOK ==
    /\ reference \in [Nodes -> Nat] /\ named \in [Nodes -> BOOLEAN]
    /\ locked \in [Nodes -> Nat] /\ mapped \in [Nodes -> BOOLEAN]
    /\ fds \in [Nodes -> 0 .. MaxFds]
    /\ handles \in [Procs -> [Handles -> [node : Nodes \cup {Null}, reference : Nat]]]
    /\ opens \in [Procs -> 0 .. MaxOpens] /\ deleted \in [Procs -> BOOLEAN]
    /\ owned \in [Procs -> SUBSET Handles]
    /\ locks \in [Procs -> [Handles -> Nat]]
    /\ pending \in [Nodes -> Nat]
    /\ call \in [Procs -> Calls] /\ notify \in Calls

\* The records of the databases for a node: of its handles, and of its locks.
OwnedOf(n) ==
    Cardinality({x \in Procs \X Handles : x[2] \in owned[x[1]] /\ NodeOf(x[1], x[2]) = n})
LocksOf(n) ==
    Cardinality({x \in (Procs \X Handles) \X (1 .. MaxLocks) :
                     x[2] <= locks[x[1][1]][x[1][2]] /\ NodeOf(x[1][1], x[1][2]) = n})
CallsAt(n, places) == Cardinality({p \in Procs : call[p].node = n /\ call[p].at \in places})
NotifyAt(n, places) == IF notify.node = n /\ notify.at \in places THEN 1 ELSE 0

\* A node has exactly as many references as there are owners of one: records of
\* memory and of locks in the databases, UNLOCK records, files, and calls on the
\* way.  With fewer it is freed under somebody's hands; with more, never.
RefCount ==
    \A n \in Nodes :
        reference[n] = OwnedOf(n) + LocksOf(n) + pending[n] + fds[n]
            + CallsAt(n, {"handle", "lock", "record", "undo", "unlock", "dereference"})
            + NotifyAt(n, {"unlock", "dereference"})

\* The lock count of a node is the number of locks that processes hold or that
\* an unlock has still to undo, also when processes die with locks; and the node
\* keeps its GPU address as long as there is one.
LockCount ==
    \A n \in Nodes :
        /\ locked[n] = LocksOf(n) + pending[n] + CallsAt(n, {"record", "undo", "unlock"})
                         + NotifyAt(n, {"unlock"})
        /\ mapped[n] <=> locked[n] > 0

\* Nothing names a node that has been freed: no handle, no name by which another
\* process could import it, no call between its lookup and its reference, no
\* event of a process that is gone.
NoDangling ==
    \A n \in Nodes : reference[n] = 0 =>
        /\ ~named[n] /\ pending[n] = 0 /\ notify.node # n
        /\ \A p \in Procs : call[p].node # n /\ \A h \in Handles : NodeOf(p, h) # n

\* When the database of a process is destroyed no handle is left in it.
HandlesReturned ==
    [][\A p \in Procs : deleted[p] /\ ~deleted'[p] => \A h \in Handles : ~Known(p, h)]_vars

Abandoned == (\A p \in Procs : opens[p] = 0) /\ (\A n \in Nodes : fds[n] = 0)

\* When all processes have closed the device for good, whatever they were doing
\* and had locked, every node is freed in the end.
Reclaimed == <>[]Abandoned => <>[](\A n \in Nodes : reference[n] = 0 /\ ~mapped[n])
=============================================================================
