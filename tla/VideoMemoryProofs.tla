-------------------------- MODULE VideoMemoryProofs --------------------------
(***************************************************************************)
(* Theorems about VideoMemory, for any processes, nodes, handles and       *)
(* bounds.                                                                 *)
(*                                                                         *)
(* NoHandleLeft: the clean-up of a process leaves none of its handles.  It *)
(* rests on the count of each handle's references, which every path of     *)
(* every call must keep, the failing ones included (HInv).                 *)
(*                                                                         *)
(* ReferencesCounted, LocksCounted, NothingDangles: a node has as many     *)
(* references and locks as somebody has still to give back, so that it is  *)
(* freed when the last one does and nobody is left who names it.  What a   *)
(* node is charged with is counted over pairs of a process and a handle;   *)
(* for a step to give back what it has taken, the handle it works on must  *)
(* still name the node it named at the start (GoodCall in CallState).  VInv *)
(* is the conjunction of all this, and needs every part of it.             *)
(***************************************************************************)
EXTENDS VideoMemory, TLAPS, FiniteSetTheorems

DbTypes ==
    /\ handles \in [Procs -> [Handles -> [node : Nodes \cup {Null}, reference : Nat]]]
    /\ opens \in [Procs -> Nat] /\ deleted \in [Procs -> BOOLEAN]
    /\ owned \in [Procs -> SUBSET Handles]
    /\ locks \in [Procs -> [Handles -> Nat]]
    /\ call \in [Procs -> Calls]

(* A handle is referenced by the record of its memory and by each record of *)
(* a lock, and by nothing else.                                             *)
HandleCount ==
    \A p \in Procs : \A h \in Handles :
        handles[p][h].reference = (IF h \in owned[p] THEN 1 ELSE 0) + locks[p][h]

(* A call that is about to record a lock knows the handle. *)
LockingHandle ==
    \A p \in Procs : call[p].at \in {"reference", "lock", "record"} => call[p].handle \in Handles

(* The clean-up runs when the process has no file open any more. *)
DeletedClosed == \A p \in Procs : deleted[p] => opens[p] = 0

HInv == DbTypes /\ HandleCount /\ LockingHandle /\ DeletedClosed

-----------------------------------------------------------------------------
(* What the operations on a handle do to it and to the others. *)

HandleRecord == [node : Nodes \cup {Null}, reference : Nat]

\* gckVIDMEM_HANDLE_Reference adds one reference.
LEMMA Referenced ==
    ASSUME DbTypes, NEW p \in Procs, NEW h \in Handles, HandleReference(p, h)
    PROVE  /\ handles' \in [Procs -> [Handles -> HandleRecord]]
           /\ \A q \in Procs : \A g \in Handles :
                  handles'[q][g].reference = handles[q][g].reference
                                               + (IF q = p /\ g = h THEN 1 ELSE 0)
           /\ \A q \in Procs : \A g \in Handles : NodeOf(q, g)' = NodeOf(q, g)
<1> DEFINE new == [node |-> handles[p][h].node, reference |-> handles[p][h].reference + 1]
<1>1. handles[p][h] \in HandleRecord
  BY DEF DbTypes, HandleRecord
<1>2. /\ new \in HandleRecord /\ new.reference = handles[p][h].reference + 1
      /\ new.node = handles[p][h].node
  BY <1>1 DEF HandleRecord
<1>3. new = [handles[p][h] EXCEPT !.reference = @ + 1]
  BY <1>1 DEF HandleRecord
<1>4. handles' = [handles EXCEPT ![p][h] = new]
  BY <1>3, Zenon DEF HandleReference
<1> HIDE DEF new
<1>5. \A q \in Procs : \A g \in Handles :
          handles'[q][g] = IF q = p /\ g = h THEN new ELSE handles[q][g]
  BY <1>4 DEF DbTypes
<1>6. handles' \in [Procs -> [Handles -> HandleRecord]]
  BY <1>2, <1>4 DEF DbTypes, HandleRecord
<1>7. \A q \in Procs : \A g \in Handles : NodeOf(q, g)' = NodeOf(q, g)
  BY <1>2, <1>5 DEF NodeOf
<1>8. \A q \in Procs : \A g \in Handles :
          handles'[q][g].reference = handles[q][g].reference + (IF q = p /\ g = h THEN 1 ELSE 0)
  <2>1. \A q \in Procs : \A g \in Handles : handles[q][g].reference \in Nat
    BY DEF DbTypes
  <2> QED
    BY <1>2, <1>5, <2>1
<1> QED
  BY <1>6, <1>7, <1>8

\* gckVIDMEM_HANDLE_Dereference takes one away from a handle that has one.
LEMMA Dereferenced ==
    ASSUME DbTypes, NEW p \in Procs, NEW h \in Handles, HandleDereference(p, h), Known(p, h)
    PROVE  /\ handles' \in [Procs -> [Handles -> HandleRecord]]
           /\ \A q \in Procs : \A g \in Handles :
                  handles'[q][g].reference = handles[q][g].reference
                                               - (IF q = p /\ g = h THEN 1 ELSE 0)
           /\ \A q \in Procs : \A g \in Handles :
                  NodeOf(q, g)' = IF q = p /\ g = h /\ handles[p][h].reference = 1
                                  THEN Null ELSE NodeOf(q, g)
<1> DEFINE new == IF handles[p][h].reference > 1
                  THEN [node |-> handles[p][h].node, reference |-> handles[p][h].reference - 1]
                  ELSE NoHandle
<1>1. handles[p][h] \in HandleRecord
  BY DEF DbTypes, HandleRecord
<1>2. /\ new \in HandleRecord /\ new.reference = handles[p][h].reference - 1
      /\ new.node = IF handles[p][h].reference = 1 THEN Null ELSE handles[p][h].node
  BY <1>1 DEF HandleRecord, Known, NoHandle
<1>3. handles' = [handles EXCEPT ![p][h] = new]
  BY DEF HandleDereference
<1> HIDE DEF new
<1>4. \A q \in Procs : \A g \in Handles :
          handles'[q][g] = IF q = p /\ g = h THEN new ELSE handles[q][g]
  BY <1>3 DEF DbTypes
<1>5. handles' \in [Procs -> [Handles -> HandleRecord]]
  BY <1>2, <1>3 DEF DbTypes, HandleRecord
<1> QED
  BY <1>2, <1>4, <1>5 DEF DbTypes, HandleRecord, NodeOf

\* A place and a node, perhaps with a handle, are the state of a call.
LEMMA CallTyped ==
    ASSUME DbTypes, NEW p \in Procs,
           NEW place \in {"idle", "handle", "dereference", "name", "use", "fd", "reference", "lock",
                          "record", "undo", "unlock"},
           NEW n \in Nodes \cup {Null}, NEW h \in Handles \cup {Null}, Goto(p, place, n, h)
    PROVE  /\ call' \in [Procs -> Calls]
           /\ call'[p].at = place /\ call'[p].handle = h
           /\ \A q \in Procs \ {p} : call'[q] = call[q]
BY DEF DbTypes, Goto, At, Calls

-----------------------------------------------------------------------------
(* The steps of a call that leave the database alone. *)

\* Such a step has only to keep the handle of a call that will record a lock.
LEMMA CallMoves ==
    ASSUME HInv, UNCHANGED dbVars, NEW p \in Procs,
           NEW place \in {"idle", "handle", "dereference", "name", "use", "fd", "reference", "lock",
                          "record", "undo", "unlock"},
           NEW n \in Nodes \cup {Null}, NEW h \in Handles \cup {Null}, Goto(p, place, n, h),
           place \in {"reference", "lock", "record"} => h \in Handles
    PROVE  HInv'
<1>1. UNCHANGED <<handles, opens, deleted, owned, locks>>
  BY DEF dbVars
<1>2. /\ call' \in [Procs -> Calls]
      /\ call'[p].at = place /\ call'[p].handle = h
      /\ \A q \in Procs \ {p} : call'[q] = call[q]
  BY CallTyped DEF HInv
<1>3. DbTypes'
  BY <1>1, <1>2 DEF HInv, DbTypes
<1>4. LockingHandle'
  BY <1>2 DEF HInv, LockingHandle
<1>5. HandleCount' /\ DeletedClosed'
  BY <1>1 DEF HInv, HandleCount, DeletedClosed
<1> QED
  BY <1>3, <1>4, <1>5 DEF HInv

\* Where a call is, it has a node or none.
LEMMA CallNode ==
    ASSUME DbTypes, NEW p \in Procs
    PROVE  call[p].node \in Nodes \cup {Null} /\ call[p].handle \in Handles \cup {Null}
BY DEF DbTypes, Calls

\* A handle names a node or none.
LEMMA HandleNode ==
    ASSUME DbTypes, NEW p \in Procs, NEW h \in Handles
    PROVE  NodeOf(p, h) \in Nodes \cup {Null}
BY DEF DbTypes, NodeOf

\* Calls that have begun, as far as they do not touch the database.
LEMMA MovingSteps ==
    ASSUME HInv, NEW p \in Procs,
           \/ Return(p) \/ MakeHandleFails(p) \/ Name(p) \/ Use(p) \/ GetFd(p) \/ GetFdFails(p)
           \/ LockReference(p) \/ LockNode(p) \/ LockRecordFails(p) \/ UndoLock(p)
           \/ BottomHalf(p)
    PROVE  HInv'
<1>1. UNCHANGED dbVars
  BY DEF Return, MakeHandleFails, Name, Use, GetFd, GetFdFails, LockReference, LockNode,
         LockRecordFails, UndoLock, BottomHalf, dbVars
<1>2. \E place \in {"idle", "dereference", "undo"}, n \in Nodes \cup {Null} :
          Goto(p, place, n, Null)
      \/ /\ call[p].at \in {"reference", "lock"}
         /\ \E next \in {"lock", "record"} : Goto(p, next, call[p].node, call[p].handle)
  BY CallNode
     DEF HInv, Return, MakeHandleFails, Name, Use, GetFd, GetFdFails, LockReference,
         LockNode, LockRecordFails, UndoLock, BottomHalf, In
<1> QED
  BY <1>1, <1>2, CallMoves, CallNode DEF HInv, LockingHandle

\* Calls that begin with the database as it is.
LEMMA BeginningSteps ==
    ASSUME HInv, NEW p \in Procs,
           \/ \E n \in Nodes : Allocate(p, n) \/ Import(p, n)
           \/ \E h \in Handles : \/ StartLock(p, h)
                                 \/ \E place \in {"name", "use", "fd"} : Lookup(p, h, place)
    PROVE  HInv'
<1>1. UNCHANGED dbVars
  BY DEF Allocate, Import, StartLock, Lookup, dbVars
<1>2. \/ \E n \in Nodes : Goto(p, "handle", n, Null)
      \/ \E h \in Handles : \E place \in {"name", "use", "fd", "reference"} :
             Goto(p, place, NodeOf(p, h), h)
  BY DEF Allocate, Import, StartLock, Lookup
<1>3. CASE \E n \in Nodes : Goto(p, "handle", n, Null)
  BY <1>1, <1>3, CallMoves
<1>4. CASE \E h \in Handles : \E place \in {"name", "use", "fd", "reference"} :
               Goto(p, place, NodeOf(p, h), h)
  BY <1>1, <1>4, CallMoves, HandleNode DEF HInv
<1> QED
  BY <1>2, <1>3, <1>4

-----------------------------------------------------------------------------
(* The steps that change what owns a handle. *)

\* A call that goes on without a lock to record keeps LockingHandle.
LEMMA CallEnds ==
    ASSUME HInv, NEW p \in Procs, NEW n \in Nodes \cup {Null},
           NEW place \in {"idle", "dereference", "unlock"}, Goto(p, place, n, Null)
    PROVE  call' \in [Procs -> Calls] /\ LockingHandle'
<1>1. /\ call' \in [Procs -> Calls]
      /\ call'[p].at = place
      /\ \A q \in Procs \ {p} : call'[q] = call[q]
  BY CallTyped DEF HInv
<1> QED
  BY <1>1 DEF HInv, LockingHandle

\* MakeHandle: a handle that was not in use is owned by its record.
LEMMA MakeHandleStep ==
    ASSUME HInv, NEW p \in Procs, NEW h \in Handles, MakeHandle(p, h)
    PROVE  HInv'
<1> DEFINE new == [node |-> call[p].node, reference |-> 1]
<1>1. new \in HandleRecord /\ new.reference = 1
  BY CallNode DEF HInv, HandleRecord
<1>2. handles' = [handles EXCEPT ![p][h] = new]
  BY DEF MakeHandle
<1> HIDE DEF new
<1>3. /\ handles' \in [Procs -> [Handles -> HandleRecord]]
      /\ \A q \in Procs : \A g \in Handles :
             handles'[q][g] = IF q = p /\ g = h THEN new ELSE handles[q][g]
  BY <1>1, <1>2 DEF HInv, DbTypes, HandleRecord
<1>4. /\ owned' \in [Procs -> SUBSET Handles]
      /\ \A q \in Procs : \A g \in Handles :
             g \in owned'[q] <=> g \in owned[q] \/ (q = p /\ g = h)
  BY DEF HInv, DbTypes, MakeHandle
<1>5. UNCHANGED <<opens, deleted, locks>> /\ ~Known(p, h) /\ Goto(p, "idle", Null, Null)
  BY DEF MakeHandle
<1>6. call' \in [Procs -> Calls] /\ LockingHandle'
  BY <1>5, CallEnds
<1>7. DbTypes'
  BY <1>3, <1>4, <1>5, <1>6 DEF HInv, DbTypes, HandleRecord
<1>8. HandleCount'
  <2>1. handles[p][h].reference = 0 /\ h \notin owned[p] /\ locks[p][h] = 0
    BY <1>5 DEF HInv, DbTypes, HandleCount, Known
  <2>2. \A q \in Procs : \A g \in Handles :
            handles'[q][g].reference = (IF g \in owned'[q] THEN 1 ELSE 0) + locks[q][g]
    BY <1>1, <1>3, <1>4, <2>1 DEF HInv, HandleCount
  <2> QED
    BY <1>5, <2>2 DEF HandleCount
<1> QED
  BY <1>5, <1>6, <1>7, <1>8 DEF HInv, DeletedClosed

\* Release and CleanMemory: the record of the memory goes with its reference.
LEMMA RecordDropped ==
    ASSUME HInv, NEW p \in Procs, NEW h \in owned[p], HandleDereference(p, h),
           owned' = [owned EXCEPT ![p] = @ \ {h}], UNCHANGED <<opens, deleted, locks>>,
           Goto(p, "dereference", NodeOf(p, h), Null)
    PROVE  HInv'
<1>1. h \in Handles
  BY DEF HInv, DbTypes
<1>2. handles[p][h].reference = 1 + locks[p][h] /\ Known(p, h)
  BY <1>1 DEF HInv, DbTypes, HandleCount, Known
<1>3. /\ handles' \in [Procs -> [Handles -> HandleRecord]]
      /\ \A q \in Procs : \A g \in Handles :
             handles'[q][g].reference = handles[q][g].reference
                                          - (IF q = p /\ g = h THEN 1 ELSE 0)
  BY <1>1, <1>2, Dereferenced DEF HInv
<1>4. /\ owned' \in [Procs -> SUBSET Handles]
      /\ \A q \in Procs : \A g \in Handles :
             g \in owned'[q] <=> g \in owned[q] /\ ~(q = p /\ g = h)
  BY DEF HInv, DbTypes
<1>5. call' \in [Procs -> Calls] /\ LockingHandle'
  BY <1>1, CallEnds, HandleNode DEF HInv
<1>6. DbTypes'
  BY <1>3, <1>4, <1>5 DEF HInv, DbTypes, HandleRecord
<1>7. HandleCount'
  <2>1. \A q \in Procs : \A g \in Handles :
            handles'[q][g].reference = (IF g \in owned'[q] THEN 1 ELSE 0) + locks[q][g]
    BY <1>3, <1>4 DEF HInv, DbTypes, HandleCount
  <2> QED
    BY <2>1 DEF HandleCount
<1> QED
  BY <1>5, <1>6, <1>7 DEF HInv, DeletedClosed

\* The number of lock records of a handle and its references change together.
LEMMA LocksChange ==
    ASSUME HInv, NEW p \in Procs, NEW h \in Handles, NEW d \in {1, -1},
           locks' = [locks EXCEPT ![p][h] = @ + d], locks[p][h] + d \in Nat,
           handles' \in [Procs -> [Handles -> HandleRecord]],
           \A q \in Procs : \A g \in Handles :
               handles'[q][g].reference = handles[q][g].reference
                                            + (IF q = p /\ g = h THEN d ELSE 0),
           UNCHANGED <<opens, deleted, owned>>, call' \in [Procs -> Calls], LockingHandle'
    PROVE  HInv'
<1>1. /\ locks' \in [Procs -> [Handles -> Nat]]
      /\ \A q \in Procs : \A g \in Handles :
             locks'[q][g] = locks[q][g] + (IF q = p /\ g = h THEN d ELSE 0)
  BY DEF HInv, DbTypes
<1>2. DbTypes'
  BY <1>1 DEF HInv, DbTypes, HandleRecord
<1>3. \A q \in Procs : \A g \in Handles :
          handles'[q][g].reference = (IF g \in owned[q] THEN 1 ELSE 0) + locks'[q][g]
  BY <1>1 DEF HInv, DbTypes, HandleCount
<1> QED
  BY <1>2, <1>3 DEF HInv, HandleCount, DeletedClosed

\* LockRecord: the record of a lock owns a reference of the handle.
LEMMA LockRecordStep ==
    ASSUME HInv, NEW p \in Procs, LockRecord(p)
    PROVE  HInv'
<1> DEFINE h == call[p].handle
<1>1. h \in Handles
  BY DEF HInv, LockingHandle, LockRecord, In
<1>2. /\ locks' = [locks EXCEPT ![p][h] = @ + 1] /\ HandleReference(p, h)
      /\ Goto(p, "idle", Null, Null) /\ UNCHANGED <<opens, deleted, owned>>
  BY DEF LockRecord
<1> HIDE DEF h
<1>3. /\ handles' \in [Procs -> [Handles -> HandleRecord]]
      /\ \A q \in Procs : \A g \in Handles :
             handles'[q][g].reference = handles[q][g].reference
                                          + (IF q = p /\ g = h THEN 1 ELSE 0)
  BY <1>1, <1>2, Referenced DEF HInv
<1>4. call' \in [Procs -> Calls] /\ LockingHandle'
  BY <1>2, CallEnds
<1>5. locks[p][h] + 1 \in Nat
  BY <1>1 DEF HInv, DbTypes
<1> QED
  BY <1>1, <1>2, <1>3, <1>4, <1>5, LocksChange

\* A handle with the record of a lock is known.
LEMMA LockedKnown ==
    ASSUME HInv, NEW p \in Procs, NEW h \in Handles, locks[p][h] > 0
    PROVE  Known(p, h) /\ locks[p][h] + (-1) \in Nat
<1>1. /\ handles[p][h].reference = (IF h \in owned[p] THEN 1 ELSE 0) + locks[p][h]
      /\ locks[p][h] \in Nat
  BY DEF HInv, DbTypes, HandleCount
<1> QED
  BY <1>1 DEF Known

\* The second half of an unlock, wherever it is done, gives that reference back.
LEMMA LockDropped ==
    ASSUME HInv, NEW p \in Procs, NEW h \in Handles, locks[p][h] > 0, HandleDereference(p, h),
           locks' = [locks EXCEPT ![p][h] = @ - 1], UNCHANGED <<opens, deleted, owned>>,
           call' \in [Procs -> Calls], LockingHandle'
    PROVE  HInv'
<1>1. Known(p, h) /\ locks[p][h] + (-1) \in Nat
  BY LockedKnown
<1>2. /\ handles' \in [Procs -> [Handles -> HandleRecord]]
      /\ \A q \in Procs : \A g \in Handles :
             handles'[q][g].reference = handles[q][g].reference
                                          - (IF q = p /\ g = h THEN 1 ELSE 0)
  BY <1>1, Dereferenced DEF HInv
<1>3. \A q \in Procs : \A g \in Handles :
          handles'[q][g].reference = handles[q][g].reference
                                       + (IF q = p /\ g = h THEN -1 ELSE 0)
  BY <1>2 DEF HInv, DbTypes
<1>4. locks' = [locks EXCEPT ![p][h] = @ + (-1)]
  BY DEF HInv, DbTypes
<1> QED
  BY <1>1, <1>2, <1>3, <1>4, LocksChange

\* A process in a call, or in its clean-up, drops records.
LEMMA DroppingSteps ==
    ASSUME HInv, NEW p \in Procs, NEW h \in Handles,
           \/ Release(p, h) \/ CleanMemory(p, h)
           \/ UnlockByEvent(p, h) \/ StartBottomHalf(p, h) \/ CleanLock(p, h)
    PROVE  HInv'
<1>1. CASE Release(p, h)
  BY <1>1, RecordDropped DEF Release
<1>2. CASE CleanMemory(p, h)
  <2>1. Known(p, h)
    BY <1>2 DEF HInv, DbTypes, HandleCount, Known, CleanMemory
  <2> QED
    BY <1>2, <2>1, RecordDropped DEF CleanMemory
<1>3. CASE UnlockByEvent(p, h)
  <2>1. call' \in [Procs -> Calls] /\ LockingHandle'
    BY <1>3 DEF HInv, DbTypes, LockingHandle, UnlockByEvent
  <2> QED
    BY <1>3, <2>1, LockDropped DEF UnlockByEvent, DropLock
<1>4. CASE StartBottomHalf(p, h)
  <2>1. call' \in [Procs -> Calls] /\ LockingHandle'
    BY <1>4, CallEnds, HandleNode DEF HInv, StartBottomHalf
  <2> QED
    BY <1>4, <2>1, LockDropped DEF StartBottomHalf, DropLock
<1>5. CASE CleanLock(p, h)
  <2>1. Known(p, h)
    BY <1>5, LockedKnown DEF CleanLock
  <2>2. Goto(p, "dereference", NodeOf(p, h), Null) \/ UNCHANGED call
    BY <1>5, <2>1 DEF CleanLock
  <2>3. call' \in [Procs -> Calls] /\ LockingHandle'
    <3>1. CASE Goto(p, "dereference", NodeOf(p, h), Null)
      BY <3>1, CallEnds, HandleNode DEF HInv
    <3>2. CASE UNCHANGED call
      BY <3>2 DEF HInv, DbTypes, LockingHandle
    <3> QED
      BY <2>2, <3>1, <3>2
  <2> QED
    BY <1>5, <2>1, <2>3, LockDropped DEF CleanLock
<1> QED
  BY <1>1, <1>2, <1>3, <1>4, <1>5

\* Unlink: a process without records has no handle to lose.
LEMMA UnlinkStep ==
    ASSUME HInv, NEW p \in Procs, Unlink(p)
    PROVE  HInv' /\ \A h \in Handles : ~Known(p, h)
<1>1. \A h \in Handles : handles[p][h].reference = 0
  BY DEF HInv, DbTypes, HandleCount, Unlink
<1>2. /\ handles' \in [Procs -> [Handles -> HandleRecord]]
      /\ \A q \in Procs : \A g \in Handles :
             handles'[q][g].reference = handles[q][g].reference
  BY <1>1 DEF HInv, DbTypes, HandleRecord, NoHandle, Unlink
<1>3. UNCHANGED <<opens, owned, locks, call>>
  BY DEF Unlink
<1>4. /\ deleted' \in [Procs -> BOOLEAN]
      /\ \A q \in Procs : deleted'[q] => deleted[q]
  BY DEF HInv, DbTypes, Unlink
<1>5. DbTypes'
  BY <1>2, <1>3, <1>4 DEF HInv, DbTypes, HandleRecord
<1>6. HandleCount' /\ LockingHandle' /\ DeletedClosed'
  BY <1>2, <1>3, <1>4 DEF HInv, HandleCount, LockingHandle, DeletedClosed
<1> QED
  BY <1>1, <1>5, <1>6 DEF HInv, Known

\* Opening and closing the device.
LEMMA OpeningSteps ==
    ASSUME HInv, NEW p \in Procs, Attach(p) \/ Detach(p)
    PROVE  HInv' /\ \A q \in Procs : deleted[q] => deleted'[q]
<1>1. UNCHANGED <<handles, owned, locks, call>>
  BY DEF Attach, Detach
<1>2. HandleCount' /\ LockingHandle'
  BY <1>1 DEF HInv, HandleCount, LockingHandle
<1>3. CASE Attach(p)
  <2>1. /\ opens' \in [Procs -> Nat] /\ ~deleted[p] /\ UNCHANGED deleted
        /\ \A q \in Procs \ {p} : opens'[q] = opens[q]
    BY <1>3 DEF HInv, DbTypes, Attach
  <2>2. DbTypes'
    BY <1>1, <2>1 DEF HInv, DbTypes
  <2> QED
    BY <1>2, <2>1, <2>2 DEF HInv, DeletedClosed
<1>4. CASE Detach(p)
  <2>1. /\ opens' \in [Procs -> Nat] /\ opens[p] > 0 /\ opens'[p] = opens[p] - 1
        /\ \A q \in Procs \ {p} : opens'[q] = opens[q]
    BY <1>4 DEF HInv, DbTypes, Detach
  <2>2. /\ deleted' \in [Procs -> BOOLEAN] /\ (deleted'[p] <=> opens[p] = 1)
        /\ \A q \in Procs \ {p} : deleted'[q] = deleted[q]
    BY <1>4, Zenon DEF HInv, DbTypes, Detach
  <2>3. ~deleted[p]
    BY <2>1 DEF HInv, DbTypes, DeletedClosed
  <2>4. DbTypes'
    BY <1>1, <2>1, <2>2 DEF HInv, DbTypes
  <2>5. DeletedClosed'
    BY <2>1, <2>2 DEF HInv, DbTypes, DeletedClosed
  <2> QED
    BY <1>2, <2>2, <2>3, <2>4, <2>5 DEF HInv
<1> QED
  BY <1>3, <1>4

-----------------------------------------------------------------------------
(* All steps, and the theorem. *)

\* Every step that unlinks no database keeps them marked.
LEMMA OtherSteps ==
    ASSUME HInv, NEW p \in Procs,
           Ioctl(p) \/ Finish(p) \/ \E h \in Handles : CleanMemory(p, h) \/ CleanLock(p, h)
    PROVE  HInv' /\ UNCHANGED deleted
<1>1. CASE Ioctl(p)
  <2>1. UNCHANGED deleted
    BY <1>1 DEF Ioctl, Allocate, Import, Release, StartLock, UnlockByEvent, StartBottomHalf,
           Lookup, dbVars
  <2>2. HInv'
    BY <1>1, BeginningSteps, DroppingSteps DEF Ioctl
  <2> QED
    BY <2>1, <2>2
<1>2. CASE Finish(p)
  <2>1. UNCHANGED deleted
    BY <1>2 DEF Finish, Return, MakeHandleFails, MakeHandle, Name, Use, GetFd, GetFdFails,
           LockReference, LockNode, LockRecord, LockRecordFails, UndoLock, BottomHalf, dbVars
  <2>2. HInv'
    BY <1>2, MovingSteps, MakeHandleStep, LockRecordStep DEF Finish
  <2> QED
    BY <2>1, <2>2
<1>3. CASE \E h \in Handles : CleanMemory(p, h) \/ CleanLock(p, h)
  BY <1>3, DroppingSteps DEF CleanMemory, CleanLock
<1> QED
  BY <1>1, <1>2, <1>3

\* The database of a process is only given up by Unlink, with no handle in it.
Emptied == \A p \in Procs : deleted[p] /\ ~deleted'[p] => \A h \in Handles : ~Known(p, h)

\* Every step, by whom it is.
LEMMA Step ==
    ASSUME HInv, [Next]_vars
    PROVE  HInv' /\ Emptied
<1>1. CASE UNCHANGED dbVars /\ UNCHANGED call
  BY <1>1 DEF HInv, DbTypes, HandleCount, LockingHandle, DeletedClosed, Emptied, dbVars
<1>2. CASE (\E n \in Nodes : CloseFd(n)) \/ Notify \/ UNCHANGED vars
  BY <1>1, <1>2 DEF CloseFd, Notify, NotifyTake, NotifyUnlock, NotifyDereference, vars
<1>3. CASE \E p \in Procs : Attach(p) \/ Detach(p)
  BY <1>3, OpeningSteps DEF Emptied
<1>4. CASE \E p \in Procs : Ioctl(p) \/ Finish(p)
              \/ \E h \in Handles : CleanMemory(p, h) \/ CleanLock(p, h)
  BY <1>4, OtherSteps DEF Emptied
<1>5. CASE \E p \in Procs : Unlink(p)
  <2>1. PICK p \in Procs : Unlink(p)
    BY <1>5
  <2>2. \A q \in Procs \ {p} : deleted'[q] = deleted[q]
    BY <2>1 DEF HInv, DbTypes, Unlink
  <2> QED
    BY <2>1, <2>2, UnlinkStep DEF Emptied
<1> QED
  BY <1>2, <1>3, <1>4, <1>5 DEF Next, Clean

-----------------------------------------------------------------------------
(* Counting.  The owners of a node's references are counted in finite sets, *)
(* of which a step changes one element.                                     *)

\* Two finite sets that differ at most in x.
LEMMA OneDiffers ==
    ASSUME NEW S, NEW T, IsFiniteSet(S), IsFiniteSet(T), NEW x, S \ {x} = T \ {x}
    PROVE  /\ Cardinality(S) \in Nat /\ Cardinality(T) \in Nat
           /\ Cardinality(T) = Cardinality(S) - (IF x \in S THEN 1 ELSE 0)
                                + (IF x \in T THEN 1 ELSE 0)
<1>1. Cardinality(S) \in Nat /\ Cardinality(T) \in Nat
  BY FS_CardinalityType
<1>2. Cardinality(S \ {x}) = IF x \in S THEN Cardinality(S) - 1 ELSE Cardinality(S)
  BY FS_RemoveElement
<1>3. Cardinality(T \ {x}) = IF x \in T THEN Cardinality(T) - 1 ELSE Cardinality(T)
  BY FS_RemoveElement
<1> QED
  BY <1>1, <1>2, <1>3

\* A finite set with an element counts at least one.
LEMMA OneCounts ==
    ASSUME NEW S, IsFiniteSet(S), NEW x \in S
    PROVE  Cardinality(S) \in Nat /\ Cardinality(S) > 0
BY FS_CardinalityType, FS_EmptySet

OwnedSet(n) == {x \in Procs \X Handles : x[2] \in owned[x[1]] /\ NodeOf(x[1], x[2]) = n}
LocksSet(n) ==
    {x \in (Procs \X Handles) \X (1 .. MaxLocks) :
         x[2] <= locks[x[1][1]][x[1][2]] /\ NodeOf(x[1][1], x[1][2]) = n}
CallsSet(n, places) == {p \in Procs : call[p].node = n /\ call[p].at \in places}

\* The sets that are counted are finite, in each state.
LEMMA Finite ==
    ASSUME NEW n, NEW places
    PROVE  /\ IsFiniteSet(OwnedSet(n)) /\ IsFiniteSet(LocksSet(n))
           /\ IsFiniteSet(CallsSet(n, places))
           /\ IsFiniteSet(OwnedSet(n)') /\ IsFiniteSet(LocksSet(n)')
           /\ IsFiniteSet(CallsSet(n, places)')
<1>1. IsFiniteSet(Procs \X Handles)
  BY FiniteAssumption, FS_Product
<1>2. IsFiniteSet(1 .. MaxLocks)
  BY BoundsAssumption, FS_Interval
<1>3. IsFiniteSet((Procs \X Handles) \X (1 .. MaxLocks))
  BY <1>1, <1>2, FS_Product
<1>4. /\ OwnedSet(n) \subseteq Procs \X Handles
      /\ OwnedSet(n)' \subseteq Procs \X Handles
  BY DEF OwnedSet
<1>5. /\ LocksSet(n) \subseteq (Procs \X Handles) \X (1 .. MaxLocks)
      /\ LocksSet(n)' \subseteq (Procs \X Handles) \X (1 .. MaxLocks)
  BY DEF LocksSet
<1>6. CallsSet(n, places) \subseteq Procs /\ CallsSet(n, places)' \subseteq Procs
  BY DEF CallsSet
<1> QED
  BY <1>1, <1>3, <1>4, <1>5, <1>6, FiniteAssumption, FS_Subset

\* Counts are natural numbers, and not 0 when there is something to count.
LEMMA Counts ==
    ASSUME NEW n, NEW places
    PROVE  /\ OwnedOf(n) \in Nat /\ LocksOf(n) \in Nat /\ CallsAt(n, places) \in Nat
           /\ \A p \in Procs : \A h \in owned[p] :
                  h \in Handles /\ NodeOf(p, h) = n => OwnedOf(n) > 0
           /\ \A p \in Procs : \A h \in Handles :
                  locks[p][h] \in 1 .. MaxLocks /\ NodeOf(p, h) = n => LocksOf(n) > 0
           /\ \A p \in Procs :
                  call[p].node = n /\ call[p].at \in places => CallsAt(n, places) > 0
<1>1. /\ OwnedOf(n) = Cardinality(OwnedSet(n)) /\ LocksOf(n) = Cardinality(LocksSet(n))
      /\ CallsAt(n, places) = Cardinality(CallsSet(n, places))
  BY DEF OwnedOf, LocksOf, CallsAt, OwnedSet, LocksSet, CallsSet
<1>2. OwnedOf(n) \in Nat /\ LocksOf(n) \in Nat /\ CallsAt(n, places) \in Nat
  BY <1>1, Finite, FS_CardinalityType
<1>3. ASSUME NEW p \in Procs, NEW h \in owned[p], h \in Handles, NodeOf(p, h) = n
      PROVE  OwnedOf(n) > 0
  <2>1. <<p, h>> \in OwnedSet(n)
    BY <1>3 DEF OwnedSet
  <2> QED
    BY <1>1, <2>1, Finite, OneCounts
<1>4. ASSUME NEW p \in Procs, NEW h \in Handles, locks[p][h] \in 1 .. MaxLocks, NodeOf(p, h) = n
      PROVE  LocksOf(n) > 0
  <2>1. <<<<p, h>>, locks[p][h]>> \in LocksSet(n)
    BY <1>4 DEF LocksSet
  <2> QED
    BY <1>1, <2>1, Finite, OneCounts
<1>5. ASSUME NEW p \in Procs, call[p].node = n, call[p].at \in places
      PROVE  CallsAt(n, places) > 0
  <2>1. p \in CallsSet(n, places)
    BY <1>5 DEF CallsSet
  <2> QED
    BY <1>1, <2>1, Finite, OneCounts
<1> QED
  BY <1>2, <1>3, <1>4, <1>5

Counted(c, n, places) == IF c.node = n /\ c.at \in places THEN 1 ELSE 0

\* One call goes on: it is counted where it was, and is counted where it is now.
LEMMA CallsChange ==
    ASSUME NEW p \in Procs, \A q \in Procs \ {p} : call'[q] = call[q], NEW n, NEW places
    PROVE  CallsAt(n, places)' = CallsAt(n, places) - Counted(call[p], n, places)
                                   + Counted(call'[p], n, places)
<1>1. /\ CallsAt(n, places) = Cardinality(CallsSet(n, places))
      /\ CallsAt(n, places)' = Cardinality(CallsSet(n, places)')
  BY DEF CallsAt, CallsSet
<1>2. CallsSet(n, places) \ {p} = CallsSet(n, places)' \ {p}
  BY DEF CallsSet
<1>3. PICK S, T : S = CallsSet(n, places) /\ T = CallsSet(n, places)'
  OBVIOUS
<1>4. /\ p \in S <=> call[p].node = n /\ call[p].at \in places
      /\ p \in T <=> call'[p].node = n /\ call'[p].at \in places
  BY <1>3 DEF CallsSet
<1>5. Cardinality(T) = Cardinality(S) - (IF p \in S THEN 1 ELSE 0) + (IF p \in T THEN 1 ELSE 0)
  BY <1>2, <1>3, Finite, OneDiffers
<1> QED
  BY <1>1, <1>3, <1>4, <1>5 DEF Counted

\* One handle changes hands.
LEMMA OwnedChange ==
    ASSUME NEW p \in Procs, NEW h \in Handles, NEW n,
           \A q \in Procs : \A g \in Handles : q # p \/ g # h =>
               (g \in owned'[q] <=> g \in owned[q]) /\ NodeOf(q, g)' = NodeOf(q, g)
    PROVE  OwnedOf(n)' = OwnedOf(n) - (IF h \in owned[p] /\ NodeOf(p, h) = n THEN 1 ELSE 0)
                           + (IF h \in owned'[p] /\ NodeOf(p, h)' = n THEN 1 ELSE 0)
<1>1. OwnedOf(n) = Cardinality(OwnedSet(n)) /\ OwnedOf(n)' = Cardinality(OwnedSet(n)')
  BY DEF OwnedOf, OwnedSet
<1>2. \A x \in (Procs \X Handles) \ {<<p, h>>} :
          x[2] \in owned[x[1]] /\ NodeOf(x[1], x[2]) = n
            <=> x[2] \in owned'[x[1]] /\ NodeOf(x[1], x[2])' = n
  OBVIOUS
<1>3. OwnedSet(n) \ {<<p, h>>} = OwnedSet(n)' \ {<<p, h>>}
  BY <1>2 DEF OwnedSet
<1>4. PICK S, T : S = OwnedSet(n) /\ T = OwnedSet(n)'
  OBVIOUS
<1>5. /\ <<p, h>> \in S <=> h \in owned[p] /\ NodeOf(p, h) = n
      /\ <<p, h>> \in T <=> h \in owned'[p] /\ NodeOf(p, h)' = n
  BY <1>4 DEF OwnedSet
<1>6. Cardinality(T) = Cardinality(S) - (IF <<p, h>> \in S THEN 1 ELSE 0)
                         + (IF <<p, h>> \in T THEN 1 ELSE 0)
  BY <1>3, <1>4, Finite, OneDiffers
<1> QED
  BY <1>1, <1>4, <1>5, <1>6

\* One of the locks on a handle comes or goes, the k-th.
LEMMA LocksDiffer ==
    ASSUME NEW p \in Procs, NEW h \in Handles, NEW k, NEW n,
           \A q \in Procs : \A g \in Handles : q # p \/ g # h =>
               locks'[q][g] = locks[q][g] /\ (NodeOf(q, g)' = n <=> NodeOf(q, g) = n),
           \A j \in (1 .. MaxLocks) \ {k} :
               j <= locks'[p][h] /\ NodeOf(p, h)' = n <=> j <= locks[p][h] /\ NodeOf(p, h) = n
    PROVE  LocksOf(n)' =
               LocksOf(n)
                 - (IF k \in 1 .. MaxLocks /\ k <= locks[p][h] /\ NodeOf(p, h) = n THEN 1 ELSE 0)
                 + (IF k \in 1 .. MaxLocks /\ k <= locks'[p][h] /\ NodeOf(p, h)' = n THEN 1 ELSE 0)
<1>1. LocksOf(n) = Cardinality(LocksSet(n)) /\ LocksOf(n)' = Cardinality(LocksSet(n)')
  BY DEF LocksOf, LocksSet
<1>2. \A x \in ((Procs \X Handles) \X (1 .. MaxLocks)) \ {<<<<p, h>>, k>>} :
          x[2] <= locks[x[1][1]][x[1][2]] /\ NodeOf(x[1][1], x[1][2]) = n
            <=> x[2] <= locks'[x[1][1]][x[1][2]] /\ NodeOf(x[1][1], x[1][2])' = n
  <2>1. ASSUME NEW q \in Procs, NEW g \in Handles, NEW j \in 1 .. MaxLocks,
               <<<<q, g>>, j>> # <<<<p, h>>, k>>
        PROVE  j <= locks[q][g] /\ NodeOf(q, g) = n <=> j <= locks'[q][g] /\ NodeOf(q, g)' = n
    <3>1. CASE q = p /\ g = h
      BY <2>1, <3>1
    <3>2. CASE q # p \/ g # h
      BY <3>2
    <3> QED
      BY <3>1, <3>2
  <2> QED
    BY <2>1
<1>3. LocksSet(n) \ {<<<<p, h>>, k>>} = LocksSet(n)' \ {<<<<p, h>>, k>>}
  BY <1>2 DEF LocksSet
<1>4. PICK S, T : S = LocksSet(n) /\ T = LocksSet(n)'
  OBVIOUS
<1>5. /\ <<<<p, h>>, k>> \in S <=> k \in 1 .. MaxLocks /\ k <= locks[p][h] /\ NodeOf(p, h) = n
      /\ <<<<p, h>>, k>> \in T <=> k \in 1 .. MaxLocks /\ k <= locks'[p][h] /\ NodeOf(p, h)' = n
  BY <1>4 DEF LocksSet
<1>6. Cardinality(T) = Cardinality(S) - (IF <<<<p, h>>, k>> \in S THEN 1 ELSE 0)
                         + (IF <<<<p, h>>, k>> \in T THEN 1 ELSE 0)
  BY <1>3, <1>4, Finite, OneDiffers
<1> QED
  BY <1>1, <1>4, <1>5, <1>6

-----------------------------------------------------------------------------
(* The inductive invariant of the counts. *)

NodeTypes ==
    /\ reference \in [Nodes -> Nat] /\ named \in [Nodes -> BOOLEAN]
    /\ locked \in [Nodes -> Nat] /\ mapped \in [Nodes -> BOOLEAN]
    /\ fds \in [Nodes -> Nat] /\ pending \in [Nodes -> Nat]
    /\ notify \in [at : {"idle", "unlock", "dereference"}, node : Nodes \cup {Null},
                   handle : Handles \cup {Null}]

(* A handle in use names a node, one that is not names none; and nothing has *)
(* more locks than the bound.                                                *)
HandleNames ==
    \A p \in Procs : \A h \in Handles :
        /\ handles[p][h].reference = 0 <=> NodeOf(p, h) = Null
        /\ locks[p][h] <= MaxLocks

(* What a call still knows about the handle that it was given: nobody else  *)
(* can release it, and so the node is alive before the call references it.  *)
GoodCall(p, c) ==
    /\ c.at = "idle" <=> c.node = Null
    /\ c.at \in {"name", "use", "fd", "reference", "lock", "record"} =>
         c.handle \in owned[p] /\ NodeOf(p, c.handle) = c.node
    /\ c.at \in {"reference", "lock", "record"} => locks[p][c.handle] < MaxLocks
CallState == \A p \in Procs : GoodCall(p, call[p])

NotifyState == notify.at = "idle" <=> notify.node = Null

(* A name is given to a node that is alive, and taken when it is freed. *)
NamedAlive == \A n \in Nodes : named[n] => reference[n] > 0

VInv ==
    /\ HInv /\ NodeTypes /\ HandleNames /\ CallState /\ NotifyState /\ NamedAlive
    /\ RefCount /\ LockCount

Holding == {"handle", "lock", "record", "undo", "unlock", "dereference"}
Locking == {"record", "undo", "unlock"}

\* The counts of a node, as natural numbers.
LEMMA CountTypes ==
    ASSUME VInv, NEW n \in Nodes
    PROVE  /\ OwnedOf(n) \in Nat /\ LocksOf(n) \in Nat
           /\ CallsAt(n, Holding) \in Nat /\ CallsAt(n, Locking) \in Nat
           /\ NotifyAt(n, {"unlock", "dereference"}) \in 0 .. 1 /\ NotifyAt(n, {"unlock"}) \in 0 .. 1
           /\ reference[n] \in Nat /\ locked[n] \in Nat /\ pending[n] \in Nat /\ fds[n] \in Nat
           /\ reference[n] = OwnedOf(n) + LocksOf(n) + pending[n] + fds[n] + CallsAt(n, Holding)
                               + NotifyAt(n, {"unlock", "dereference"})
           /\ locked[n] = LocksOf(n) + pending[n] + CallsAt(n, Locking) + NotifyAt(n, {"unlock"})
           /\ mapped[n] <=> locked[n] > 0
<1>1. /\ reference[n] \in Nat /\ locked[n] \in Nat /\ pending[n] \in Nat /\ fds[n] \in Nat
  BY DEF VInv, NodeTypes
<1>2. /\ NotifyAt(n, {"unlock", "dereference"}) \in 0 .. 1 /\ NotifyAt(n, {"unlock"}) \in 0 .. 1
  BY DEF NotifyAt
<1> QED
  BY <1>1, <1>2, Counts DEF VInv, RefCount, LockCount, Holding, Locking

\* What still names a node makes it count.
LEMMA Held ==
    ASSUME VInv, NEW n \in Nodes
    PROVE  /\ \A p \in Procs : \A h \in Handles : NodeOf(p, h) = n => reference[n] > 0
           /\ \A p \in Procs : call[p].node = n => reference[n] > 0
           /\ \A p \in Procs : \A h \in Handles :
                  NodeOf(p, h) = n /\ locks[p][h] > 0 => locked[n] > 0
           /\ \A p \in Procs : call[p].node = n /\ call[p].at \in Locking => locked[n] > 0
           /\ notify.node = n => reference[n] > 0
           /\ notify.node = n /\ notify.at = "unlock" => locked[n] > 0
           /\ pending[n] > 0 => reference[n] > 0 /\ locked[n] > 0
           /\ fds[n] > 0 => reference[n] > 0
<1>1. n # Null
  BY NullAssumption
<1>2. ASSUME NEW p \in Procs, NEW h \in Handles, NodeOf(p, h) = n
      PROVE  reference[n] > 0 /\ (locks[p][h] > 0 => locked[n] > 0)
  <2>1. /\ handles[p][h].reference = (IF h \in owned[p] THEN 1 ELSE 0) + locks[p][h]
        /\ handles[p][h].reference # 0 /\ locks[p][h] \in Nat /\ locks[p][h] <= MaxLocks
    BY <1>1, <1>2 DEF VInv, HInv, DbTypes, HandleCount, HandleNames
  <2>2. h \in owned[p] => OwnedOf(n) > 0
    BY <1>2, Counts
  <2>3. locks[p][h] > 0 => LocksOf(n) > 0
    <3>1. locks[p][h] > 0 => locks[p][h] \in 1 .. MaxLocks
      BY <2>1, BoundsAssumption
    <3> QED
      BY <1>2, <3>1, Counts
  <2> QED
    BY <2>1, <2>2, <2>3, CountTypes
<1>3. ASSUME NEW p \in Procs, call[p].node = n
      PROVE  reference[n] > 0 /\ (call[p].at \in Locking => locked[n] > 0)
  <2>1. call[p].at # "idle" /\ call[p] \in Calls
    BY <1>1, <1>3 DEF VInv, HInv, DbTypes, CallState, GoodCall
  <2>2. CASE call[p].at \in Holding
    <3>1. CallsAt(n, Holding) > 0 /\ (call[p].at \in Locking => CallsAt(n, Locking) > 0)
      BY <1>3, <2>2, Counts
    <3> QED
      BY <3>1, CountTypes
  <2>3. CASE call[p].at \notin Holding
    <3>1. call[p].at \in {"name", "use", "fd", "reference"} /\ call[p].at \notin Locking
      BY <2>1, <2>3 DEF Calls, Holding, Locking
    <3>2. call[p].handle \in Handles /\ NodeOf(p, call[p].handle) = n
      BY <1>3, <3>1 DEF VInv, HInv, DbTypes, CallState, GoodCall
    <3>3. reference[n] > 0
      BY <1>2, <3>2
    <3> QED
      BY <3>1, <3>3
  <2> QED
    BY <2>2, <2>3
<1>4. notify.node = n => notify.at \in {"unlock", "dereference"}
  BY <1>1 DEF VInv, NodeTypes, NotifyState
<1>5. /\ notify.node = n => reference[n] > 0
      /\ notify.node = n /\ notify.at = "unlock" => locked[n] > 0
  <2>1. notify.node = n => NotifyAt(n, {"unlock", "dereference"}) = 1
    BY <1>4 DEF NotifyAt
  <2>2. notify.node = n /\ notify.at = "unlock" => NotifyAt(n, {"unlock"}) = 1
    BY DEF NotifyAt
  <2> QED
    BY <2>1, <2>2, CountTypes
<1>6. pending[n] > 0 => reference[n] > 0 /\ locked[n] > 0
  BY CountTypes
<1>7. fds[n] > 0 => reference[n] > 0
  BY CountTypes
<1>8. \A p \in Procs : \A h \in Handles :
          NodeOf(p, h) = n => reference[n] > 0 /\ (locks[p][h] > 0 => locked[n] > 0)
  BY <1>2
<1>9. \A p \in Procs :
          call[p].node = n => reference[n] > 0 /\ (call[p].at \in Locking => locked[n] > 0)
  BY <1>3
<1> QED
  BY <1>5, <1>6, <1>7, <1>8, <1>9

\* Nothing that names a node is left when it is freed.
LEMMA FreedForgotten ==
    ASSUME VInv
    PROVE  NoDangling
<1> SUFFICES ASSUME NEW n \in Nodes, reference[n] = 0
             PROVE  /\ ~named[n] /\ pending[n] = 0 /\ notify.node # n
                    /\ \A p \in Procs : call[p].node # n /\ \A h \in Handles : NodeOf(p, h) # n
  BY DEF NoDangling
<1>1. ~named[n]
  BY DEF VInv, NamedAlive
<1>2. pending[n] = 0
  BY CountTypes, Held
<1> QED
  BY <1>1, <1>2, Held

-----------------------------------------------------------------------------
(* What the operations on a node do to it and to the others. *)

\* gckVIDMEM_NODE_Reference.
LEMMA NodeReferenced ==
    ASSUME NodeTypes, NEW m \in Nodes, Reference(m)
    PROVE  /\ reference' \in [Nodes -> Nat]
           /\ \A n \in Nodes : reference'[n] = reference[n] + (IF n = m THEN 1 ELSE 0)
BY DEF NodeTypes, Reference

\* gckVIDMEM_NODE_Dereference of a node that is referenced.
LEMMA NodeDereferenced ==
    ASSUME VInv, NEW m \in Nodes, Dereference(m), reference[m] > 0
    PROVE  /\ reference' \in [Nodes -> Nat] /\ named' \in [Nodes -> BOOLEAN]
           /\ \A n \in Nodes : reference'[n] = reference[n] - (IF n = m THEN 1 ELSE 0)
           /\ NamedAlive'
<1>1. /\ reference' \in [Nodes -> Nat]
      /\ \A n \in Nodes : reference[n] \in Nat
      /\ \A n \in Nodes : reference'[n] = reference[n] - (IF n = m THEN 1 ELSE 0)
  BY DEF VInv, NodeTypes, Dereference
<1>2. named' = [named EXCEPT ![m] = named[m] /\ reference[m] > 1]
  BY DEF Dereference
<1>3. named' \in [Nodes -> BOOLEAN]
  BY <1>2, Zenon DEF VInv, NodeTypes
<1>4. \A n \in Nodes : named'[n] => named[n] /\ (n = m => reference[m] > 1)
  BY <1>2, Zenon DEF VInv, NodeTypes
<1>5. \A n \in Nodes : named'[n] => reference'[n] > 0
  BY <1>1, <1>4 DEF VInv, NamedAlive
<1> QED
  BY <1>1, <1>3, <1>5 DEF NamedAlive

\* The first half of LockCount's step: gckVIDMEM_NODE_Lock.
LEMMA NodeLocked ==
    ASSUME VInv, NEW m \in Nodes, NodeLock(m)
    PROVE  /\ locked' \in [Nodes -> Nat] /\ mapped' \in [Nodes -> BOOLEAN]
           /\ \A n \in Nodes : /\ locked'[n] = locked[n] + (IF n = m THEN 1 ELSE 0)
                               /\ mapped'[n] <=> locked'[n] > 0
<1>1. /\ locked' \in [Nodes -> Nat]
      /\ \A n \in Nodes : locked[n] \in Nat
      /\ \A n \in Nodes : locked'[n] = locked[n] + (IF n = m THEN 1 ELSE 0)
  BY DEF VInv, NodeTypes, NodeLock
<1>2. /\ mapped' \in [Nodes -> BOOLEAN]
      /\ \A n \in Nodes : mapped'[n] <=> mapped[n] \/ n = m
  BY Zenon DEF VInv, NodeTypes, NodeLock
<1>3. \A n \in Nodes : mapped[n] <=> locked[n] > 0
  BY DEF VInv, LockCount
<1> QED
  BY <1>1, <1>2, <1>3

\* And gckVIDMEM_NODE_Unlock of a node that is locked.
LEMMA NodeUnlocked ==
    ASSUME VInv, NEW m \in Nodes, NodeUnlock(m), locked[m] > 0
    PROVE  /\ locked' \in [Nodes -> Nat] /\ mapped' \in [Nodes -> BOOLEAN]
           /\ \A n \in Nodes : /\ locked'[n] = locked[n] - (IF n = m THEN 1 ELSE 0)
                               /\ mapped'[n] <=> locked'[n] > 0
<1>1. /\ locked' \in [Nodes -> Nat]
      /\ \A n \in Nodes : locked[n] \in Nat
      /\ \A n \in Nodes : locked'[n] = locked[n] - (IF n = m THEN 1 ELSE 0)
  BY DEF VInv, NodeTypes, NodeUnlock
<1>2. mapped' = [mapped EXCEPT ![m] = mapped[m] /\ locked[m] > 1]
  BY DEF NodeUnlock
<1>3. mapped' \in [Nodes -> BOOLEAN]
  BY <1>2, Zenon DEF VInv, NodeTypes
<1>4. \A n \in Nodes : mapped'[n] <=> mapped[n] /\ (n = m => locked[m] > 1)
  BY <1>2, Zenon DEF VInv, NodeTypes
<1>5. \A n \in Nodes : mapped[n] <=> locked[n] > 0
  BY DEF VInv, LockCount
<1> QED
  BY <1>1, <1>3, <1>4, <1>5

-----------------------------------------------------------------------------
(* A step of a process keeps the counts when what the node has and what its *)
(* owners are change together.                                              *)

\* What else than a call owns a reference, or a lock, of the node.
Owners(n) == OwnedOf(n) + LocksOf(n) + pending[n] + fds[n]
Lockers(n) == LocksOf(n) + pending[n]

\* They are counted in natural numbers, before a step and after it.
LEMMA OwnerTypes ==
    ASSUME VInv, NodeTypes', NEW n \in Nodes
    PROVE  /\ Owners(n) \in Nat /\ Lockers(n) \in Nat
           /\ Owners(n)' \in Nat /\ Lockers(n)' \in Nat
<1>1. /\ OwnedOf(n)' = Cardinality(OwnedSet(n)') /\ LocksOf(n)' = Cardinality(LocksSet(n)')
  BY DEF OwnedOf, OwnedSet, LocksOf, LocksSet
<1>2. OwnedOf(n)' \in Nat /\ LocksOf(n)' \in Nat
  BY <1>1, Finite, FS_CardinalityType
<1>3. pending'[n] \in Nat /\ fds'[n] \in Nat
  BY DEF NodeTypes
<1>4. Owners(n)' \in Nat /\ Lockers(n)' \in Nat
  BY <1>2, <1>3 DEF Owners, Lockers
<1> QED
  BY <1>4, CountTypes DEF Owners, Lockers

\* Whatever the process does to its own database.
LEMMA Balanced ==
    ASSUME VInv, HInv', NodeTypes', HandleNames', CallState', NamedAlive', UNCHANGED notify,
           NEW p \in Procs, \A q \in Procs \ {p} : call'[q] = call[q],
           \A n \in Nodes :
               /\ reference'[n] - Owners(n)' = reference[n] - Owners(n)
                     - Counted(call[p], n, Holding) + Counted(call'[p], n, Holding)
               /\ locked'[n] - Lockers(n)' = locked[n] - Lockers(n)
                     - Counted(call[p], n, Locking) + Counted(call'[p], n, Locking)
               /\ mapped'[n] <=> locked'[n] > 0
    PROVE  VInv'
<1>1. ASSUME NEW n \in Nodes
      PROVE  /\ reference'[n] = Owners(n)' + CallsAt(n, Holding)'
                                  + NotifyAt(n, {"unlock", "dereference"})'
             /\ locked'[n] = Lockers(n)' + CallsAt(n, Locking)' + NotifyAt(n, {"unlock"})'
  <2>1. /\ CallsAt(n, Holding)' = CallsAt(n, Holding) - Counted(call[p], n, Holding)
                                    + Counted(call'[p], n, Holding)
        /\ CallsAt(n, Locking)' = CallsAt(n, Locking) - Counted(call[p], n, Locking)
                                    + Counted(call'[p], n, Locking)
    BY CallsChange
  <2>2. /\ NotifyAt(n, {"unlock", "dereference"})' = NotifyAt(n, {"unlock", "dereference"})
        /\ NotifyAt(n, {"unlock"})' = NotifyAt(n, {"unlock"})
    BY DEF NotifyAt
  <2>3. reference'[n] \in Nat /\ locked'[n] \in Nat
    BY DEF NodeTypes
  <2>4. /\ Counted(call[p], n, Holding) \in 0 .. 1 /\ Counted(call'[p], n, Holding) \in 0 .. 1
        /\ Counted(call[p], n, Locking) \in 0 .. 1 /\ Counted(call'[p], n, Locking) \in 0 .. 1
    BY DEF Counted
  <2>5. /\ reference[n] = Owners(n) + CallsAt(n, Holding)
                            + NotifyAt(n, {"unlock", "dereference"})
        /\ locked[n] = Lockers(n) + CallsAt(n, Locking) + NotifyAt(n, {"unlock"})
    BY CountTypes DEF Owners, Lockers
  <2>6. /\ reference'[n] - Owners(n)' = reference[n] - Owners(n)
              - Counted(call[p], n, Holding) + Counted(call'[p], n, Holding)
        /\ locked'[n] - Lockers(n)' = locked[n] - Lockers(n)
              - Counted(call[p], n, Locking) + Counted(call'[p], n, Locking)
    OBVIOUS
  <2>7. CallsAt(n, Holding) \in Nat /\ CallsAt(n, Locking) \in Nat
    BY CountTypes
  <2>8. NotifyAt(n, {"unlock", "dereference"}) \in Nat /\ NotifyAt(n, {"unlock"}) \in Nat
    BY DEF NotifyAt
  <2>9. Owners(n) \in Nat /\ Lockers(n) \in Nat /\ Owners(n)' \in Nat /\ Lockers(n)' \in Nat
    BY OwnerTypes
  <2>10. reference'[n] = Owners(n)' + CallsAt(n, Holding)'
                           + NotifyAt(n, {"unlock", "dereference"})
    <3>1. PICK c, d, k : /\ c = Counted(call[p], n, Holding) /\ d = Counted(call'[p], n, Holding)
                         /\ k = NotifyAt(n, {"unlock", "dereference"})
      OBVIOUS
    <3>2. c \in Int /\ d \in Int /\ k \in Int
      BY <2>4, <2>8, <3>1
    <3>3. reference[n] = Owners(n) + CallsAt(n, Holding) + k
      BY <2>5, <3>1
    <3>4. reference'[n] - Owners(n)' = reference[n] - Owners(n) - c + d
      BY <2>6, <3>1
    <3>5. CallsAt(n, Holding)' = CallsAt(n, Holding) - c + d
      BY <2>1, <3>1
    <3>6. reference'[n] = Owners(n)' + CallsAt(n, Holding)' + k
      BY <2>3, <2>7, <2>9, <3>2, <3>3, <3>4, <3>5
    <3> QED
      BY <3>1, <3>6
  <2>11. locked'[n] = Lockers(n)' + CallsAt(n, Locking)' + NotifyAt(n, {"unlock"})
    BY <2>1, <2>3, <2>4, <2>5, <2>6, <2>7, <2>8, <2>9
  <2> QED
    BY <2>2, <2>10, <2>11
<1>2. RefCount'
  BY <1>1 DEF RefCount, Holding, Owners
<1>3. LockCount'
  BY <1>1 DEF LockCount, Locking, Lockers
<1>4. NotifyState'
  BY DEF VInv, NotifyState
<1> QED
  BY <1>2, <1>3, <1>4 DEF VInv

\* The calls of the other processes are as they were.
LEMMA CallsKept ==
    ASSUME VInv, NEW p \in Procs,
           \A q \in Procs \ {p} : call'[q] = call[q] /\ owned'[q] = owned[q]
               /\ locks'[q] = locks[q] /\ handles'[q] = handles[q],
           GoodCall(p, call[p])'
    PROVE  CallState'
<1>1. ASSUME NEW q \in Procs \ {p}
      PROVE  GoodCall(q, call[q])'
  BY DEF VInv, CallState, GoodCall, NodeOf
<1> QED
  BY <1>1 DEF CallState

\* When the database stays as it is.
LEMMA CallBalanced ==
    ASSUME VInv, HInv', NodeTypes', NamedAlive', UNCHANGED <<dbVars, pending, notify>>,
           NEW p \in Procs,
           NEW place \in {"idle", "handle", "dereference", "name", "use", "fd", "reference", "lock",
                          "record", "undo", "unlock"},
           NEW m \in Nodes \cup {Null}, NEW h \in Handles \cup {Null}, Goto(p, place, m, h),
           GoodCall(p, At(place, m, h)),
           \A n \in Nodes :
               /\ reference'[n] - fds'[n] = reference[n] - fds[n]
                     - Counted(call[p], n, Holding) + Counted(At(place, m, h), n, Holding)
               /\ locked'[n] = locked[n]
                     - Counted(call[p], n, Locking) + Counted(At(place, m, h), n, Locking)
               /\ mapped'[n] <=> locked'[n] > 0
    PROVE  VInv'
<1>1. UNCHANGED <<handles, opens, deleted, owned, locks, pending, notify>>
  BY DEF dbVars
<1>2. /\ call'[p] = At(place, m, h) /\ \A q \in Procs \ {p} : call'[q] = call[q]
  BY DEF VInv, HInv, DbTypes, Goto
<1>3. CallState'
  <2>1. GoodCall(p, call[p])'
    BY <1>1, <1>2 DEF GoodCall, NodeOf
  <2> QED
    BY <1>1, <1>2, <2>1, CallsKept
<1>4. HandleNames'
  BY <1>1 DEF VInv, HandleNames, NodeOf
<1>5. ASSUME NEW n \in Nodes
      PROVE  /\ reference'[n] - Owners(n)' = reference[n] - Owners(n)
                   - Counted(call[p], n, Holding) + Counted(call'[p], n, Holding)
             /\ locked'[n] - Lockers(n)' = locked[n] - Lockers(n)
                   - Counted(call[p], n, Locking) + Counted(call'[p], n, Locking)
             /\ mapped'[n] <=> locked'[n] > 0
  <2>1. OwnedOf(n)' = OwnedOf(n) /\ LocksOf(n)' = LocksOf(n) /\ pending'[n] = pending[n]
    BY <1>1 DEF OwnedOf, LocksOf, NodeOf
  <2>2. Lockers(n)' = Lockers(n)
    BY <2>1 DEF Lockers
  <2>3. Owners(n)' - fds'[n] = Owners(n) - fds[n]
    BY <2>1, CountTypes DEF Owners, NodeTypes
  <2>4. /\ Counted(call[p], n, Holding) \in 0 .. 1 /\ Counted(call[p], n, Locking) \in 0 .. 1
        /\ Counted(call'[p], n, Holding) \in 0 .. 1
        /\ Counted(call'[p], n, Locking) \in 0 .. 1
    BY DEF Counted
  <2>5. reference'[n] \in Nat /\ locked'[n] \in Nat /\ fds'[n] \in Nat
    BY DEF NodeTypes
  <2>6. /\ reference'[n] - fds'[n] = reference[n] - fds[n]
             - Counted(call[p], n, Holding) + Counted(call'[p], n, Holding)
        /\ locked'[n] = locked[n]
             - Counted(call[p], n, Locking) + Counted(call'[p], n, Locking)
        /\ mapped'[n] <=> locked'[n] > 0
    BY <1>2
  <2>7. /\ reference[n] \in Nat /\ locked[n] \in Nat /\ fds[n] \in Nat
    BY CountTypes
  <2>8. reference'[n] - Owners(n)' = reference[n] - Owners(n)
           - Counted(call[p], n, Holding) + Counted(call'[p], n, Holding)
    BY <2>3, <2>4, <2>5, <2>6, <2>7, OwnerTypes
  <2>9. locked'[n] - Lockers(n)' = locked[n] - Lockers(n)
           - Counted(call[p], n, Locking) + Counted(call'[p], n, Locking)
    BY <2>2, <2>4, <2>5, <2>6, <2>7, OwnerTypes
  <2> QED
    BY <2>6, <2>8, <2>9
<1> QED
  BY <1>1, <1>2, <1>3, <1>4, <1>5, Balanced

-----------------------------------------------------------------------------
(* The steps of a call that leave the database alone, again. *)

\* A call that is anywhere has a node, and is alone with its handle.
LEMMA Calling ==
    ASSUME VInv, NEW p \in Procs, call[p].at # "idle"
    PROVE  call[p].node \in Nodes
BY DEF VInv, HInv, DbTypes, Calls, CallState, GoodCall

\* Places at which a call needs nothing of its handle.
LEMMA PlainPlace ==
    ASSUME NEW p, NEW m \in Nodes, NEW place \in {"handle", "dereference", "undo", "unlock"}
    PROVE  GoodCall(p, At(place, m, Null))
BY NullAssumption DEF GoodCall, At

\* A call gives back the reference that it has: Return.
LEMMA ReturnStep ==
    ASSUME VInv, HInv', NEW p \in Procs, Return(p)
    PROVE  VInv'
<1>1. PICK m : m = call[p].node
  OBVIOUS
<1>2. /\ Dereference(m) /\ Goto(p, "idle", Null, Null) /\ call[p].at = "dereference"
      /\ UNCHANGED <<locked, mapped, fds, dbVars, pending, notify>>
  BY <1>1 DEF Return, In
<1>3. m \in Nodes /\ reference[m] > 0
  BY <1>1, <1>2, Calling, Held
<1>4. /\ reference' \in [Nodes -> Nat] /\ named' \in [Nodes -> BOOLEAN] /\ NamedAlive'
      /\ \A n \in Nodes : reference'[n] = reference[n] - (IF n = m THEN 1 ELSE 0)
  BY <1>2, <1>3, NodeDereferenced
<1>5. NodeTypes'
  BY <1>2, <1>4 DEF VInv, NodeTypes
<1>6. ASSUME NEW n \in Nodes
      PROVE  /\ reference'[n] - fds'[n] = reference[n] - fds[n]
                   - Counted(call[p], n, Holding) + Counted(At("idle", Null, Null), n, Holding)
             /\ locked'[n] = locked[n]
                   - Counted(call[p], n, Locking) + Counted(At("idle", Null, Null), n, Locking)
             /\ mapped'[n] <=> locked'[n] > 0
  <2>1. /\ Counted(call[p], n, Holding) = IF n = m THEN 1 ELSE 0
        /\ Counted(call[p], n, Locking) = 0
        /\ Counted(At("idle", Null, Null), n, Holding) = 0
        /\ Counted(At("idle", Null, Null), n, Locking) = 0
    BY <1>1, <1>2 DEF Counted, At, Holding, Locking
  <2> QED
    BY <1>2, <1>4, <2>1, CountTypes
<1>7. GoodCall(p, At("idle", Null, Null))
  BY DEF GoodCall, At
<1> QED
  BY <1>2, <1>3, <1>4, <1>5, <1>6, <1>7, CallBalanced

\* A call takes a reference and goes on with it.
LEMMA ReferencingStep ==
    ASSUME VInv, HInv', NEW p \in Procs, NEW m \in Nodes, Reference(m),
           UNCHANGED <<locked, mapped, fds, dbVars, pending, notify>>, call[p].at \notin Holding,
           NEW place \in {"handle", "dereference", "lock"}, NEW h \in Handles \cup {Null},
           Goto(p, place, m, h), GoodCall(p, At(place, m, h)),
           named' \in [Nodes -> BOOLEAN], \A n \in Nodes : named'[n] => named[n] \/ n = m
    PROVE  VInv'
<1>1. /\ reference' \in [Nodes -> Nat]
      /\ \A n \in Nodes : reference'[n] = reference[n] + (IF n = m THEN 1 ELSE 0)
  BY NodeReferenced DEF VInv
<1>2. NodeTypes'
  BY <1>1 DEF VInv, NodeTypes
<1>3. NamedAlive'
  BY <1>1 DEF VInv, NodeTypes, NamedAlive
<1>4. ASSUME NEW n \in Nodes
      PROVE  /\ reference'[n] - fds'[n] = reference[n] - fds[n]
                   - Counted(call[p], n, Holding) + Counted(At(place, m, h), n, Holding)
             /\ locked'[n] = locked[n]
                   - Counted(call[p], n, Locking) + Counted(At(place, m, h), n, Locking)
             /\ mapped'[n] <=> locked'[n] > 0
  <2>1. /\ Counted(call[p], n, Holding) = 0 /\ Counted(call[p], n, Locking) = 0
        /\ Counted(At(place, m, h), n, Holding) = IF n = m THEN 1 ELSE 0
        /\ Counted(At(place, m, h), n, Locking) = 0
    BY DEF Counted, At, Holding, Locking
  <2> QED
    BY <1>1, <2>1, CountTypes
<1> QED
  BY <1>2, <1>3, <1>4, CallBalanced

\* Allocate, Import, Name, Use, GetFdFails and LockReference do just that.
LEMMA ReferencingSteps ==
    ASSUME VInv, HInv', NEW p \in Procs,
           \/ \E n \in Nodes : Allocate(p, n) \/ Import(p, n)
           \/ Name(p) \/ Use(p) \/ GetFdFails(p) \/ LockReference(p)
    PROVE  VInv'
<1>1. CASE \E n \in Nodes : Allocate(p, n) \/ Import(p, n)
  <2>1. PICK m \in Nodes : Allocate(p, m) \/ Import(p, m)
    BY <1>1
  <2>2. /\ Reference(m) /\ Goto(p, "handle", m, Null)
        /\ UNCHANGED <<named, locked, mapped, fds, dbVars, pending, notify>>
        /\ call[p].at \notin Holding
    BY <2>1 DEF Allocate, Import, Ready, Idle, At, Holding
  <2>3. named' \in [Nodes -> BOOLEAN] /\ \A n \in Nodes : named'[n] => named[n]
    BY <2>2 DEF VInv, NodeTypes
  <2> QED
    BY <2>2, <2>3, PlainPlace, ReferencingStep
<1>2. CASE Name(p)
  <2>1. PICK m : m = call[p].node
    OBVIOUS
  <2>2. /\ Reference(m) /\ Goto(p, "dereference", m, Null)
        /\ UNCHANGED <<locked, mapped, fds, dbVars, pending, notify>>
        /\ call[p].at = "name" /\ call[p].at \notin Holding
        /\ named' = [named EXCEPT ![m] = TRUE]
    BY <1>2, <2>1 DEF Name, In, Holding
  <2>3. m \in Nodes
    BY <2>1, <2>2, Calling
  <2>4. named' \in [Nodes -> BOOLEAN] /\ \A n \in Nodes : named'[n] => named[n] \/ n = m
    BY <2>2, Zenon DEF VInv, NodeTypes
  <2> QED
    BY <2>2, <2>3, <2>4, PlainPlace, ReferencingStep
<1>3. CASE Use(p) \/ GetFdFails(p)
  <2>1. PICK m : m = call[p].node
    OBVIOUS
  <2>2. /\ Reference(m) /\ Goto(p, "dereference", m, Null)
        /\ UNCHANGED <<named, locked, mapped, fds, dbVars, pending, notify>>
        /\ call[p].at \in {"use", "fd"} /\ call[p].at \notin Holding
    BY <1>3, <2>1 DEF Use, GetFdFails, In, Holding
  <2>3. m \in Nodes
    BY <2>1, <2>2, Calling
  <2>4. named' \in [Nodes -> BOOLEAN] /\ \A n \in Nodes : named'[n] => named[n]
    BY <2>2 DEF VInv, NodeTypes
  <2> QED
    BY <2>2, <2>3, <2>4, PlainPlace, ReferencingStep
<1>4. CASE LockReference(p)
  <2>1. PICK m, h : m = call[p].node /\ h = call[p].handle
    OBVIOUS
  <2>2. /\ Reference(m) /\ Goto(p, "lock", m, h)
        /\ UNCHANGED <<named, locked, mapped, fds, dbVars, pending, notify>>
        /\ call[p].at = "reference" /\ call[p].at \notin Holding
    BY <1>4, <2>1 DEF LockReference, In, Holding
  <2>3. m \in Nodes /\ h \in Handles
    BY <2>1, <2>2, Calling DEF VInv, HInv, LockingHandle
  <2>4. GoodCall(p, At("lock", m, h))
    BY <2>1, <2>2, <2>3, NullAssumption DEF VInv, CallState, GoodCall, At
  <2>5. named' \in [Nodes -> BOOLEAN] /\ \A n \in Nodes : named'[n] => named[n]
    BY <2>2 DEF VInv, NodeTypes
  <2> QED
    BY <2>2, <2>3, <2>4, <2>5, ReferencingStep
<1> QED
  BY <1>1, <1>2, <1>3, <1>4

\* GetFd: the reference that was taken goes to the file.
LEMMA GetFdStep ==
    ASSUME VInv, HInv', NEW p \in Procs, GetFd(p)
    PROVE  VInv'
<1>1. PICK m : m = call[p].node
  OBVIOUS
<1>2. /\ Reference(m) /\ Goto(p, "idle", Null, Null) /\ call[p].at = "fd"
      /\ fds' = [fds EXCEPT ![m] = @ + 1]
      /\ UNCHANGED <<named, locked, mapped, dbVars, pending, notify>>
  BY <1>1 DEF GetFd, In
<1>3. m \in Nodes
  BY <1>1, <1>2, Calling
<1>4. /\ reference' \in [Nodes -> Nat]
      /\ \A n \in Nodes : reference'[n] = reference[n] + (IF n = m THEN 1 ELSE 0)
  BY <1>2, <1>3, NodeReferenced DEF VInv
<1>5. /\ fds' \in [Nodes -> Nat]
      /\ \A n \in Nodes : fds'[n] = fds[n] + (IF n = m THEN 1 ELSE 0)
  BY <1>2, <1>3 DEF VInv, NodeTypes
<1>6. NodeTypes'
  BY <1>2, <1>4, <1>5 DEF VInv, NodeTypes
<1>7. NamedAlive'
  BY <1>2, <1>4 DEF VInv, NodeTypes, NamedAlive
<1>8. ASSUME NEW n \in Nodes
      PROVE  /\ reference'[n] - fds'[n] = reference[n] - fds[n]
                   - Counted(call[p], n, Holding) + Counted(At("idle", Null, Null), n, Holding)
             /\ locked'[n] = locked[n]
                   - Counted(call[p], n, Locking) + Counted(At("idle", Null, Null), n, Locking)
             /\ mapped'[n] <=> locked'[n] > 0
  <2>1. /\ Counted(call[p], n, Holding) = 0 /\ Counted(call[p], n, Locking) = 0
        /\ Counted(At("idle", Null, Null), n, Holding) = 0
        /\ Counted(At("idle", Null, Null), n, Locking) = 0
    BY <1>2 DEF Counted, At, Holding, Locking
  <2>2. reference[n] \in Nat /\ fds[n] \in Nat /\ locked[n] \in Nat
    BY CountTypes
  <2>3. reference'[n] - fds'[n] = reference[n] - fds[n]
    BY <1>4, <1>5, <2>2
  <2>4. locked'[n] = locked[n] /\ (mapped'[n] <=> locked[n] > 0)
    BY <1>2, CountTypes
  <2> QED
    BY <2>1, <2>2, <2>3, <2>4
<1>9. GoodCall(p, At("idle", Null, Null))
  BY DEF GoodCall, At
<1>10. UNCHANGED <<dbVars, pending, notify>> /\ Goto(p, "idle", Null, Null)
  BY <1>2
<1> QED
  BY <1>6, <1>7, <1>8, <1>9, <1>10, CallBalanced

\* LockNode: the node has one lock more, of this call.
LEMMA LockNodeStep ==
    ASSUME VInv, HInv', NEW p \in Procs, LockNode(p)
    PROVE  VInv'
<1>1. PICK m, h : m = call[p].node /\ h = call[p].handle
  OBVIOUS
<1>2. /\ NodeLock(m) /\ Goto(p, "record", m, h) /\ call[p].at = "lock"
      /\ UNCHANGED <<reference, named, fds, dbVars, pending, notify>>
  BY <1>1 DEF LockNode, In
<1>3. m \in Nodes /\ h \in Handles
  BY <1>1, <1>2, Calling DEF VInv, HInv, LockingHandle
<1>4. GoodCall(p, At("record", m, h))
  BY <1>1, <1>2, <1>3, NullAssumption DEF VInv, CallState, GoodCall, At
<1>5. /\ locked' \in [Nodes -> Nat] /\ mapped' \in [Nodes -> BOOLEAN]
      /\ \A n \in Nodes : /\ locked'[n] = locked[n] + (IF n = m THEN 1 ELSE 0)
                          /\ mapped'[n] <=> locked'[n] > 0
  BY <1>2, <1>3, NodeLocked
<1>6. NodeTypes' /\ NamedAlive'
  BY <1>2, <1>5 DEF VInv, NodeTypes, NamedAlive
<1>7. ASSUME NEW n \in Nodes
      PROVE  /\ reference'[n] - fds'[n] = reference[n] - fds[n]
                   - Counted(call[p], n, Holding) + Counted(At("record", m, h), n, Holding)
             /\ locked'[n] = locked[n]
                   - Counted(call[p], n, Locking) + Counted(At("record", m, h), n, Locking)
             /\ mapped'[n] <=> locked'[n] > 0
  <2>1. /\ Counted(call[p], n, Holding) = Counted(At("record", m, h), n, Holding)
        /\ Counted(call[p], n, Holding) \in 0 .. 1
        /\ Counted(call[p], n, Locking) = 0
        /\ Counted(At("record", m, h), n, Locking) = IF n = m THEN 1 ELSE 0
    BY <1>1, <1>2 DEF Counted, At, Holding, Locking
  <2> QED
    BY <1>2, <1>5, <2>1, CountTypes
<1> QED
  BY <1>2, <1>3, <1>4, <1>6, <1>7, CallBalanced

\* UndoLock and BottomHalf take it away again.
LEMMA UnlockingSteps ==
    ASSUME VInv, HInv', NEW p \in Procs, UndoLock(p) \/ BottomHalf(p)
    PROVE  VInv'
<1>1. PICK m : m = call[p].node
  OBVIOUS
<1>2. call[p].at \in {"undo", "unlock"}
  BY DEF UndoLock, BottomHalf, In
<1>3. m \in Nodes /\ locked[m] > 0
  BY <1>1, <1>2, Calling, Held DEF Locking
<1>4. /\ NodeUnlock(m) /\ Goto(p, "dereference", m, Null)
      /\ UNCHANGED <<reference, named, fds, dbVars, pending, notify>>
  BY <1>1, <1>3 DEF UndoLock, BottomHalf
<1>5. /\ locked' \in [Nodes -> Nat] /\ mapped' \in [Nodes -> BOOLEAN]
      /\ \A n \in Nodes : /\ locked'[n] = locked[n] - (IF n = m THEN 1 ELSE 0)
                          /\ mapped'[n] <=> locked'[n] > 0
  BY <1>3, <1>4, NodeUnlocked
<1>6. NodeTypes' /\ NamedAlive'
  BY <1>4, <1>5 DEF VInv, NodeTypes, NamedAlive
<1>7. ASSUME NEW n \in Nodes
      PROVE  /\ reference'[n] - fds'[n] = reference[n] - fds[n]
                   - Counted(call[p], n, Holding) + Counted(At("dereference", m, Null), n, Holding)
             /\ locked'[n] = locked[n]
                   - Counted(call[p], n, Locking) + Counted(At("dereference", m, Null), n, Locking)
             /\ mapped'[n] <=> locked'[n] > 0
  <2>1. /\ Counted(call[p], n, Holding) = Counted(At("dereference", m, Null), n, Holding)
        /\ Counted(call[p], n, Holding) \in 0 .. 1
        /\ Counted(call[p], n, Locking) = IF n = m THEN 1 ELSE 0
        /\ Counted(At("dereference", m, Null), n, Locking) = 0
    BY <1>1, <1>2 DEF Counted, At, Holding, Locking
  <2> QED
    BY <1>4, <1>5, <2>1, CountTypes
<1> QED
  BY <1>3, <1>4, <1>6, <1>7, PlainPlace, CallBalanced

\* A call goes on without touching anything.
LEMMA StillStep ==
    ASSUME VInv, HInv', UNCHANGED <<nodeVars, dbVars, pending, notify>>, NEW p \in Procs,
           NEW place \in {"idle", "handle", "dereference", "name", "use", "fd", "reference", "lock",
                          "record", "undo", "unlock"},
           NEW m \in Nodes, NEW h \in Handles \cup {Null}, Goto(p, place, m, h),
           GoodCall(p, At(place, m, h)), call[p].node \in {m, Null},
           call[p].at \in Holding <=> place \in Holding,
           call[p].at \in Locking <=> place \in Locking
    PROVE  VInv'
<1>1. UNCHANGED <<reference, named, locked, mapped, fds, pending, notify>>
  BY DEF nodeVars
<1>2. NodeTypes' /\ NamedAlive'
  BY <1>1 DEF VInv, NodeTypes, NamedAlive
<1>3. call[p].node = Null => call[p].at \notin Holding /\ call[p].at \notin Locking
  BY DEF VInv, CallState, GoodCall, Holding, Locking
<1>4. ASSUME NEW n \in Nodes
      PROVE  /\ reference'[n] - fds'[n] = reference[n] - fds[n]
                   - Counted(call[p], n, Holding) + Counted(At(place, m, h), n, Holding)
             /\ locked'[n] = locked[n]
                   - Counted(call[p], n, Locking) + Counted(At(place, m, h), n, Locking)
             /\ mapped'[n] <=> locked'[n] > 0
  <2>1. /\ Counted(call[p], n, Holding) = Counted(At(place, m, h), n, Holding)
        /\ Counted(call[p], n, Locking) = Counted(At(place, m, h), n, Locking)
        /\ Counted(call[p], n, Holding) \in 0 .. 1 /\ Counted(call[p], n, Locking) \in 0 .. 1
    BY <1>3 DEF Counted, At
  <2> QED
    BY <1>1, <2>1, CountTypes
<1> QED
  BY <1>2, <1>4, CallBalanced

\* MakeHandleFails, LockRecordFails, and the calls that begin by looking a handle up.
LEMMA StillSteps ==
    ASSUME VInv, HInv', NEW p \in Procs,
           \/ MakeHandleFails(p) \/ LockRecordFails(p)
           \/ \E h \in Handles : \/ StartLock(p, h)
                                 \/ \E place \in {"name", "use", "fd"} : Lookup(p, h, place)
    PROVE  VInv'
<1>1. CASE MakeHandleFails(p) \/ LockRecordFails(p)
  <2>1. PICK m : m = call[p].node
    OBVIOUS
  <2>2. PICK place \in {"dereference", "undo"} :
            /\ Goto(p, place, m, Null)
            /\ IF place = "undo" THEN call[p].at = "record" ELSE call[p].at = "handle"
    BY <1>1, <2>1 DEF MakeHandleFails, LockRecordFails, In
  <2>3. UNCHANGED <<nodeVars, dbVars, pending, notify>>
    BY <1>1 DEF MakeHandleFails, LockRecordFails
  <2>4. m \in Nodes
    BY <2>1, <2>2, Calling
  <2>5. /\ call[p].at \in Holding <=> place \in Holding
        /\ call[p].at \in Locking <=> place \in Locking
    BY <2>2 DEF Holding, Locking
  <2> QED
    BY <2>1, <2>2, <2>3, <2>4, <2>5, PlainPlace, StillStep
<1>2. CASE \E h \in Handles : \/ StartLock(p, h)
                              \/ \E place \in {"name", "use", "fd"} : Lookup(p, h, place)
  <2>1. PICK h \in Handles : \/ StartLock(p, h)
                             \/ \E place \in {"name", "use", "fd"} : Lookup(p, h, place)
    BY <1>2
  <2>2. PICK place \in {"name", "use", "fd", "reference"} :
            Lookup(p, h, place) /\ (place = "reference" => locks[p][h] < MaxLocks)
    BY <2>1 DEF StartLock
  <2>3. /\ Goto(p, place, NodeOf(p, h), h) /\ h \in owned[p] /\ call[p] = Idle
        /\ UNCHANGED <<nodeVars, dbVars, pending, notify>>
    BY <2>2 DEF Lookup, Ready
  <2>4. NodeOf(p, h) \in Nodes
    <3>1. handles[p][h].reference > 0
      BY <2>3 DEF VInv, HInv, DbTypes, HandleCount
    <3> QED
      BY <3>1, HandleNode DEF VInv, HInv, HandleNames
  <2>5. GoodCall(p, At(place, NodeOf(p, h), h))
    BY <2>2, <2>3, <2>4, NullAssumption DEF GoodCall, At
  <2>6. /\ call[p].node = Null /\ call[p].at = "idle"
        /\ call[p].at \in Holding <=> place \in Holding
        /\ call[p].at \in Locking <=> place \in Locking
    BY <2>3 DEF Idle, At, Holding, Locking
  <2> QED
    BY <2>3, <2>4, <2>5, <2>6, StillStep
<1> QED
  BY <1>1, <1>2

-----------------------------------------------------------------------------
(* The steps that change what owns a handle, again. *)

\* A handle that a record owns names a node.
LEMMA OwnedNode ==
    ASSUME VInv, NEW p \in Procs, NEW h \in Handles, h \in owned[p] \/ locks[p][h] > 0
    PROVE  /\ NodeOf(p, h) \in Nodes /\ Known(p, h)
           /\ locks[p][h] \in Nat
           /\ handles[p][h].reference = (IF h \in owned[p] THEN 1 ELSE 0) + locks[p][h]
<1>1. /\ handles[p][h].reference = (IF h \in owned[p] THEN 1 ELSE 0) + locks[p][h]
      /\ locks[p][h] \in Nat
  BY DEF VInv, HInv, DbTypes, HandleCount
<1>2. handles[p][h].reference > 0
  BY <1>1
<1>3. NodeOf(p, h) # Null
  BY <1>2 DEF VInv, HandleNames
<1> QED
  BY <1>1, <1>2, <1>3, HandleNode DEF VInv, HInv, Known

\* What a process does to one handle of its own it does to no other process.
LEMMA CallsApart ==
    ASSUME VInv, NEW p \in Procs, NEW h \in Handles, NEW x,
           handles' = [handles EXCEPT ![p][h] = x],
           \/ UNCHANGED owned \/ owned' = [owned EXCEPT ![p] = @ \cup {h}]
           \/ owned' = [owned EXCEPT ![p] = @ \ {h}],
           \/ UNCHANGED locks \/ locks' = [locks EXCEPT ![p][h] = @ + 1]
           \/ locks' = [locks EXCEPT ![p][h] = @ - 1],
           NEW c \in Calls, c.at \in {"idle", "dereference", "unlock"},
           c.at = "idle" <=> c.node = Null,
           call' = [call EXCEPT ![p] = c]
    PROVE  CallState' /\ call'[p] = c /\ \A q \in Procs \ {p} : call'[q] = call[q]
<1>1. call'[p] = c /\ \A q \in Procs \ {p} : call'[q] = call[q]
  BY DEF VInv, HInv, DbTypes
<1>2. \A q \in Procs \ {p} : handles'[q] = handles[q]
  BY DEF VInv, HInv, DbTypes
<1>3. \A q \in Procs \ {p} : owned'[q] = owned[q]
  BY DEF VInv, HInv, DbTypes
<1>4. \A q \in Procs \ {p} : locks'[q] = locks[q]
  BY DEF VInv, HInv, DbTypes
<1>5. GoodCall(p, call[p])'
  BY <1>1 DEF GoodCall
<1> QED
  BY <1>1, <1>2, <1>3, <1>4, <1>5, CallsKept

\* MakeHandle: the reference of the call goes to the record of the new handle.
LEMMA MakeHandleCounts ==
    ASSUME VInv, HInv', NEW p \in Procs, NEW h \in Handles, MakeHandle(p, h)
    PROVE  VInv'
<1>1. PICK m : m = call[p].node
  OBVIOUS
<1>2. /\ call[p].at = "handle" /\ ~Known(p, h) /\ Goto(p, "idle", Null, Null)
      /\ handles' = [handles EXCEPT ![p][h] = [node |-> m, reference |-> 1]]
      /\ owned' = [owned EXCEPT ![p] = @ \cup {h}]
      /\ UNCHANGED <<reference, named, locked, mapped, fds, locks, pending, notify>>
  BY <1>1 DEF MakeHandle, In, nodeVars
<1>3. m \in Nodes
  BY <1>1, <1>2, Calling
<1>4. /\ handles[p][h].reference = 0 /\ NodeOf(p, h) = Null /\ h \notin owned[p]
      /\ locks[p][h] = 0
  BY <1>2 DEF VInv, HInv, DbTypes, HandleCount, HandleNames, Known
<1>5. \A q \in Procs : \A g \in Handles :
          handles'[q][g] = IF q = p /\ g = h THEN [node |-> m, reference |-> 1] ELSE handles[q][g]
  BY <1>2 DEF VInv, HInv, DbTypes
<1>6. \A q \in Procs : \A g \in Handles :
          g \in owned'[q] <=> g \in owned[q] \/ (q = p /\ g = h)
  BY <1>2 DEF VInv, HInv, DbTypes
<1>7. \A q \in Procs : \A g \in Handles :
          NodeOf(q, g)' = IF q = p /\ g = h THEN m ELSE NodeOf(q, g)
  BY <1>5 DEF NodeOf
<1>8. HandleNames'
  <2>1. \A q \in Procs : \A g \in Handles :
            /\ handles'[q][g].reference = 0 <=> NodeOf(q, g)' = Null
            /\ locks'[q][g] <= MaxLocks
    BY <1>2, <1>3, <1>5, <1>7, NullAssumption DEF VInv, HandleNames
  <2> QED
    BY <2>1 DEF HandleNames
<1>9. /\ CallState' /\ call'[p] = Idle /\ \A q \in Procs \ {p} : call'[q] = call[q]
  <2>1. Idle \in Calls /\ Idle.at = "idle" /\ Idle.node = Null /\ call' = [call EXCEPT ![p] = Idle]
    BY <1>2 DEF Idle, At, Calls, Goto
  <2> QED
    BY <1>2, <2>1, CallsApart
<1>10. NodeTypes' /\ NamedAlive'
  BY <1>2 DEF VInv, NodeTypes, NamedAlive
<1>11. ASSUME NEW n \in Nodes
       PROVE  /\ reference'[n] - Owners(n)' = reference[n] - Owners(n)
                    - Counted(call[p], n, Holding) + Counted(call'[p], n, Holding)
              /\ locked'[n] - Lockers(n)' = locked[n] - Lockers(n)
                    - Counted(call[p], n, Locking) + Counted(call'[p], n, Locking)
              /\ mapped'[n] <=> locked'[n] > 0
  <2>1. OwnedOf(n)' = OwnedOf(n) - (IF h \in owned[p] /\ NodeOf(p, h) = n THEN 1 ELSE 0)
                        + (IF h \in owned'[p] /\ NodeOf(p, h)' = n THEN 1 ELSE 0)
    BY <1>6, <1>7, OwnedChange
  <2>2. OwnedOf(n)' = OwnedOf(n) + (IF n = m THEN 1 ELSE 0)
    BY <1>4, <1>6, <1>7, <2>1, CountTypes
  <2>3. LocksOf(n)' = LocksOf(n)
    <3>1. \A q \in Procs : \A g \in Handles : q # p \/ g # h =>
              locks'[q][g] = locks[q][g] /\ (NodeOf(q, g)' = n <=> NodeOf(q, g) = n)
      BY <1>2, <1>7
    <3>2. \A j \in (1 .. MaxLocks) \ {0} :
              j <= locks'[p][h] /\ NodeOf(p, h)' = n <=> j <= locks[p][h] /\ NodeOf(p, h) = n
      BY <1>2, <1>4
    <3> QED
      BY <3>1, <3>2, LocksDiffer, CountTypes
  <2>4. /\ Counted(call[p], n, Holding) = (IF n = m THEN 1 ELSE 0)
        /\ Counted(call[p], n, Locking) = 0
        /\ Counted(call'[p], n, Holding) = 0 /\ Counted(call'[p], n, Locking) = 0
    BY <1>1, <1>2, <1>9 DEF Counted, Idle, At, Holding, Locking
  <2>5. Lockers(n)' = Lockers(n)
    BY <1>2, <2>3 DEF Lockers
  <2>6. Owners(n)' = Owners(n) + (IF n = m THEN 1 ELSE 0)
    BY <1>2, <2>2, <2>3, CountTypes DEF Owners
  <2>7. Owners(n) \in Nat /\ Lockers(n) \in Nat
    BY CountTypes DEF Owners, Lockers
  <2>8. reference[n] \in Nat /\ locked[n] \in Nat /\ (mapped[n] <=> locked[n] > 0)
    BY CountTypes
  <2>9. reference'[n] - Owners(n)' = reference[n] - Owners(n)
           - Counted(call[p], n, Holding) + Counted(call'[p], n, Holding)
    BY <1>2, <2>4, <2>6, <2>7, <2>8
  <2>10. locked'[n] - Lockers(n)' = locked[n] - Lockers(n)
           - Counted(call[p], n, Locking) + Counted(call'[p], n, Locking)
    BY <1>2, <2>4, <2>5, <2>7, <2>8
  <2> QED
    BY <1>2, <2>8, <2>9, <2>10
<1> QED
  BY <1>2, <1>8, <1>9, <1>10, <1>11, Balanced

\* Release and CleanMemory: the reference of the record goes to the call.
LEMMA RecordDroppedCounts ==
    ASSUME VInv, HInv', NEW p \in Procs, NEW h \in Handles, h \in owned[p],
           HandleDereference(p, h), call[p] = Idle,
           owned' = [owned EXCEPT ![p] = @ \ {h}],
           UNCHANGED <<reference, named, locked, mapped, fds, locks, pending, notify>>,
           Goto(p, "dereference", NodeOf(p, h), Null)
    PROVE  VInv'
<1>1. PICK m : m = NodeOf(p, h)
  OBVIOUS
<1>2. /\ m \in Nodes /\ Known(p, h) /\ locks[p][h] \in Nat
      /\ handles[p][h].reference = 1 + locks[p][h]
  BY <1>1, OwnedNode
<1>3. /\ handles' \in [Procs -> [Handles -> HandleRecord]]
      /\ \A q \in Procs : \A g \in Handles :
             handles'[q][g].reference = handles[q][g].reference
                                          - (IF q = p /\ g = h THEN 1 ELSE 0)
      /\ \A q \in Procs : \A g \in Handles :
             NodeOf(q, g)' = IF q = p /\ g = h /\ handles[p][h].reference = 1
                             THEN Null ELSE NodeOf(q, g)
  BY <1>2, Dereferenced DEF VInv, HInv
<1>4. \A q \in Procs : \A g \in Handles :
          g \in owned'[q] <=> g \in owned[q] /\ ~(q = p /\ g = h)
  BY DEF VInv, HInv, DbTypes
<1>5. HandleNames'
  <2>1. ASSUME NEW q \in Procs, NEW g \in Handles
        PROVE  /\ handles'[q][g].reference = 0 <=> NodeOf(q, g)' = Null
               /\ locks'[q][g] <= MaxLocks
    <3>1. CASE q = p /\ g = h
      <4>1. handles'[p][h].reference = locks[p][h] /\ m # Null /\ locks[p][h] <= MaxLocks
        BY <1>2, <1>3, NullAssumption DEF VInv, HandleNames
      <4>2. NodeOf(p, h)' = IF locks[p][h] = 0 THEN Null ELSE m
        BY <1>1, <1>2, <1>3
      <4> QED
        BY <3>1, <4>1, <4>2
    <3>2. CASE ~(q = p /\ g = h)
      BY <1>3, <3>2 DEF VInv, HInv, DbTypes, HandleNames
    <3> QED
      BY <3>1, <3>2
  <2> QED
    BY <2>1 DEF HandleNames
<1>6. /\ CallState' /\ call'[p] = At("dereference", m, Null)
      /\ \A q \in Procs \ {p} : call'[q] = call[q]
  <2>1. PICK c : c = At("dereference", m, Null)
    OBVIOUS
  <2>2. /\ c \in Calls /\ c.at = "dereference" /\ c.node # Null
        /\ call' = [call EXCEPT ![p] = c]
    BY <1>1, <1>2, <2>1, NullAssumption DEF At, Calls, Goto
  <2>3. PICK x : handles' = [handles EXCEPT ![p][h] = x]
    BY DEF HandleDereference
  <2>4. CallState' /\ call'[p] = c /\ \A q \in Procs \ {p} : call'[q] = call[q]
    BY <2>2, <2>3, CallsApart
  <2> QED
    BY <2>1, <2>4
<1>7. NodeTypes' /\ NamedAlive'
  BY DEF VInv, NodeTypes, NamedAlive
<1>8. ASSUME NEW n \in Nodes
      PROVE  /\ reference'[n] - Owners(n)' = reference[n] - Owners(n)
                   - Counted(call[p], n, Holding) + Counted(call'[p], n, Holding)
             /\ locked'[n] - Lockers(n)' = locked[n] - Lockers(n)
                   - Counted(call[p], n, Locking) + Counted(call'[p], n, Locking)
             /\ mapped'[n] <=> locked'[n] > 0
  <2>1. OwnedOf(n)' = OwnedOf(n) - (IF h \in owned[p] /\ NodeOf(p, h) = n THEN 1 ELSE 0)
                        + (IF h \in owned'[p] /\ NodeOf(p, h)' = n THEN 1 ELSE 0)
    BY <1>3, <1>4, OwnedChange
  <2>2. OwnedOf(n)' = OwnedOf(n) - (IF n = m THEN 1 ELSE 0)
    BY <1>1, <1>4, <2>1, CountTypes
  <2>3. LocksOf(n)' = LocksOf(n)
    <3>1. \A q \in Procs : \A g \in Handles : q # p \/ g # h =>
              locks'[q][g] = locks[q][g] /\ (NodeOf(q, g)' = n <=> NodeOf(q, g) = n)
      BY <1>3
    <3>2. \A j \in (1 .. MaxLocks) \ {0} :
              j <= locks'[p][h] /\ NodeOf(p, h)' = n <=> j <= locks[p][h] /\ NodeOf(p, h) = n
      <4>1. locks'[p][h] = locks[p][h] /\ (locks[p][h] = 0 \/ NodeOf(p, h)' = NodeOf(p, h))
        BY <1>2, <1>3
      <4> QED
        BY <4>1
    <3> QED
      BY <3>1, <3>2, LocksDiffer, CountTypes
  <2>4. /\ Counted(call[p], n, Holding) = 0 /\ Counted(call[p], n, Locking) = 0
        /\ Counted(call'[p], n, Holding) = (IF n = m THEN 1 ELSE 0)
        /\ Counted(call'[p], n, Locking) = 0
    BY <1>6 DEF Counted, Idle, At, Holding, Locking
  <2>5. Lockers(n)' = Lockers(n)
    BY <2>3 DEF Lockers
  <2>6. Owners(n)' = Owners(n) - (IF n = m THEN 1 ELSE 0)
    BY <2>2, <2>3, CountTypes DEF Owners
  <2>7. Owners(n) \in Nat /\ Lockers(n) \in Nat
    BY CountTypes DEF Owners, Lockers
  <2>8. reference[n] \in Nat /\ locked[n] \in Nat /\ (mapped[n] <=> locked[n] > 0)
    BY CountTypes
  <2>9. reference'[n] - Owners(n)' = reference[n] - Owners(n)
           - Counted(call[p], n, Holding) + Counted(call'[p], n, Holding)
    BY <2>4, <2>6, <2>7, <2>8
  <2>10. locked'[n] - Lockers(n)' = locked[n] - Lockers(n)
           - Counted(call[p], n, Locking) + Counted(call'[p], n, Locking)
    BY <2>4, <2>5, <2>7, <2>8
  <2> QED
    BY <2>8, <2>9, <2>10
<1> QED
  BY <1>5, <1>6, <1>7, <1>8, Balanced

\* LockRecord: the reference and the lock of the call go to a record.
LEMMA LockRecordCounts ==
    ASSUME VInv, HInv', NEW p \in Procs, LockRecord(p)
    PROVE  VInv'
<1>1. PICK m, h : m = call[p].node /\ h = call[p].handle
  OBVIOUS
<1>2. /\ call[p].at = "record" /\ HandleReference(p, h) /\ Goto(p, "idle", Null, Null)
      /\ locks' = [locks EXCEPT ![p][h] = @ + 1]
      /\ UNCHANGED <<reference, named, locked, mapped, fds, owned, pending, notify>>
  BY <1>1 DEF LockRecord, In, nodeVars
<1>3. m \in Nodes /\ h \in Handles
  BY <1>1, <1>2, Calling DEF VInv, HInv, LockingHandle
<1>4. /\ h \in owned[p] /\ NodeOf(p, h) = m /\ locks[p][h] < MaxLocks
      /\ locks[p][h] \in Nat
      /\ handles[p][h].reference = 1 + locks[p][h]
  BY <1>1, <1>2, <1>3 DEF VInv, HInv, DbTypes, HandleCount, CallState, GoodCall
<1>5. /\ \A q \in Procs : \A g \in Handles :
             handles'[q][g].reference = handles[q][g].reference
                                          + (IF q = p /\ g = h THEN 1 ELSE 0)
      /\ \A q \in Procs : \A g \in Handles : NodeOf(q, g)' = NodeOf(q, g)
  BY <1>2, <1>3, Referenced DEF VInv, HInv
<1>6. \A q \in Procs : \A g \in Handles :
          locks'[q][g] = IF q = p /\ g = h THEN locks[p][h] + 1 ELSE locks[q][g]
  BY <1>2, <1>3 DEF VInv, HInv, DbTypes
<1>7. HandleNames'
  <2>1. ASSUME NEW q \in Procs, NEW g \in Handles
        PROVE  /\ handles'[q][g].reference = 0 <=> NodeOf(q, g)' = Null
               /\ locks'[q][g] <= MaxLocks
    <3>1. CASE q = p /\ g = h
      BY <1>3, <1>4, <1>5, <1>6, <3>1, NullAssumption, BoundsAssumption
    <3>2. CASE ~(q = p /\ g = h)
      BY <1>5, <1>6, <3>2 DEF VInv, HInv, DbTypes, HandleNames
    <3> QED
      BY <3>1, <3>2
  <2> QED
    BY <2>1 DEF HandleNames
<1>8. /\ CallState' /\ call'[p] = Idle /\ \A q \in Procs \ {p} : call'[q] = call[q]
  <2>1. Idle \in Calls /\ Idle.at = "idle" /\ Idle.node = Null /\ call' = [call EXCEPT ![p] = Idle]
    BY <1>2 DEF Idle, At, Calls, Goto
  <2>2. PICK x : handles' = [handles EXCEPT ![p][h] = x]
    BY <1>2, Zenon DEF HandleReference
  <2> QED
    BY <1>2, <1>3, <2>1, <2>2, CallsApart
<1>9. NodeTypes' /\ NamedAlive'
  BY <1>2 DEF VInv, NodeTypes, NamedAlive
<1>10. ASSUME NEW n \in Nodes
       PROVE  /\ reference'[n] - Owners(n)' = reference[n] - Owners(n)
                    - Counted(call[p], n, Holding) + Counted(call'[p], n, Holding)
              /\ locked'[n] - Lockers(n)' = locked[n] - Lockers(n)
                    - Counted(call[p], n, Locking) + Counted(call'[p], n, Locking)
              /\ mapped'[n] <=> locked'[n] > 0
  <2>1. OwnedOf(n)' = OwnedOf(n)
    BY <1>2, <1>5 DEF OwnedOf
  <2>2. LocksOf(n)' = LocksOf(n) + (IF n = m THEN 1 ELSE 0)
    <3>1. PICK k : k = locks[p][h] + 1
      OBVIOUS
    <3>2. k \in 1 .. MaxLocks /\ ~(k <= locks[p][h]) /\ k <= locks'[p][h]
      BY <1>3, <1>4, <1>6, <3>1, BoundsAssumption
    <3>3. \A q \in Procs : \A g \in Handles : q # p \/ g # h =>
              locks'[q][g] = locks[q][g] /\ (NodeOf(q, g)' = n <=> NodeOf(q, g) = n)
      BY <1>5, <1>6
    <3>4. \A j \in (1 .. MaxLocks) \ {k} :
              j <= locks'[p][h] /\ NodeOf(p, h)' = n <=> j <= locks[p][h] /\ NodeOf(p, h) = n
      <4>1. \A j \in (1 .. MaxLocks) \ {k} : j <= locks'[p][h] <=> j <= locks[p][h]
        BY <1>3, <1>4, <1>6, <3>1, BoundsAssumption
      <4> QED
        BY <1>3, <1>5, <4>1
    <3>5. LocksOf(n)' =
              LocksOf(n)
                - (IF k \in 1 .. MaxLocks /\ k <= locks[p][h] /\ NodeOf(p, h) = n THEN 1 ELSE 0)
                + (IF k \in 1 .. MaxLocks /\ k <= locks'[p][h] /\ NodeOf(p, h)' = n
                   THEN 1 ELSE 0)
      BY <1>3, <3>3, <3>4, LocksDiffer
    <3>6. NodeOf(p, h)' = m
      BY <1>3, <1>4, <1>5
    <3> QED
      BY <1>4, <3>2, <3>5, <3>6, CountTypes
  <2>3. /\ Counted(call[p], n, Holding) = (IF n = m THEN 1 ELSE 0)
        /\ Counted(call[p], n, Locking) = (IF n = m THEN 1 ELSE 0)
        /\ Counted(call'[p], n, Holding) = 0 /\ Counted(call'[p], n, Locking) = 0
    BY <1>1, <1>2, <1>8 DEF Counted, Idle, At, Holding, Locking
  <2>4. Lockers(n)' = Lockers(n) + (IF n = m THEN 1 ELSE 0)
    <3>1. pending'[n] = pending[n] /\ pending[n] \in Nat /\ LocksOf(n) \in Nat
      BY <1>2, CountTypes
    <3> QED
      BY <2>2, <3>1 DEF Lockers
  <2>5. Owners(n)' = Owners(n) + (IF n = m THEN 1 ELSE 0)
    BY <1>2, <2>1, <2>2, CountTypes DEF Owners
  <2>6. Owners(n) \in Nat /\ Lockers(n) \in Nat
    BY CountTypes DEF Owners, Lockers
  <2>7. reference[n] \in Nat /\ locked[n] \in Nat /\ (mapped[n] <=> locked[n] > 0)
    BY CountTypes
  <2>8. reference'[n] - Owners(n)' = reference[n] - Owners(n)
           - Counted(call[p], n, Holding) + Counted(call'[p], n, Holding)
    BY <1>2, <2>3, <2>5, <2>6, <2>7
  <2>9. locked'[n] - Lockers(n)' = locked[n] - Lockers(n)
           - Counted(call[p], n, Locking) + Counted(call'[p], n, Locking)
    BY <1>2, <2>3, <2>4, <2>6, <2>7
  <2> QED
    BY <1>2, <2>7, <2>8, <2>9
<1> QED
  BY <1>2, <1>7, <1>8, <1>9, <1>10, Balanced

\* What the second half of an unlock does to the counts of the databases.
LEMMA DroppedCounts ==
    ASSUME VInv, NEW p \in Procs, NEW h \in Handles, DropLock(p, h), UNCHANGED owned
    PROVE  /\ NodeOf(p, h) \in Nodes /\ HandleNames'
           /\ locked[NodeOf(p, h)] > 0
           /\ \E x : handles' = [handles EXCEPT ![p][h] = x]
           /\ \A n \in Nodes : /\ OwnedOf(n)' = OwnedOf(n)
                               /\ LocksOf(n)' = LocksOf(n) - (IF n = NodeOf(p, h) THEN 1 ELSE 0)
<1>1. PICK m : m = NodeOf(p, h)
  OBVIOUS
<1>2. /\ locks[p][h] > 0 /\ HandleDereference(p, h)
      /\ locks' = [locks EXCEPT ![p][h] = @ - 1]
  BY DEF DropLock
<1>3. /\ m \in Nodes /\ Known(p, h) /\ locks[p][h] \in Nat
      /\ handles[p][h].reference = (IF h \in owned[p] THEN 1 ELSE 0) + locks[p][h]
  BY <1>1, <1>2, OwnedNode
<1>4. locked[m] > 0
  BY <1>1, <1>2, <1>3, Held
<1>5. /\ \A q \in Procs : \A g \in Handles :
             handles'[q][g].reference = handles[q][g].reference
                                          - (IF q = p /\ g = h THEN 1 ELSE 0)
      /\ \A q \in Procs : \A g \in Handles :
             NodeOf(q, g)' = IF q = p /\ g = h /\ handles[p][h].reference = 1
                             THEN Null ELSE NodeOf(q, g)
  BY <1>2, <1>3, Dereferenced DEF VInv, HInv
<1>6. \A q \in Procs : \A g \in Handles :
          locks'[q][g] = IF q = p /\ g = h THEN locks[p][h] - 1 ELSE locks[q][g]
  BY <1>2, <1>3 DEF VInv, HInv, DbTypes
<1>7. HandleNames'
  <2>1. ASSUME NEW q \in Procs, NEW g \in Handles
        PROVE  /\ handles'[q][g].reference = 0 <=> NodeOf(q, g)' = Null
               /\ locks'[q][g] <= MaxLocks
    <3>1. CASE q = p /\ g = h
      <4>1. /\ handles'[p][h].reference = handles[p][h].reference - 1
            /\ NodeOf(p, h)' = IF handles[p][h].reference = 1 THEN Null ELSE m
            /\ locks'[p][h] = locks[p][h] - 1 /\ locks[p][h] <= MaxLocks /\ m # Null
            /\ handles[p][h].reference \in Nat /\ locks[p][h] \in Nat
        BY <1>1, <1>3, <1>5, <1>6, NullAssumption DEF VInv, HandleNames, HInv, DbTypes
      <4> QED
        BY <3>1, <4>1, BoundsAssumption
    <3>2. CASE ~(q = p /\ g = h)
      BY <1>5, <1>6, <3>2 DEF VInv, HInv, DbTypes, HandleNames
    <3> QED
      BY <3>1, <3>2
  <2> QED
    BY <2>1 DEF HandleNames
<1>8. \E x : handles' = [handles EXCEPT ![p][h] = x]
  BY <1>2 DEF HandleDereference
<1>9. ASSUME NEW n \in Nodes
      PROVE  /\ OwnedOf(n)' = OwnedOf(n)
             /\ LocksOf(n)' = LocksOf(n) - (IF n = m THEN 1 ELSE 0)
  <2>1. h \in owned[p] => NodeOf(p, h)' = m
    BY <1>1, <1>2, <1>3, <1>5
  <2>2. OwnedOf(n)' = OwnedOf(n)
    <3>1. /\ \A q \in Procs : \A g \in Handles : q # p \/ g # h =>
                 (g \in owned'[q] <=> g \in owned[q]) /\ NodeOf(q, g)' = NodeOf(q, g)
      BY <1>5
    <3>2. OwnedOf(n)' = OwnedOf(n) - (IF h \in owned[p] /\ NodeOf(p, h) = n THEN 1 ELSE 0)
                          + (IF h \in owned'[p] /\ NodeOf(p, h)' = n THEN 1 ELSE 0)
      BY <3>1, OwnedChange
    <3> QED
      BY <1>1, <2>1, <3>2, CountTypes
  <2>3. LocksOf(n)' = LocksOf(n) - (IF n = m THEN 1 ELSE 0)
    <3>1. PICK k : k = locks[p][h]
      OBVIOUS
    <3>2. k \in 1 .. MaxLocks /\ k <= locks[p][h] /\ ~(k <= locks'[p][h])
      BY <1>2, <1>3, <1>6, <3>1, BoundsAssumption DEF VInv, HandleNames
    <3>3. \A q \in Procs : \A g \in Handles : q # p \/ g # h =>
              locks'[q][g] = locks[q][g] /\ (NodeOf(q, g)' = n <=> NodeOf(q, g) = n)
      BY <1>5, <1>6
    <3>4. \A j \in (1 .. MaxLocks) \ {k} :
              j <= locks'[p][h] /\ NodeOf(p, h)' = n <=> j <= locks[p][h] /\ NodeOf(p, h) = n
      <4>1. locks'[p][h] = k - 1 /\ k \in Nat
        BY <1>3, <1>6, <3>1
      <4>2. \A j \in (1 .. MaxLocks) \ {k} : j <= locks'[p][h] <=> j <= locks[p][h]
        BY <3>1, <4>1, BoundsAssumption
      <4>3. k - 1 > 0 => NodeOf(p, h)' = m
        BY <1>1, <1>3, <1>5, <3>1, <4>1
      <4>4. \A j \in (1 .. MaxLocks) \ {k} : j <= locks'[p][h] => k - 1 > 0
        BY <4>1, BoundsAssumption
      <4> QED
        BY <1>1, <4>2, <4>3, <4>4
    <3>5. LocksOf(n)' =
              LocksOf(n)
                - (IF k \in 1 .. MaxLocks /\ k <= locks[p][h] /\ NodeOf(p, h) = n THEN 1 ELSE 0)
                + (IF k \in 1 .. MaxLocks /\ k <= locks'[p][h] /\ NodeOf(p, h)' = n
                   THEN 1 ELSE 0)
      BY <3>3, <3>4, LocksDiffer
    <3> QED
      BY <1>1, <3>2, <3>5, CountTypes
  <2> QED
    BY <2>2, <2>3
<1> QED
  BY <1>1, <1>3, <1>4, <1>7, <1>8, <1>9

\* The reference and the lock of a record go to an event, or to the call.
LEMMA DroppingCounts ==
    ASSUME VInv, HInv', NEW p \in Procs, NEW h \in Handles,
           UnlockByEvent(p, h) \/ StartBottomHalf(p, h) \/ CleanLock(p, h)
    PROVE  VInv'
<1>1. PICK m : m = NodeOf(p, h)
  OBVIOUS
<1>2. locks[p][h] > 0
  BY DEF UnlockByEvent, StartBottomHalf, CleanLock, DropLock
<1>3. Known(p, h)
  BY <1>2, OwnedNode
<1>4. /\ DropLock(p, h) /\ call[p] = Idle
      /\ UNCHANGED <<reference, named, locked, mapped, fds, owned, notify>>
  BY <1>2, <1>3 DEF UnlockByEvent, StartBottomHalf, CleanLock, DropLock, Ready, Cleaning, nodeVars
<1>5. /\ m \in Nodes /\ HandleNames' /\ locked[m] > 0
      /\ \A n \in Nodes : /\ OwnedOf(n)' = OwnedOf(n)
                          /\ LocksOf(n)' = LocksOf(n) - (IF n = m THEN 1 ELSE 0)
  BY <1>1, <1>4, DroppedCounts
<1>6. \/ pending' = [pending EXCEPT ![m] = @ + 1] /\ UNCHANGED call
      \/ UNCHANGED pending /\ Goto(p, "unlock", m, Null)
  BY <1>1, <1>3, <1>5 DEF UnlockByEvent, StartBottomHalf, CleanLock
<1>7. PICK c : /\ c = IF UNCHANGED call THEN Idle ELSE At("unlock", m, Null)
  OBVIOUS
<1>8. /\ c \in Calls /\ c.at \in {"idle", "dereference", "unlock"}
      /\ c.at = "idle" <=> c.node = Null
  BY <1>5, <1>7, NullAssumption DEF Idle, At, Calls
<1>9. call' = [call EXCEPT ![p] = c]
  BY <1>4, <1>6, <1>7 DEF Goto, VInv, HInv, DbTypes
<1>10. CallState' /\ call'[p] = c /\ \A q \in Procs \ {p} : call'[q] = call[q]
  <2>1. PICK x : handles' = [handles EXCEPT ![p][h] = x]
    BY <1>4, DroppedCounts
  <2>2. locks' = [locks EXCEPT ![p][h] = @ - 1]
    BY <1>4 DEF DropLock
  <2> QED
    BY <1>4, <1>8, <1>9, <2>1, <2>2, CallsApart
<1>11. \/ /\ c = Idle
          /\ \A n \in Nodes : pending'[n] = pending[n] + (IF n = m THEN 1 ELSE 0)
          /\ pending' \in [Nodes -> Nat]
       \/ /\ c = At("unlock", m, Null)
          /\ \A n \in Nodes : pending'[n] = pending[n]
          /\ pending' \in [Nodes -> Nat]
  <2>1. CASE pending' = [pending EXCEPT ![m] = @ + 1] /\ UNCHANGED call
    <3>1. c = Idle
      BY <1>7, <2>1
    <3>2. /\ pending' \in [Nodes -> Nat]
          /\ \A n \in Nodes : pending'[n] = pending[n] + (IF n = m THEN 1 ELSE 0)
      BY <1>5, <2>1 DEF VInv, NodeTypes
    <3> QED
      BY <3>1, <3>2
  <2>2. CASE UNCHANGED pending /\ Goto(p, "unlock", m, Null)
    <3>1. call[p].node = Null /\ call'[p].node = m
      BY <1>4, <2>2 DEF Goto, Idle, At, VInv, HInv, DbTypes
    <3>2. ~UNCHANGED call
      BY <1>5, <3>1, NullAssumption
    <3> QED
      BY <1>7, <2>2, <3>2 DEF VInv, NodeTypes
  <2> QED
    BY <1>6, <2>1, <2>2
<1>12. NodeTypes' /\ NamedAlive'
  BY <1>4, <1>11 DEF VInv, NodeTypes, NamedAlive
<1>13. ASSUME NEW n \in Nodes
       PROVE  /\ reference'[n] - Owners(n)' = reference[n] - Owners(n)
                    - Counted(call[p], n, Holding) + Counted(call'[p], n, Holding)
              /\ locked'[n] - Lockers(n)' = locked[n] - Lockers(n)
                    - Counted(call[p], n, Locking) + Counted(call'[p], n, Locking)
              /\ mapped'[n] <=> locked'[n] > 0
  <2>1. PICK d : d = IF n = m THEN 1 ELSE 0
    OBVIOUS
  <2>2. PICK e : e = IF n = m /\ c # Idle THEN 1 ELSE 0
    OBVIOUS
  <2>3. c = Idle \/ c = At("unlock", m, Null)
    BY <1>11
  <2>4. c = Idle => c # At("unlock", m, Null)
    BY DEF Idle, At
  <2>5. /\ Counted(call[p], n, Holding) = 0 /\ Counted(call[p], n, Locking) = 0
        /\ Counted(call'[p], n, Holding) = e /\ Counted(call'[p], n, Locking) = e
    BY <1>4, <1>10, <2>2, <2>3, <2>4 DEF Counted, Idle, At, Holding, Locking
  <2>6. pending'[n] = pending[n] + d - e
    <3>1. pending[n] \in Nat
      BY CountTypes
    <3> QED
      BY <1>11, <2>1, <2>2, <2>4, <3>1
  <2>7. OwnedOf(n)' = OwnedOf(n) /\ LocksOf(n)' = LocksOf(n) - d /\ fds'[n] = fds[n]
    BY <1>4, <1>5, <2>1
  <2>8. d \in Nat /\ e \in Nat
    BY <2>1, <2>2
  <2>9. Lockers(n)' = Lockers(n) - e
    BY <2>6, <2>7, <2>8, CountTypes DEF Lockers
  <2>10. Owners(n)' = Owners(n) - e
    BY <2>6, <2>7, <2>8, CountTypes DEF Owners
  <2>11. Owners(n) \in Nat /\ Lockers(n) \in Nat
    BY CountTypes DEF Owners, Lockers
  <2>12. /\ reference[n] \in Nat /\ locked[n] \in Nat /\ (mapped[n] <=> locked[n] > 0)
         /\ reference'[n] = reference[n] /\ locked'[n] = locked[n] /\ mapped'[n] = mapped[n]
    BY <1>4, CountTypes
  <2>13. reference'[n] - Owners(n)' = reference[n] - Owners(n)
           - Counted(call[p], n, Holding) + Counted(call'[p], n, Holding)
    BY <2>5, <2>8, <2>10, <2>11, <2>12
  <2>14. locked'[n] - Lockers(n)' = locked[n] - Lockers(n)
           - Counted(call[p], n, Locking) + Counted(call'[p], n, Locking)
    BY <2>5, <2>8, <2>9, <2>11, <2>12
  <2> QED
    BY <2>12, <2>13, <2>14
<1> QED
  BY <1>4, <1>5, <1>10, <1>12, <1>13, Balanced

\* When handles name what they named, and no count changes, nothing does.
LEMMA Unmoved ==
    ASSUME VInv, HInv', UNCHANGED <<nodeVars, owned, locks, pending, call, notify>>,
           \A q \in Procs : \A g \in Handles :
               /\ NodeOf(q, g)' = NodeOf(q, g)
               /\ handles'[q][g].reference = handles[q][g].reference
    PROVE  VInv'
<1>1. UNCHANGED <<reference, named, locked, mapped, fds, owned, locks, pending, call, notify>>
  BY DEF nodeVars
<1>2. NodeTypes' /\ NamedAlive' /\ NotifyState'
  BY <1>1 DEF VInv, NodeTypes, NamedAlive, NotifyState
<1>3. HandleNames'
  BY <1>1 DEF VInv, HandleNames
<1>4. CallState'
  <2>1. ASSUME NEW q \in Procs
        PROVE  GoodCall(q, call[q])'
    <3>1. call[q].at \in {"name", "use", "fd", "reference", "lock", "record"} =>
              call[q].handle \in Handles
      BY DEF VInv, HInv, DbTypes, CallState, GoodCall
    <3> QED
      BY <1>1, <3>1 DEF VInv, CallState, GoodCall
  <2> QED
    BY <2>1 DEF CallState
<1>5. ASSUME NEW n \in Nodes
      PROVE  OwnedOf(n)' = OwnedOf(n) /\ LocksOf(n)' = LocksOf(n)
  BY <1>1 DEF OwnedOf, LocksOf
<1>6. RefCount'
  BY <1>1, <1>5 DEF VInv, RefCount, CallsAt, NotifyAt
<1>7. LockCount'
  BY <1>1, <1>5 DEF VInv, LockCount, CallsAt, NotifyAt
<1> QED
  BY <1>2, <1>3, <1>4, <1>6, <1>7 DEF VInv

-----------------------------------------------------------------------------
(* The interrupt thread and the files. *)

\* A step of neither database nor call has only to keep the sums.
LEMMA Elsewhere ==
    ASSUME VInv, HInv', NodeTypes', NamedAlive', NotifyState', UNCHANGED <<dbVars, call>>,
           \A n \in Nodes :
               /\ reference'[n] - pending'[n] - fds'[n] - NotifyAt(n, {"unlock", "dereference"})'
                      = reference[n] - pending[n] - fds[n] - NotifyAt(n, {"unlock", "dereference"})
               /\ locked'[n] - pending'[n] - NotifyAt(n, {"unlock"})'
                      = locked[n] - pending[n] - NotifyAt(n, {"unlock"})
               /\ mapped'[n] <=> locked'[n] > 0
    PROVE  VInv'
<1>1. UNCHANGED <<handles, owned, locks, call>>
  BY DEF dbVars
<1>2. HandleNames' /\ CallState'
  BY <1>1 DEF VInv, HandleNames, CallState, GoodCall, NodeOf
<1>3. ASSUME NEW n \in Nodes
      PROVE  /\ reference'[n] = OwnedOf(n) + LocksOf(n) + pending'[n] + fds'[n]
                   + CallsAt(n, Holding) + NotifyAt(n, {"unlock", "dereference"})'
             /\ locked'[n] = LocksOf(n) + pending'[n] + CallsAt(n, Locking)
                   + NotifyAt(n, {"unlock"})'
  <2>1. PICK k, l, s, t : /\ k = NotifyAt(n, {"unlock", "dereference"})'
                          /\ l = NotifyAt(n, {"unlock", "dereference"})
                          /\ s = NotifyAt(n, {"unlock"})' /\ t = NotifyAt(n, {"unlock"})
    OBVIOUS
  <2>2. k \in 0 .. 1 /\ l \in 0 .. 1 /\ s \in 0 .. 1 /\ t \in 0 .. 1
    BY <2>1 DEF NotifyAt
  <2>3. /\ reference'[n] - pending'[n] - fds'[n] - k = reference[n] - pending[n] - fds[n] - l
        /\ locked'[n] - pending'[n] - s = locked[n] - pending[n] - t
    BY <2>1
  <2>4. /\ reference'[n] \in Nat /\ pending'[n] \in Nat /\ fds'[n] \in Nat /\ locked'[n] \in Nat
    BY DEF NodeTypes
  <2>5. PICK o, w, c, d : /\ o = OwnedOf(n) /\ w = LocksOf(n)
                          /\ c = CallsAt(n, Holding) /\ d = CallsAt(n, Locking)
    OBVIOUS
  <2>6. /\ o \in Nat /\ w \in Nat /\ c \in Nat /\ d \in Nat
        /\ reference[n] \in Nat /\ locked[n] \in Nat /\ pending[n] \in Nat /\ fds[n] \in Nat
        /\ reference[n] = o + w + pending[n] + fds[n] + c + l
        /\ locked[n] = w + pending[n] + d + t
    BY <2>1, <2>5, CountTypes
  <2>7. reference'[n] = o + w + pending'[n] + fds'[n] + c + k
    BY <2>2, <2>3, <2>4, <2>6
  <2>8. locked'[n] = w + pending'[n] + d + s
    <3>1. locked'[n] - pending'[n] - s = w + d
      BY <2>2, <2>3, <2>6
    <3>2. w + d \in Nat /\ s \in Nat
      BY <2>2, <2>6
    <3>3. locked'[n] = w + d + pending'[n] + s
      BY <2>4, <3>1, <3>2
    <3> QED
      BY <2>4, <2>6, <3>2, <3>3
  <2> QED
    BY <2>1, <2>5, <2>7, <2>8
<1>4. ASSUME NEW n \in Nodes, NEW places
      PROVE  /\ OwnedOf(n)' = OwnedOf(n) /\ LocksOf(n)' = LocksOf(n)
             /\ CallsAt(n, places)' = CallsAt(n, places)
  BY <1>1 DEF OwnedOf, LocksOf, CallsAt, NodeOf
<1>5. RefCount'
  BY <1>3, <1>4 DEF RefCount, Holding
<1>6. LockCount'
  BY <1>3, <1>4 DEF LockCount, Locking
<1> QED
  BY <1>2, <1>5, <1>6 DEF VInv

\* NotifyTake: the reference and the lock of a record go to the interrupt thread.
LEMMA NotifyTakeStep ==
    ASSUME VInv, HInv', NEW m \in Nodes, NotifyTake(m)
    PROVE  VInv'
<1>1. /\ notify = Idle /\ notify' = At("unlock", m, Null) /\ pending[m] > 0
      /\ UNCHANGED <<reference, named, locked, mapped, fds, dbVars, call>>
  BY DEF NotifyTake, nodeVars
<1>2. /\ pending' \in [Nodes -> Nat]
      /\ \A n \in Nodes : pending'[n] = pending[n] - (IF n = m THEN 1 ELSE 0)
  BY <1>1 DEF NotifyTake, VInv, NodeTypes
<1>3. NodeTypes' /\ NamedAlive' /\ NotifyState'
  BY <1>1, <1>2, NullAssumption DEF VInv, NodeTypes, NamedAlive, NotifyState, At
<1>4. ASSUME NEW n \in Nodes
      PROVE  /\ reference'[n] - pending'[n] - fds'[n] - NotifyAt(n, {"unlock", "dereference"})'
                    = reference[n] - pending[n] - fds[n] - NotifyAt(n, {"unlock", "dereference"})
             /\ locked'[n] - pending'[n] - NotifyAt(n, {"unlock"})'
                    = locked[n] - pending[n] - NotifyAt(n, {"unlock"})
             /\ mapped'[n] <=> locked'[n] > 0
  <2>1. /\ NotifyAt(n, {"unlock", "dereference"}) = 0 /\ NotifyAt(n, {"unlock"}) = 0
        /\ NotifyAt(n, {"unlock", "dereference"})' = (IF n = m THEN 1 ELSE 0)
        /\ NotifyAt(n, {"unlock"})' = (IF n = m THEN 1 ELSE 0)
    BY <1>1 DEF NotifyAt, Idle, At
  <2>2. /\ reference'[n] = reference[n] /\ locked'[n] = locked[n] /\ fds'[n] = fds[n]
        /\ mapped'[n] = mapped[n] /\ pending'[n] = pending[n] - (IF n = m THEN 1 ELSE 0)
    BY <1>1, <1>2
  <2>3. /\ reference[n] \in Nat /\ locked[n] \in Nat /\ fds[n] \in Nat /\ pending[n] \in Nat
        /\ mapped[n] <=> locked[n] > 0
    BY CountTypes
  <2> QED
    BY <2>1, <2>2, <2>3
<1> QED
  BY <1>1, <1>3, <1>4, Elsewhere

\* NotifyUnlock: the node loses the lock that the thread has still to undo.
LEMMA NotifyUnlockStep ==
    ASSUME VInv, HInv', NotifyUnlock
    PROVE  VInv'
<1>1. PICK m : m = notify.node
  OBVIOUS
<1>2. /\ notify.at = "unlock" /\ notify' = At("dereference", m, Null) /\ NodeUnlock(m)
      /\ UNCHANGED <<reference, named, fds, dbVars, pending, call>>
  BY <1>1 DEF NotifyUnlock
<1>3. m \in Nodes /\ locked[m] > 0
  <2>1. m \in Nodes
    BY <1>1, <1>2 DEF VInv, NodeTypes, NotifyState
  <2> QED
    BY <1>1, <1>2, <2>1, Held
<1>4. /\ locked' \in [Nodes -> Nat] /\ mapped' \in [Nodes -> BOOLEAN]
      /\ \A n \in Nodes : /\ locked'[n] = locked[n] - (IF n = m THEN 1 ELSE 0)
                          /\ mapped'[n] <=> locked'[n] > 0
  BY <1>2, <1>3, NodeUnlocked
<1>5. NodeTypes' /\ NamedAlive' /\ NotifyState'
  BY <1>2, <1>3, <1>4, NullAssumption DEF VInv, NodeTypes, NamedAlive, NotifyState, At
<1>6. ASSUME NEW n \in Nodes
      PROVE  /\ reference'[n] - pending'[n] - fds'[n] - NotifyAt(n, {"unlock", "dereference"})'
                    = reference[n] - pending[n] - fds[n] - NotifyAt(n, {"unlock", "dereference"})
             /\ locked'[n] - pending'[n] - NotifyAt(n, {"unlock"})'
                    = locked[n] - pending[n] - NotifyAt(n, {"unlock"})
             /\ mapped'[n] <=> locked'[n] > 0
  <2>1. /\ NotifyAt(n, {"unlock", "dereference"})' = NotifyAt(n, {"unlock", "dereference"})
        /\ NotifyAt(n, {"unlock"}) = (IF n = m THEN 1 ELSE 0)
        /\ NotifyAt(n, {"unlock"})' = 0
    BY <1>1, <1>2 DEF NotifyAt, At
  <2>2. /\ reference'[n] = reference[n] /\ fds'[n] = fds[n] /\ pending'[n] = pending[n]
        /\ locked'[n] = locked[n] - (IF n = m THEN 1 ELSE 0)
        /\ mapped'[n] <=> locked'[n] > 0
    BY <1>2, <1>4
  <2>3. locked[n] \in Nat /\ pending[n] \in Nat
    BY CountTypes
  <2> QED
    BY <2>1, <2>2, <2>3
<1> QED
  BY <1>2, <1>5, <1>6, Elsewhere

\* NotifyDereference: and then the reference.
LEMMA NotifyDereferenceStep ==
    ASSUME VInv, HInv', NotifyDereference
    PROVE  VInv'
<1>1. PICK m : m = notify.node
  OBVIOUS
<1>2. /\ notify.at = "dereference" /\ notify' = Idle /\ Dereference(m)
      /\ UNCHANGED <<locked, mapped, fds, dbVars, pending, call>>
  BY <1>1 DEF NotifyDereference
<1>3. m \in Nodes /\ reference[m] > 0
  <2>1. m \in Nodes
    BY <1>1, <1>2 DEF VInv, NodeTypes, NotifyState
  <2> QED
    BY <1>1, <2>1, Held
<1>4. /\ reference' \in [Nodes -> Nat] /\ named' \in [Nodes -> BOOLEAN] /\ NamedAlive'
      /\ \A n \in Nodes : reference'[n] = reference[n] - (IF n = m THEN 1 ELSE 0)
  BY <1>2, <1>3, NodeDereferenced
<1>5. NodeTypes' /\ NotifyState'
  BY <1>2, <1>4 DEF VInv, NodeTypes, NotifyState, Idle, At
<1>6. ASSUME NEW n \in Nodes
      PROVE  /\ reference'[n] - pending'[n] - fds'[n] - NotifyAt(n, {"unlock", "dereference"})'
                    = reference[n] - pending[n] - fds[n] - NotifyAt(n, {"unlock", "dereference"})
             /\ locked'[n] - pending'[n] - NotifyAt(n, {"unlock"})'
                    = locked[n] - pending[n] - NotifyAt(n, {"unlock"})
             /\ mapped'[n] <=> locked'[n] > 0
  <2>1. /\ NotifyAt(n, {"unlock", "dereference"}) = (IF n = m THEN 1 ELSE 0)
        /\ NotifyAt(n, {"unlock", "dereference"})' = 0
        /\ NotifyAt(n, {"unlock"}) = 0 /\ NotifyAt(n, {"unlock"})' = 0
    BY <1>1, <1>2 DEF NotifyAt, Idle, At
  <2>2. /\ reference'[n] = reference[n] - (IF n = m THEN 1 ELSE 0)
        /\ fds'[n] = fds[n] /\ pending'[n] = pending[n] /\ locked'[n] = locked[n]
        /\ mapped'[n] = mapped[n]
    BY <1>2, <1>4
  <2>3. /\ reference[n] \in Nat /\ locked[n] \in Nat /\ fds[n] \in Nat /\ pending[n] \in Nat
        /\ mapped[n] <=> locked[n] > 0
    BY CountTypes
  <2> QED
    BY <2>1, <2>2, <2>3
<1> QED
  BY <1>2, <1>4, <1>5, <1>6, Elsewhere

\* CloseFd: the file gives its reference back.
LEMMA CloseFdStep ==
    ASSUME VInv, HInv', NEW m \in Nodes, CloseFd(m)
    PROVE  VInv'
<1>1. /\ fds[m] > 0 /\ Dereference(m)
      /\ UNCHANGED <<locked, mapped, dbVars, pending, call, notify>>
  BY DEF CloseFd
<1>2. reference[m] > 0
  BY <1>1, Held
<1>3. /\ reference' \in [Nodes -> Nat] /\ named' \in [Nodes -> BOOLEAN] /\ NamedAlive'
      /\ \A n \in Nodes : reference'[n] = reference[n] - (IF n = m THEN 1 ELSE 0)
  BY <1>1, <1>2, NodeDereferenced
<1>4. /\ fds' \in [Nodes -> Nat]
      /\ \A n \in Nodes : fds'[n] = fds[n] - (IF n = m THEN 1 ELSE 0)
  BY <1>1 DEF CloseFd, VInv, NodeTypes
<1>5. NodeTypes' /\ NotifyState'
  BY <1>1, <1>3, <1>4 DEF VInv, NodeTypes, NotifyState
<1>6. ASSUME NEW n \in Nodes
      PROVE  /\ reference'[n] - pending'[n] - fds'[n] - NotifyAt(n, {"unlock", "dereference"})'
                    = reference[n] - pending[n] - fds[n] - NotifyAt(n, {"unlock", "dereference"})
             /\ locked'[n] - pending'[n] - NotifyAt(n, {"unlock"})'
                    = locked[n] - pending[n] - NotifyAt(n, {"unlock"})
             /\ mapped'[n] <=> locked'[n] > 0
  <2>1. /\ NotifyAt(n, {"unlock", "dereference"})' = NotifyAt(n, {"unlock", "dereference"})
        /\ NotifyAt(n, {"unlock"})' = NotifyAt(n, {"unlock"})
    BY <1>1 DEF NotifyAt
  <2>2. /\ locked'[n] = locked[n] /\ mapped'[n] = mapped[n] /\ pending'[n] = pending[n]
    BY <1>1
  <2>3. reference'[n] - pending[n] - fds'[n] = reference[n] - pending[n] - fds[n]
    BY <1>3, <1>4, CountTypes
  <2>4. mapped[n] <=> locked[n] > 0
    BY CountTypes
  <2> QED
    BY <2>1, <2>2, <2>3, <2>4
<1> QED
  BY <1>1, <1>3, <1>5, <1>6, Elsewhere

-----------------------------------------------------------------------------
(* All steps again. *)

\* Every step of Next, and every stutter, keeps the counts.
LEMMA CountStep ==
    ASSUME VInv, [Next]_vars
    PROVE  VInv'
<1>1. HInv'
  BY Step DEF VInv
<1>2. CASE \E p \in Procs : Attach(p) \/ Detach(p)
  <2>1. UNCHANGED <<nodeVars, handles, owned, locks, pending, call, notify>>
    BY <1>2 DEF Attach, Detach
  <2> QED
    BY <1>1, <2>1, Unmoved DEF NodeOf
<1>3. CASE UNCHANGED vars
  BY <1>1, <1>3, Unmoved DEF vars, dbVars, NodeOf
<1>4. ASSUME NEW p \in Procs, Ioctl(p) PROVE VInv'
  <2>1. CASE \E n \in Nodes : Allocate(p, n) \/ Import(p, n)
    BY <1>1, <2>1, ReferencingSteps
  <2>2. CASE \E h \in Handles : \/ StartLock(p, h)
                                \/ \E place \in {"name", "use", "fd"} : Lookup(p, h, place)
    BY <1>1, <2>2, StillSteps
  <2>3. ASSUME NEW h \in Handles, Release(p, h) PROVE VInv'
    <3>1. /\ h \in owned[p] /\ call[p] = Idle /\ HandleDereference(p, h)
          /\ owned' = [owned EXCEPT ![p] = @ \ {h}] /\ Goto(p, "dereference", NodeOf(p, h), Null)
          /\ UNCHANGED <<reference, named, locked, mapped, fds, locks, pending, notify>>
      BY <2>3 DEF Release, Ready, nodeVars
    <3> QED
      BY <1>1, <3>1, RecordDroppedCounts
  <2>4. CASE \E h \in Handles : UnlockByEvent(p, h) \/ StartBottomHalf(p, h)
    BY <1>1, <2>4, DroppingCounts
  <2> QED
    BY <1>4, <2>1, <2>2, <2>3, <2>4 DEF Ioctl
<1>5. ASSUME NEW p \in Procs, Finish(p) PROVE VInv'
  BY <1>1, <1>5, ReturnStep, StillSteps, MakeHandleCounts, ReferencingSteps, GetFdStep,
     LockNodeStep, LockRecordCounts, UnlockingSteps DEF Finish
<1>6. ASSUME NEW p \in Procs, Clean(p) PROVE VInv'
  <2>1. ASSUME NEW h \in Handles, CleanMemory(p, h) PROVE VInv'
    <3>1. h \in owned[p]
      BY <2>1 DEF CleanMemory
    <3>2. Known(p, h)
      BY <3>1, OwnedNode
    <3>3. /\ h \in owned[p] /\ call[p] = Idle /\ HandleDereference(p, h)
          /\ owned' = [owned EXCEPT ![p] = @ \ {h}] /\ Goto(p, "dereference", NodeOf(p, h), Null)
          /\ UNCHANGED <<reference, named, locked, mapped, fds, locks, pending, notify>>
      BY <2>1, <3>2 DEF CleanMemory, Cleaning, nodeVars
    <3> QED
      BY <1>1, <3>3, RecordDroppedCounts
  <2>2. CASE \E h \in Handles : CleanLock(p, h)
    BY <1>1, <2>2, DroppingCounts
  <2>3. CASE Unlink(p)
    <3>1. \A h \in Handles : handles[p][h].reference = 0 /\ NodeOf(p, h) = Null
      BY <2>3 DEF Unlink, VInv, HInv, DbTypes, HandleCount, HandleNames
    <3>2. \A q \in Procs : \A g \in Handles :
              handles'[q][g] = IF q = p THEN NoHandle ELSE handles[q][g]
      BY <2>3 DEF Unlink, VInv, HInv, DbTypes
    <3>3. \A q \in Procs : \A g \in Handles :
              /\ NodeOf(q, g)' = NodeOf(q, g)
              /\ handles'[q][g].reference = handles[q][g].reference
      BY <3>1, <3>2 DEF NodeOf, NoHandle
    <3> QED
      BY <1>1, <2>3, <3>3, Unmoved DEF Unlink
  <2> QED
    BY <1>6, <2>1, <2>2, <2>3 DEF Clean
<1>7. CASE (\E n \in Nodes : CloseFd(n)) \/ Notify
  BY <1>1, <1>7, CloseFdStep, NotifyTakeStep, NotifyUnlockStep, NotifyDereferenceStep DEF Notify
<1> QED
  BY <1>2, <1>3, <1>4, <1>5, <1>6, <1>7 DEF Next

\* At first there is nothing to count.
LEMMA Initially ==
    ASSUME Init
    PROVE  HInv
<1>1. DbTypes
  BY DEF Init, DbTypes, Calls, Idle, At, NoHandle
<1>2. HandleCount /\ LockingHandle /\ DeletedClosed
  BY DEF Init, HandleCount, LockingHandle, DeletedClosed, NoHandle, Idle, At
<1> QED
  BY <1>1, <1>2 DEF HInv

\* At first nothing is counted, and nothing has a count.
LEMMA InitiallyCounted ==
    ASSUME Init
    PROVE  VInv
<1>1. HInv
  BY Initially
<1>2. NodeTypes /\ NamedAlive
  BY DEF Init, NodeTypes, NamedAlive, Idle, At
<1>3. HandleNames /\ CallState /\ NotifyState
  BY BoundsAssumption
     DEF Init, HandleNames, CallState, GoodCall, NotifyState, NodeOf, NoHandle, Idle, At
<1>4. ASSUME NEW n \in Nodes
      PROVE  OwnedOf(n) = 0 /\ LocksOf(n) = 0
  <2>1. OwnedSet(n) = {} /\ LocksSet(n) = {}
    BY BoundsAssumption DEF Init, OwnedSet, LocksSet
  <2> QED
    BY <2>1, FS_EmptySet DEF OwnedOf, OwnedSet, LocksOf, LocksSet
<1>5. ASSUME NEW n \in Nodes, NEW places, "idle" \notin places
      PROVE  CallsAt(n, places) = 0 /\ NotifyAt(n, places) = 0
  <2>1. CallsSet(n, places) = {}
    BY <1>5 DEF Init, CallsSet, Idle, At
  <2>2. NotifyAt(n, places) = 0
    BY <1>5 DEF Init, NotifyAt, Idle, At
  <2> QED
    BY <2>1, <2>2, FS_EmptySet DEF CallsAt, CallsSet
<1>6. RefCount
  BY <1>4, <1>5 DEF Init, RefCount
<1>7. LockCount
  BY <1>4, <1>5 DEF Init, LockCount
<1> QED
  BY <1>1, <1>2, <1>3, <1>6, <1>7 DEF VInv

\* All counts hold in every state.
LEMMA AlwaysCounted == Spec => []VInv
<1>1. Init => VInv
  BY InitiallyCounted
<1>2. VInv /\ [Next]_vars => VInv'
  BY CountStep
<1> QED
  BY <1>1, <1>2, PTL DEF Spec

\* HandlesReturned (destruction of a process database, gckKERNEL_DestroyProcessDB):
\* whatever a process had allocated and locked, and whichever of its calls failed,
\* no handle is left in its database when it is destroyed.
THEOREM NoHandleLeft == Spec => HandlesReturned
<1>1. Init => HInv
  BY Initially
<1>2. HInv /\ [Next]_vars => HInv' /\ [Emptied]_vars
  BY Step
<1> QED
  BY <1>1, <1>2, PTL DEF Spec, HandlesReturned, Emptied

\* RefCount (gckVIDMEM_NODE_Reference and gckVIDMEM_NODE_Dereference, in every call
\* that uses them, in gckEVENT_Notify and in gckKERNEL_DestroyProcessDB): a node has
\* exactly the references that somebody will give back, however many processes,
\* handles, locks, records and files there are.
THEOREM ReferencesCounted == Spec => []RefCount
<1>1. VInv => RefCount
  BY DEF VInv
<1> QED
  BY <1>1, AlwaysCounted, PTL

\* LockCount (gckVIDMEM_NODE_Lock, the two halves of an unlock, and the clean-up of
\* a process that dies with locks): the lock count of a node is what is locked and
\* has still to be undone, and the node has its GPU address exactly as long.
THEOREM LocksCounted == Spec => []LockCount
<1>1. VInv => LockCount
  BY DEF VInv
<1> QED
  BY <1>1, AlwaysCounted, PTL

\* NoDangling (the freeing of a node by the last gckVIDMEM_NODE_Dereference): no
\* handle, name, call or record is left that names a node which has been freed.
THEOREM NothingDangles == Spec => []NoDangling
<1>1. VInv => NoDangling
  BY FreedForgotten
<1> QED
  BY <1>1, AlwaysCounted, PTL
=============================================================================
