------------------------ MODULE PowerManagementProofs ------------------------
(***************************************************************************)
(* Theorems about PowerManagement, for any set of clients and any number   *)
(* of hardware events.  The inductive invariant is IInv.  Everything that  *)
(* matters hangs on who has the power mutex, how far its change has come,  *)
(* and that the power semaphore is held back from the first step out of ON *)
(* to the last one back.                                                   *)
(***************************************************************************)
EXTENDS PowerManagement, TLAPS, FiniteSetTheorems

Places == RestPCs \cup CommitPCs \cup CallPCs

(* The steps of a call that has powerMutex. *)
Section == {"semaphore", "stall", "drain", "change", "release", "save"}

(* The owner of the mutex, if there is one, is at one of these steps. *)
OwnerAt(places) == powerMutex # Null /\ pc[powerMutex] \in places

(* The state that the hardware is in: a change is made before it is saved. *)
Applied == IF OwnerAt({"release", "save"}) THEN request[powerMutex].to
           ELSE chipPowerState

(* Withheld, said of the owner of the mutex. *)
Kept == IF chipPowerState = ON THEN OwnerAt({"stall", "drain", "change", "save"})
        ELSE ~(OwnerAt({"save"}) /\ request[powerMutex].to = ON)

(* A client between raising the commit atom and lowering it. *)
Committing(c) ==
    \/ pc[c] \in {"acquire", "write", "leave", "leave_submit"}
    \/ pc[c] \in CallPCs /\ request[c] = OnAuto

Hows == {"global", "auto", "broadcast", "timeout"}

-----------------------------------------------------------------------------
(* The inductive invariant. *)

Types ==
    /\ chipPowerState \in ChipStates
    /\ clock \in BOOLEAN /\ power \in BOOLEAN /\ running \in BOOLEAN
    /\ currContext \in BOOLEAN /\ loaded \in BOOLEAN /\ busy \in BOOLEAN
    /\ globalAcquired \in BOOLEAN /\ timerArmed \in BOOLEAN
    /\ powerMutex \in Actors \cup {Null}
    /\ powerSemaphore \in Nat /\ globalSemaphore \in Nat /\ atomCommit \in Int
    /\ nextPowerState \in {OffTimeout, Null}
    /\ interruptCount \in Nat /\ pending \in Nat
    /\ interruptCount + pending <= MaxEvents
    /\ pc \in [Actors -> Places]
    /\ request \in [Actors -> Requests \cup {Null}]

(* Who is where, and asks for what. *)
Callers ==
    \A a \in Actors :
        /\ pc[a] \in {"acquire", "write", "leave", "leave_submit"} => a \in Clients
        /\ pc[a] \in CallPCs =>
               /\ request[a] \in Requests
               /\ a \in Clients => request[a].how \in {"auto", "broadcast"}
               /\ request[a].how = "global" => a = System
               /\ request[a].how = "auto" => a \in Clients \cup {System}
        /\ pc[a] \in {"wait_global", "relock"} => request[a].how = "auto"

Mutex == \A a \in Actors : pc[a] \in Section <=> powerMutex = a

(* What the early returns of a call have excluded, for as long as it has   *)
(* the mutex.                                                              *)
Underway ==
    /\ powerMutex # Null =>
           LET r == request[powerMutex] IN
           /\ r.to # chipPowerState
           /\ OwnerAt({"semaphore", "stall", "drain"}) => chipPowerState = ON
           /\ OwnerAt({"release"}) => r.to = ON
           /\ r.how = "broadcast" /\ r.to = SUSPEND => chipPowerState # OFF
           /\ r.how = "timeout" => chipPowerState # ON
    /\ chipPowerState = ON => nextPowerState = Null
    /\ globalAcquired => /\ powerMutex # Null
                         /\ request[powerMutex].how = "global"
                         /\ request[powerMutex].to # ON

(* What each state means for the hardware. *)
HardwareState ==
    /\ Applied \in {ON, IDLE} => clock /\ power /\ running
    /\ Applied \in {SUSPEND, OFF} => ~running
    /\ Applied # OFF => (currContext => loaded)

(* Behind the stall nothing is left to do, and nothing is added. *)
Quiet == Kept /\ ~OwnerAt({"stall", "drain"}) => ~busy /\ interruptCount = 0

Writers == {c \in Clients : pc[c] = "write"}
Commits == {c \in Clients : Committing(c)}
Relocking == {a \in Actors : pc[a] = "relock"}

AtomCount == atomCommit = Cardinality(Commits)

(* The global semaphore, with those who have it. *)
GlobalCount ==
    globalSemaphore + Cardinality(Relocking)
        + (IF globalAcquired THEN 1 ELSE 0) <= 1 + Cardinality(Clients)

IInv == /\ Types /\ Callers /\ Mutex /\ Underway
        /\ HardwareState /\ Quiet
        /\ SemaphoreAccounting /\ AtomCount /\ GlobalCount

-----------------------------------------------------------------------------
(* Constants. *)

\* An element more makes a set larger by one at most.
LEMMA AtMostOneMore ==
    ASSUME NEW S, NEW x, IsFiniteSet(S)
    PROVE  /\ IsFiniteSet(S \cup {x})
           /\ Cardinality(S) \in Nat /\ Cardinality(S \cup {x}) \in Nat
           /\ Cardinality(S \cup {x}) <= Cardinality(S) + 1
<1>1. Cardinality(S) \in Nat
  BY FS_CardinalityType
<1>2. /\ IsFiniteSet(S \cup {x})
      /\ Cardinality(S \cup {x}) = IF x \in S THEN Cardinality(S) ELSE Cardinality(S) + 1
  BY FS_AddElement
<1> QED
  BY <1>1, <1>2

\* The four who are no clients differ from each other.
LEMMA ActorsDiffer ==
    /\ IrqThread # Timer /\ IrqThread # System /\ IrqThread # Null
    /\ Timer # System /\ Timer # Null /\ System # Null
    /\ {IrqThread, Timer, System, Null} \cap Clients = {}
    /\ Null \notin Actors
<1> DEFINE Four == {IrqThread, Timer, System, Null}
<1>1. ASSUME NEW x, NEW y, NEW z, Four = {x, y, z} PROVE FALSE
  <2>1. IsFiniteSet({x}) /\ Cardinality({x}) <= 1
    BY FS_Singleton
  <2>2. /\ IsFiniteSet({x} \cup {y}) /\ Cardinality({x} \cup {y}) \in Nat
        /\ Cardinality({x} \cup {y}) <= 2
    BY <2>1, AtMostOneMore
  <2>3. /\ Cardinality(({x} \cup {y}) \cup {z}) \in Nat
        /\ Cardinality(({x} \cup {y}) \cup {z}) <= Cardinality({x} \cup {y}) + 1
    BY <2>2, AtMostOneMore
  <2>4. ({x} \cup {y}) \cup {z} = Four
    BY <1>1
  <2> QED
    BY <2>2, <2>3, <2>4, ActorsAssumption
<1>2. IrqThread # Timer /\ IrqThread # System /\ IrqThread # Null
  <2>1. CASE IrqThread = Timer
    BY <2>1, <1>1
  <2>2. CASE IrqThread = System
    BY <2>2, <1>1
  <2>3. CASE IrqThread = Null
    BY <2>3, <1>1
  <2> QED
    BY <2>1, <2>2, <2>3
<1>3. Timer # System /\ Timer # Null /\ System # Null
  <2>1. CASE Timer = System
    BY <2>1, <1>1
  <2>2. CASE Timer = Null
    BY <2>2, <1>1
  <2>3. CASE System = Null
    BY <2>3, <1>1
  <2> QED
    BY <2>1, <2>2, <2>3
<1> QED
  BY <1>2, <1>3, ActorsAssumption DEF Actors

\* The requests, told apart by what they ask for and how.
LEMMA RequestKinds ==
    /\ \A r \in Requests :
        /\ r.to \in ChipStates /\ r.how \in Hows
        /\ r \in Global <=> r.how = "global"
        /\ r = Request(ON, "global") <=> r.how = "global" /\ r.to = ON
        /\ r = OnAuto <=> r.how = "auto"
        /\ r = OffTimeout <=> r.how = "timeout"
        /\ r.how = "auto" => r.to = ON
        /\ r.how = "broadcast" => r.to \in {SUSPEND, OFF}
        /\ r.how = "timeout" => r.to = OFF
    /\ \A r \in Global : r \in Requests /\ r.how = "global"
    /\ \A r \in Broadcast : r \in Requests /\ r.how = "broadcast"
    /\ OnAuto \in Requests /\ OnAuto.how = "auto" /\ OnAuto.to = ON
    /\ OffTimeout \in Requests /\ OffTimeout.how = "timeout"
    /\ Request(SUSPEND, "broadcast") \in Broadcast
    /\ Request(OFF, "broadcast") \in Broadcast
    /\ Request(ON, "global") \in Global
BY DEF Requests, Global, Broadcast, OnAuto, OffTimeout, Request, ChipStates, Hows,
       ON, IDLE, SUSPEND, OFF

\* The places, one by one.
LEMMA PlacesAre ==
    Places = {"out", "restore", "global_hold", "failed", "acquire", "write", "leave",
              "leave_submit", "empty", "query", "lock", "wait_global", "relock",
              "semaphore", "stall", "drain", "change", "release", "save"}
BY DEF Places, RestPCs, CommitPCs, CallPCs

\* With the mutex, the owner is the one who withholds the semaphore.
LEMMA WithheldIsKept == Types /\ Mutex => (Withheld <=> Kept)
BY ActorsDiffer DEF Types, Mutex, Withheld, Kept, OwnerAt, Section

-----------------------------------------------------------------------------
(* The steps. *)

\* The next-state relation, action by action.
LEMMA NextSteps ==
    ASSUME Next
    PROVE
        \/ \E a \in Actors : LockBusy(a)
        \/ \E a \in Actors : LockUnchanged(a)
        \/ \E a \in Actors : LockGlobal(a)
        \/ \E a \in Actors : LockLocal(a)
        \/ \E a \in Actors : LockHeld(a)
        \/ \E a \in Actors : WaitGlobal(a)
        \/ \E a \in Actors : Relock(a)
        \/ \E a \in Actors : BroadcastAborts(a)
        \/ \E a \in Actors : BroadcastTakes(a)
        \/ \E a \in Actors : GlobalTakes(a)
        \/ \E a \in Actors : StallSubmit(a)
        \/ \E a \in Actors : Drain(a)
        \/ \E a \in Actors : PowerOff(a)
        \/ \E a \in Actors : PowerOnSuspended(a)
        \/ \E a \in Actors : PowerOn(a)
        \/ \E a \in Actors : SpeedUp(a)
        \/ \E a \in Actors : Release(a)
        \/ \E a \in Actors : Save(a)
        \/ \E a \in Actors : PowerOnFails(a)
        \/ \E a \in Actors : IsEmpty(a)
        \/ \E a \in Actors : TryToIdle(a)
        \/ \E c \in Clients : EnterCommit(c)
        \/ \E c \in Clients : AcquirePower(c)
        \/ \E c \in Clients : WriteBuffer(c)
        \/ \E c \in Clients : WriteEvent(c)
        \/ \E c \in Clients : LeaveCommit(c)
        \/ \E c \in Clients : LastDetach(c)
        \/ Notify
        \/ Interrupt
        \/ Finish
        \/ TimerFires
        \/ SetGlobal
        \/ Restore
BY ActorsDiffer DEF Next, CallStep, ClientStep, IrqStep, Actors

\* What gpu_resume may ask for.
LEMMA RestoredAre == \A r \in Restored : r \in Requests /\ r.how \in {"auto", "broadcast"}
BY RequestKinds DEF Restored

\* Every step leads from place to place, and keeps the requests.
LEMMA PlacesStep ==
    ASSUME Types, Callers, Next
    PROVE  pc' \in [Actors -> Places] /\ request' \in [Actors -> Requests \cup {Null}]
<1> DEFINE Goal == pc' \in [Actors -> Places] /\ request' \in [Actors -> Requests \cup {Null}]
<1> USE PlacesAre, ActorsDiffer, RequestKinds DEF Types
<1>1. ASSUME NEW a \in Actors, LockBusy(a) PROVE Goal
  BY <1>1 DEF LockBusy, Goto, Return, AfterCall
<1>2. ASSUME NEW a \in Actors, LockUnchanged(a) PROVE Goal
  BY <1>2 DEF LockUnchanged, Goto, Return, AfterCall
<1>3. ASSUME NEW a \in Actors, LockGlobal(a) PROVE Goal
  BY <1>3 DEF LockGlobal, Goto, Proceed
<1>4. ASSUME NEW a \in Actors, LockLocal(a) PROVE Goal
  BY <1>4 DEF LockLocal, Goto, Proceed
<1>5. ASSUME NEW a \in Actors, LockHeld(a) PROVE Goal
  BY <1>5 DEF LockHeld, Goto, Return, AfterCall
<1>6. ASSUME NEW a \in Actors, WaitGlobal(a) PROVE Goal
  BY <1>6 DEF WaitGlobal, Goto
<1>7. ASSUME NEW a \in Actors, Relock(a) PROVE Goal
  BY <1>7 DEF Relock, Goto, Return, AfterCall, Proceed
<1>8. ASSUME NEW a \in Actors, BroadcastAborts(a) PROVE Goal
  BY <1>8 DEF BroadcastAborts, Goto, Return, AfterCall
<1>9. ASSUME NEW a \in Actors, BroadcastTakes(a) PROVE Goal
  BY <1>9 DEF BroadcastTakes, Goto
<1>10. ASSUME NEW a \in Actors, GlobalTakes(a) PROVE Goal
  BY <1>10 DEF GlobalTakes, Goto
<1>11. ASSUME NEW a \in Actors, StallSubmit(a) PROVE Goal
  BY <1>11 DEF StallSubmit, Goto
<1>12. ASSUME NEW a \in Actors, Drain(a) PROVE Goal
  BY <1>12 DEF Drain, Goto
<1>13. ASSUME NEW a \in Actors, PowerOff(a) PROVE Goal
  BY <1>13 DEF PowerOff, Goto
<1>14. ASSUME NEW a \in Actors, PowerOnSuspended(a) PROVE Goal
  BY <1>14 DEF PowerOnSuspended, Goto, AfterPowerOn
<1>15. ASSUME NEW a \in Actors, PowerOn(a) PROVE Goal
  BY <1>15 DEF PowerOn, Goto, AfterPowerOn
<1>16. ASSUME NEW a \in Actors, SpeedUp(a) PROVE Goal
  BY <1>16 DEF SpeedUp, Goto, AfterPowerOn
<1>17. ASSUME NEW a \in Actors, Release(a) PROVE Goal
  BY <1>17 DEF Release, Goto
<1>18. ASSUME NEW a \in Actors, Save(a) PROVE Goal
  BY <1>18 DEF Save, Goto, Return, AfterCall
<1>19. ASSUME NEW a \in Actors, PowerOnFails(a) PROVE Goal
  BY <1>19 DEF PowerOnFails, Goto
<1>20. ASSUME NEW c \in Clients, EnterCommit(c) PROVE Goal
  BY <1>20 DEF EnterCommit, Goto, Call
<1>21. ASSUME NEW c \in Clients, AcquirePower(c) PROVE Goal
  BY <1>21 DEF AcquirePower, Goto
<1>22. ASSUME NEW c \in Clients, WriteBuffer(c) PROVE Goal
  BY <1>22 DEF WriteBuffer, Goto
<1>23. ASSUME NEW c \in Clients, WriteEvent(c) PROVE Goal
  BY <1>23 DEF WriteEvent, Goto
<1>24. ASSUME NEW c \in Clients, LeaveCommit(c) PROVE Goal
  BY <1>24 DEF LeaveCommit, Goto
<1>25. ASSUME NEW c \in Clients, LastDetach(c) PROVE Goal
  BY <1>25 DEF LastDetach, Goto, Call
<1>26. ASSUME NEW a \in Actors, IsEmpty(a) PROVE Goal
  BY <1>26 DEF IsEmpty, Goto
<1>27. ASSUME NEW a \in Actors, TryToIdle(a) PROVE Goal
  BY <1>27 DEF TryToIdle, Goto, Call
<1>28. CASE Notify
  BY <1>28 DEF Notify, Goto
<1>29. CASE Interrupt
  BY <1>29 DEF Interrupt, Goto
<1>30. CASE Finish
  BY <1>30 DEF Finish, Goto
<1>31. CASE TimerFires
  BY <1>31 DEF TimerFires, Goto, Call
<1>32. CASE SetGlobal
  BY <1>32 DEF SetGlobal, Goto, Call
<1>33. CASE Restore
  BY <1>33, RestoredAre DEF Restore, Goto, Call
<1> QED
  BY <1>1, <1>2, <1>3, <1>4, <1>5, <1>6, <1>7, <1>8, <1>9, <1>10, <1>11, <1>12, <1>13,
     <1>14, <1>15, <1>16, <1>17, <1>18, <1>19, <1>20, <1>21, <1>22, <1>23, <1>24, <1>25,
     <1>26, <1>27, <1>28, <1>29, <1>30, <1>31, <1>32, <1>33, NextSteps

\* Every step keeps the types.
LEMMA TypesStep == ASSUME Types, Callers, Next PROVE Types'
<1> DEFINE Goal == Types'
<1>0. pc' \in [Actors -> Places] /\ request' \in [Actors -> Requests \cup {Null}]
  BY PlacesStep
<1>a. ASSUME NEW a \in Actors, pc[a] = "save" PROVE request[a].to \in ChipStates
  BY <1>a, RequestKinds DEF Callers, CallPCs
<1> USE <1>0, ActorsDiffer DEF Types, hardware, locks, delayed, work
<1>1. ASSUME NEW a \in Actors, LockBusy(a) PROVE Goal
  BY <1>1 DEF LockBusy
<1>2. ASSUME NEW a \in Actors, LockUnchanged(a) PROVE Goal
  BY <1>2 DEF LockUnchanged
<1>3. ASSUME NEW a \in Actors, LockGlobal(a) PROVE Goal
  <2>1. globalAcquired' \in BOOLEAN /\ (globalAcquired' => globalSemaphore > 0)
    BY <1>3 DEF LockGlobal
  <2> QED
    BY <1>3, <2>1 DEF LockGlobal, Proceed
<1>4. ASSUME NEW a \in Actors, LockLocal(a) PROVE Goal
  BY <1>4 DEF LockLocal, Proceed
<1>5. ASSUME NEW a \in Actors, LockHeld(a) PROVE Goal
  BY <1>5 DEF LockHeld
<1>6. ASSUME NEW a \in Actors, WaitGlobal(a) PROVE Goal
  BY <1>6 DEF WaitGlobal
<1>7. ASSUME NEW a \in Actors, Relock(a) PROVE Goal
  BY <1>7 DEF Relock, Proceed
<1>8. ASSUME NEW a \in Actors, BroadcastAborts(a) PROVE Goal
  BY <1>8 DEF BroadcastAborts
<1>9. ASSUME NEW a \in Actors, BroadcastTakes(a) PROVE Goal
  BY <1>9 DEF BroadcastTakes, BroadcastBlocked
<1>10. ASSUME NEW a \in Actors, GlobalTakes(a) PROVE Goal
  BY <1>10 DEF GlobalTakes
<1>11. ASSUME NEW a \in Actors, StallSubmit(a) PROVE Goal
  BY <1>11, MaxEventsAssumption DEF StallSubmit
<1>12. ASSUME NEW a \in Actors, Drain(a) PROVE Goal
  BY <1>12 DEF Drain
<1>13. ASSUME NEW a \in Actors, PowerOff(a) PROVE Goal
  BY <1>13 DEF PowerOff
<1>14. ASSUME NEW a \in Actors, PowerOnSuspended(a) PROVE Goal
  BY <1>14 DEF PowerOnSuspended, Initialize
<1>15. ASSUME NEW a \in Actors, PowerOn(a) PROVE Goal
  BY <1>15 DEF PowerOn, Initialize
<1>16. ASSUME NEW a \in Actors, SpeedUp(a) PROVE Goal
  BY <1>16 DEF SpeedUp
<1>17. ASSUME NEW a \in Actors, Release(a) PROVE Goal
  BY <1>17 DEF Release
<1>18. ASSUME NEW a \in Actors, Save(a) PROVE Goal
  BY <1>18, <1>a DEF Save, DelayedChange
<1>19. ASSUME NEW a \in Actors, PowerOnFails(a) PROVE Goal
  <2>1. power' \in BOOLEAN
    BY <1>19 DEF PowerOnFails
  <2>2. globalSemaphore' \in Nat /\ powerMutex' \in Actors \cup {Null}
    BY <1>19 DEF PowerOnFails
  <2> QED
    BY <1>0, <1>19, <2>1, <2>2 DEF PowerOnFails
<1>20. ASSUME NEW c \in Clients, EnterCommit(c) PROVE Goal
  BY <1>20 DEF EnterCommit
<1>21. ASSUME NEW c \in Clients, AcquirePower(c) PROVE Goal
  BY <1>21 DEF AcquirePower
<1>22. ASSUME NEW c \in Clients, WriteBuffer(c) PROVE Goal
  BY <1>22 DEF WriteBuffer
<1>23. ASSUME NEW c \in Clients, WriteEvent(c) PROVE Goal
  BY <1>23, MaxEventsAssumption DEF WriteEvent
<1>24. ASSUME NEW c \in Clients, LeaveCommit(c) PROVE Goal
  BY <1>24 DEF LeaveCommit
<1>25. ASSUME NEW c \in Clients, LastDetach(c) PROVE Goal
  BY <1>25 DEF LastDetach
<1>26. ASSUME NEW a \in Actors, IsEmpty(a) PROVE Goal
  BY <1>26 DEF IsEmpty
<1>27. ASSUME NEW a \in Actors, TryToIdle(a) PROVE Goal
  BY <1>27 DEF TryToIdle
<1>28. CASE Notify
  BY <1>28, MaxEventsAssumption DEF Notify
<1>29. CASE Interrupt
  BY <1>29 DEF Interrupt
<1>30. CASE Finish
  BY <1>30 DEF Finish
<1>31. CASE TimerFires
  BY <1>31 DEF TimerFires
<1>32. CASE SetGlobal
  BY <1>32 DEF SetGlobal
<1>33. CASE Restore
  BY <1>33 DEF Restore
<1> QED
  BY <1>1, <1>2, <1>3, <1>4, <1>5, <1>6, <1>7, <1>8, <1>9, <1>10, <1>11, <1>12, <1>13,
     <1>14, <1>15, <1>16, <1>17, <1>18, <1>19, <1>20, <1>21, <1>22, <1>23, <1>24, <1>25,
     <1>26, <1>27, <1>28, <1>29, <1>30, <1>31, <1>32, <1>33, NextSteps

\* Every step leaves everybody where he may be.
LEMMA CallersStep == ASSUME Types, Callers, Next PROVE Callers'
<1> DEFINE Goal == Callers'
<1> USE ActorsDiffer, RequestKinds DEF Types, Callers, CallPCs, Goto
<1>1. ASSUME NEW a \in Actors, LockBusy(a) PROVE Goal
  BY <1>1 DEF LockBusy, Return, AfterCall
<1>2. ASSUME NEW a \in Actors, LockUnchanged(a) PROVE Goal
  BY <1>2 DEF LockUnchanged, Return, AfterCall
<1>3. ASSUME NEW a \in Actors, LockGlobal(a) PROVE Goal
  BY <1>3 DEF LockGlobal, Proceed
<1>4. ASSUME NEW a \in Actors, LockLocal(a) PROVE Goal
  BY <1>4 DEF LockLocal, Proceed
<1>5. ASSUME NEW a \in Actors, LockHeld(a) PROVE Goal
  BY <1>5 DEF LockHeld, Return, AfterCall
<1>6. ASSUME NEW a \in Actors, WaitGlobal(a) PROVE Goal
  BY <1>6 DEF WaitGlobal
<1>7. ASSUME NEW a \in Actors, Relock(a) PROVE Goal
  BY <1>7 DEF Relock, Return, AfterCall, Proceed
<1>8. ASSUME NEW a \in Actors, BroadcastAborts(a) PROVE Goal
  BY <1>8 DEF BroadcastAborts, Return, AfterCall
<1>9. ASSUME NEW a \in Actors, BroadcastTakes(a) PROVE Goal
  BY <1>9 DEF BroadcastTakes
<1>10. ASSUME NEW a \in Actors, GlobalTakes(a) PROVE Goal
  BY <1>10 DEF GlobalTakes
<1>11. ASSUME NEW a \in Actors, StallSubmit(a) PROVE Goal
  BY <1>11 DEF StallSubmit
<1>12. ASSUME NEW a \in Actors, Drain(a) PROVE Goal
  BY <1>12 DEF Drain
<1>13. ASSUME NEW a \in Actors, PowerOff(a) PROVE Goal
  BY <1>13 DEF PowerOff
<1>14. ASSUME NEW a \in Actors, PowerOnSuspended(a) PROVE Goal
  BY <1>14 DEF PowerOnSuspended, AfterPowerOn
<1>15. ASSUME NEW a \in Actors, PowerOn(a) PROVE Goal
  BY <1>15 DEF PowerOn, AfterPowerOn
<1>16. ASSUME NEW a \in Actors, SpeedUp(a) PROVE Goal
  BY <1>16 DEF SpeedUp, AfterPowerOn
<1>17. ASSUME NEW a \in Actors, Release(a) PROVE Goal
  BY <1>17 DEF Release
<1>18. ASSUME NEW a \in Actors, Save(a) PROVE Goal
  BY <1>18 DEF Save, Return, AfterCall
<1>19. ASSUME NEW a \in Actors, PowerOnFails(a) PROVE Goal
  BY <1>19 DEF PowerOnFails
<1>20. ASSUME NEW c \in Clients, EnterCommit(c) PROVE Goal
  BY <1>20 DEF EnterCommit, Call
<1>21. ASSUME NEW c \in Clients, AcquirePower(c) PROVE Goal
  BY <1>21 DEF AcquirePower
<1>22. ASSUME NEW c \in Clients, WriteBuffer(c) PROVE Goal
  BY <1>22 DEF WriteBuffer
<1>23. ASSUME NEW c \in Clients, WriteEvent(c) PROVE Goal
  BY <1>23 DEF WriteEvent
<1>24. ASSUME NEW c \in Clients, LeaveCommit(c) PROVE Goal
  BY <1>24 DEF LeaveCommit
<1>25. ASSUME NEW c \in Clients, LastDetach(c) PROVE Goal
  BY <1>25 DEF LastDetach, Call
<1>26. ASSUME NEW a \in Actors, IsEmpty(a) PROVE Goal
  BY <1>26 DEF IsEmpty
<1>27. ASSUME NEW a \in Actors, TryToIdle(a) PROVE Goal
  BY <1>27 DEF TryToIdle, Call
<1>28. CASE Notify
  BY <1>28 DEF Notify
<1>29. CASE Interrupt
  BY <1>29 DEF Interrupt
<1>30. CASE Finish
  BY <1>30 DEF Finish
<1>31. CASE TimerFires
  BY <1>31 DEF TimerFires, Call
<1>32. CASE SetGlobal
  BY <1>32 DEF SetGlobal, Call
<1>33. CASE Restore
  BY <1>33, RestoredAre DEF Restore, Call
<1> QED
  BY <1>1, <1>2, <1>3, <1>4, <1>5, <1>6, <1>7, <1>8, <1>9, <1>10, <1>11, <1>12, <1>13,
     <1>14, <1>15, <1>16, <1>17, <1>18, <1>19, <1>20, <1>21, <1>22, <1>23, <1>24, <1>25,
     <1>26, <1>27, <1>28, <1>29, <1>30, <1>31, <1>32, <1>33, NextSteps

\* The mutex has one owner, who is in the section that it guards.
LEMMA MutexStep == ASSUME Types, Callers, Mutex, Next PROVE Mutex'
<1> DEFINE Goal == Mutex'
<1> USE ActorsDiffer DEF Types, Mutex, Section, locks, Goto
<1>1. ASSUME NEW a \in Actors, LockBusy(a) PROVE Goal
  BY <1>1 DEF LockBusy, Return, AfterCall
<1>2. ASSUME NEW a \in Actors, LockUnchanged(a) PROVE Goal
  BY <1>2 DEF LockUnchanged, Return, AfterCall
<1>3. ASSUME NEW a \in Actors, LockGlobal(a) PROVE Goal
  BY <1>3 DEF LockGlobal, Proceed
<1>4. ASSUME NEW a \in Actors, LockLocal(a) PROVE Goal
  BY <1>4 DEF LockLocal, Proceed
<1>5. ASSUME NEW a \in Actors, LockHeld(a) PROVE Goal
  BY <1>5 DEF LockHeld, Return, AfterCall
<1>6. ASSUME NEW a \in Actors, WaitGlobal(a) PROVE Goal
  BY <1>6 DEF WaitGlobal
<1>7. ASSUME NEW a \in Actors, Relock(a) PROVE Goal
  BY <1>7 DEF Relock, Return, AfterCall, Proceed
<1>8. ASSUME NEW a \in Actors, BroadcastAborts(a) PROVE Goal
  BY <1>8 DEF BroadcastAborts, Return, AfterCall
<1>9. ASSUME NEW a \in Actors, BroadcastTakes(a) PROVE Goal
  BY <1>9 DEF BroadcastTakes
<1>10. ASSUME NEW a \in Actors, GlobalTakes(a) PROVE Goal
  BY <1>10 DEF GlobalTakes
<1>11. ASSUME NEW a \in Actors, StallSubmit(a) PROVE Goal
  BY <1>11 DEF StallSubmit
<1>12. ASSUME NEW a \in Actors, Drain(a) PROVE Goal
  BY <1>12 DEF Drain
<1>13. ASSUME NEW a \in Actors, PowerOff(a) PROVE Goal
  BY <1>13 DEF PowerOff
<1>14. ASSUME NEW a \in Actors, PowerOnSuspended(a) PROVE Goal
  BY <1>14 DEF PowerOnSuspended, AfterPowerOn
<1>15. ASSUME NEW a \in Actors, PowerOn(a) PROVE Goal
  BY <1>15 DEF PowerOn, AfterPowerOn
<1>16. ASSUME NEW a \in Actors, SpeedUp(a) PROVE Goal
  BY <1>16 DEF SpeedUp, AfterPowerOn
<1>17. ASSUME NEW a \in Actors, Release(a) PROVE Goal
  BY <1>17 DEF Release
<1>18. ASSUME NEW a \in Actors, Save(a) PROVE Goal
  BY <1>18 DEF Save, Return, AfterCall
<1>19. ASSUME NEW a \in Actors, PowerOnFails(a) PROVE Goal
  BY <1>19 DEF PowerOnFails
<1>20. ASSUME NEW c \in Clients, EnterCommit(c) PROVE Goal
  BY <1>20 DEF EnterCommit, Call
<1>21. ASSUME NEW c \in Clients, AcquirePower(c) PROVE Goal
  BY <1>21 DEF AcquirePower
<1>22. ASSUME NEW c \in Clients, WriteBuffer(c) PROVE Goal
  BY <1>22 DEF WriteBuffer
<1>23. ASSUME NEW c \in Clients, WriteEvent(c) PROVE Goal
  BY <1>23 DEF WriteEvent
<1>24. ASSUME NEW c \in Clients, LeaveCommit(c) PROVE Goal
  BY <1>24 DEF LeaveCommit
<1>25. ASSUME NEW c \in Clients, LastDetach(c) PROVE Goal
  BY <1>25 DEF LastDetach, Call
<1>26. ASSUME NEW a \in Actors, IsEmpty(a) PROVE Goal
  BY <1>26 DEF IsEmpty
<1>27. ASSUME NEW a \in Actors, TryToIdle(a) PROVE Goal
  BY <1>27 DEF TryToIdle, Call
<1>28. CASE Notify
  BY <1>28 DEF Notify
<1>29. CASE Interrupt
  BY <1>29 DEF Interrupt
<1>30. CASE Finish
  BY <1>30 DEF Finish
<1>31. CASE TimerFires
  BY <1>31 DEF TimerFires, Call
<1>32. CASE SetGlobal
  BY <1>32 DEF SetGlobal, Call
<1>33. CASE Restore
  BY <1>33 DEF Restore, Call, Restored
<1> QED
  BY <1>1, <1>2, <1>3, <1>4, <1>5, <1>6, <1>7, <1>8, <1>9, <1>10, <1>11, <1>12, <1>13,
     <1>14, <1>15, <1>16, <1>17, <1>18, <1>19, <1>20, <1>21, <1>22, <1>23, <1>24, <1>25,
     <1>26, <1>27, <1>28, <1>29, <1>30, <1>31, <1>32, <1>33, NextSteps

\* What a call has found when it began stays so until it ends.
LEMMA UnderwayStep == ASSUME Types, Callers, Mutex, Underway, Next PROVE Underway'
<1> DEFINE Goal == Underway'
<1> USE ActorsDiffer, RequestKinds
    DEF Types, Callers, CallPCs, Mutex, Section, Underway, OwnerAt, locks, delayed, Goto
<1>1. ASSUME NEW a \in Actors, LockBusy(a) PROVE Goal
  BY <1>1 DEF LockBusy, Return, AfterCall
<1>2. ASSUME NEW a \in Actors, LockUnchanged(a) PROVE Goal
  BY <1>2 DEF LockUnchanged, Return, AfterCall, NothingToDo
<1>3. ASSUME NEW a \in Actors, LockGlobal(a) PROVE Goal
  BY <1>3 DEF LockGlobal, Proceed, NothingToDo
<1>4. ASSUME NEW a \in Actors, LockLocal(a) PROVE Goal
  BY <1>4 DEF LockLocal, Proceed, NothingToDo
<1>5. ASSUME NEW a \in Actors, LockHeld(a) PROVE Goal
  BY <1>5 DEF LockHeld, Return, AfterCall, NothingToDo
<1>6. ASSUME NEW a \in Actors, WaitGlobal(a) PROVE Goal
  BY <1>6 DEF WaitGlobal
<1>7. ASSUME NEW a \in Actors, Relock(a) PROVE Goal
  BY <1>7 DEF Relock, Return, AfterCall, Proceed
<1>8. ASSUME NEW a \in Actors, BroadcastAborts(a) PROVE Goal
  BY <1>8 DEF BroadcastAborts, Return, AfterCall
<1>9. ASSUME NEW a \in Actors, BroadcastTakes(a) PROVE Goal
  BY <1>9 DEF BroadcastTakes
<1>10. ASSUME NEW a \in Actors, GlobalTakes(a) PROVE Goal
  BY <1>10 DEF GlobalTakes
<1>11. ASSUME NEW a \in Actors, StallSubmit(a) PROVE Goal
  BY <1>11 DEF StallSubmit
<1>12. ASSUME NEW a \in Actors, Drain(a) PROVE Goal
  BY <1>12 DEF Drain
<1>13. ASSUME NEW a \in Actors, PowerOff(a) PROVE Goal
  BY <1>13 DEF PowerOff
<1>14. ASSUME NEW a \in Actors, PowerOnSuspended(a) PROVE Goal
  BY <1>14 DEF PowerOnSuspended, AfterPowerOn
<1>15. ASSUME NEW a \in Actors, PowerOn(a) PROVE Goal
  BY <1>15 DEF PowerOn, AfterPowerOn
<1>16. ASSUME NEW a \in Actors, SpeedUp(a) PROVE Goal
  BY <1>16 DEF SpeedUp, AfterPowerOn
<1>17. ASSUME NEW a \in Actors, Release(a) PROVE Goal
  BY <1>17 DEF Release
<1>18. ASSUME NEW a \in Actors, Save(a) PROVE Goal
  <2>1. powerMutex' = Null /\ globalAcquired' = FALSE /\ chipPowerState' = request[a].to
    BY <1>18 DEF Save
  <2>2. ASSUME request[a].to = ON PROVE nextPowerState' = Null
    <3>1. request[a].how \in {"global", "auto"}
      BY <1>18, <2>2 DEF Save, Hows, ON, SUSPEND, OFF
    <3>2. nextPowerState' = DelayedChange(request[a])
      BY <1>18 DEF Save
    <3> QED
      BY <2>2, <3>1, <3>2 DEF DelayedChange, ON, IDLE, SUSPEND
  <2> QED
    BY <2>1, <2>2
<1>19. ASSUME NEW a \in Actors, PowerOnFails(a) PROVE Goal
  BY <1>19 DEF PowerOnFails
<1>20. ASSUME NEW c \in Clients, EnterCommit(c) PROVE Goal
  BY <1>20 DEF EnterCommit, Call
<1>21. ASSUME NEW c \in Clients, AcquirePower(c) PROVE Goal
  BY <1>21 DEF AcquirePower
<1>22. ASSUME NEW c \in Clients, WriteBuffer(c) PROVE Goal
  BY <1>22 DEF WriteBuffer
<1>23. ASSUME NEW c \in Clients, WriteEvent(c) PROVE Goal
  BY <1>23 DEF WriteEvent
<1>24. ASSUME NEW c \in Clients, LeaveCommit(c) PROVE Goal
  BY <1>24 DEF LeaveCommit
<1>25. ASSUME NEW c \in Clients, LastDetach(c) PROVE Goal
  BY <1>25 DEF LastDetach, Call
<1>26. ASSUME NEW a \in Actors, IsEmpty(a) PROVE Goal
  BY <1>26 DEF IsEmpty
<1>27. ASSUME NEW a \in Actors, TryToIdle(a) PROVE Goal
  BY <1>27 DEF TryToIdle, Call
<1>28. CASE Notify
  BY <1>28 DEF Notify
<1>29. CASE Interrupt
  BY <1>29 DEF Interrupt
<1>30. CASE Finish
  BY <1>30 DEF Finish
<1>31. CASE TimerFires
  BY <1>31 DEF TimerFires, Call
<1>32. CASE SetGlobal
  BY <1>32 DEF SetGlobal, Call
<1>33. CASE Restore
  BY <1>33 DEF Restore, Call, Restored
<1> QED
  BY <1>1, <1>2, <1>3, <1>4, <1>5, <1>6, <1>7, <1>8, <1>9, <1>10, <1>11, <1>12, <1>13,
     <1>14, <1>15, <1>16, <1>17, <1>18, <1>19, <1>20, <1>21, <1>22, <1>23, <1>24, <1>25,
     <1>26, <1>27, <1>28, <1>29, <1>30, <1>31, <1>32, <1>33, NextSteps

\* A client that writes has the semaphore, so nobody withholds it.
LEMMA WriterHasSemaphore ==
    ASSUME Types, Mutex, SemaphoreAccounting, NEW c \in Clients, pc[c] = "write"
    PROVE  ~Kept
<1>1. IsFiniteSet(Writers) /\ Writers # {}
  BY ClientsAssumption, FS_Subset DEF Writers
<1>2. Cardinality(Writers) \in Nat /\ Cardinality(Writers) # 0
  BY <1>1, FS_CardinalityType, FS_EmptySet
<1> QED
  BY <1>2, WithheldIsKept DEF SemaphoreAccounting, Writers, Types

\* The hardware is in the state that was applied.
LEMMA HardwareStep ==
    ASSUME Types, Callers, Mutex, Underway, HardwareState, Next
    PROVE  HardwareState'
<1> DEFINE Goal == HardwareState'
<1> USE ActorsDiffer, RequestKinds
    DEF Types, Callers, CallPCs, Mutex, Section, Underway, HardwareState, Applied, OwnerAt,
        locks, hardware, Goto, ChipStates, ON, IDLE, SUSPEND, OFF
<1>1. ASSUME NEW a \in Actors, LockBusy(a) PROVE Goal
  BY <1>1 DEF LockBusy, Return, AfterCall
<1>2. ASSUME NEW a \in Actors, LockUnchanged(a) PROVE Goal
  BY <1>2 DEF LockUnchanged, Return, AfterCall
<1>3. ASSUME NEW a \in Actors, LockGlobal(a) PROVE Goal
  BY <1>3 DEF LockGlobal, Proceed
<1>4. ASSUME NEW a \in Actors, LockLocal(a) PROVE Goal
  BY <1>4 DEF LockLocal, Proceed
<1>5. ASSUME NEW a \in Actors, LockHeld(a) PROVE Goal
  BY <1>5 DEF LockHeld, Return, AfterCall
<1>6. ASSUME NEW a \in Actors, WaitGlobal(a) PROVE Goal
  BY <1>6 DEF WaitGlobal
<1>7. ASSUME NEW a \in Actors, Relock(a) PROVE Goal
  BY <1>7 DEF Relock, Return, AfterCall, Proceed
<1>8. ASSUME NEW a \in Actors, BroadcastAborts(a) PROVE Goal
  BY <1>8 DEF BroadcastAborts, Return, AfterCall
<1>9. ASSUME NEW a \in Actors, BroadcastTakes(a) PROVE Goal
  BY <1>9 DEF BroadcastTakes
<1>10. ASSUME NEW a \in Actors, GlobalTakes(a) PROVE Goal
  BY <1>10 DEF GlobalTakes
<1>11. ASSUME NEW a \in Actors, StallSubmit(a) PROVE Goal
  BY <1>11 DEF StallSubmit
<1>12. ASSUME NEW a \in Actors, Drain(a) PROVE Goal
  BY <1>12 DEF Drain
<1>13. ASSUME NEW a \in Actors, PowerOff(a) PROVE Goal
  <2>1. /\ clock' <=> clock /\ request[a].to = IDLE
        /\ running' <=> running /\ request[a].to = IDLE
        /\ power' <=> power /\ request[a].to # OFF
        /\ loaded' <=> loaded /\ request[a].to # OFF
    BY <1>13 DEF PowerOff
  <2>2. /\ powerMutex = a /\ powerMutex' = a /\ pc[a] = "change" /\ pc'[a] = "save"
        /\ chipPowerState < request[a].to
        /\ request' = request /\ currContext' = currContext
    BY <1>13 DEF PowerOff
  <2>3. Applied = chipPowerState /\ Applied' = request[a].to
    BY <2>2
  <2>4. request[a].to \in {IDLE, SUSPEND, OFF} /\ chipPowerState < request[a].to
    BY <1>13, <2>2
  <2> QED
    BY <2>1, <2>2, <2>3, <2>4 DEF HardwareState
<1>14. ASSUME NEW a \in Actors, PowerOnSuspended(a) PROVE Goal
  BY <1>14 DEF PowerOnSuspended, AfterPowerOn, Initialize
<1>15. ASSUME NEW a \in Actors, PowerOn(a) PROVE Goal
  BY <1>15 DEF PowerOn, AfterPowerOn, Initialize
<1>16. ASSUME NEW a \in Actors, SpeedUp(a) PROVE Goal
  BY <1>16 DEF SpeedUp, AfterPowerOn
<1>17. ASSUME NEW a \in Actors, Release(a) PROVE Goal
  BY <1>17 DEF Release
<1>18. ASSUME NEW a \in Actors, Save(a) PROVE Goal
  BY <1>18 DEF Save, Return, AfterCall
<1>19. ASSUME NEW a \in Actors, PowerOnFails(a) PROVE Goal
  BY <1>19 DEF PowerOnFails
<1>20. ASSUME NEW c \in Clients, EnterCommit(c) PROVE Goal
  BY <1>20 DEF EnterCommit, Call
<1>21. ASSUME NEW c \in Clients, AcquirePower(c) PROVE Goal
  BY <1>21 DEF AcquirePower
<1>22. ASSUME NEW c \in Clients, WriteBuffer(c) PROVE Goal
  <2>1. \A p \in SUBSET {"release", "save"} : OwnerAt(p)' <=> OwnerAt(p)
    BY <1>22 DEF WriteBuffer
  <2>2. Applied' = Applied
    BY <1>22, <2>1 DEF WriteBuffer
  <2>3. (clock /\ power /\ running)' <=> (clock /\ power /\ running)
    BY <1>22 DEF WriteBuffer
  <2>4. Applied # OFF => loaded'
    <3>1. loaded' = (loaded \/ ~currContext)
      BY <1>22 DEF WriteBuffer
    <3> QED
      BY <3>1
  <2> QED
    BY <1>22, <2>2, <2>3, <2>4 DEF WriteBuffer
<1>23. ASSUME NEW c \in Clients, WriteEvent(c) PROVE Goal
  BY <1>23 DEF WriteEvent
<1>24. ASSUME NEW c \in Clients, LeaveCommit(c) PROVE Goal
  BY <1>24 DEF LeaveCommit
<1>25. ASSUME NEW c \in Clients, LastDetach(c) PROVE Goal
  BY <1>25 DEF LastDetach, Call
<1>26. ASSUME NEW a \in Actors, IsEmpty(a) PROVE Goal
  BY <1>26 DEF IsEmpty
<1>27. ASSUME NEW a \in Actors, TryToIdle(a) PROVE Goal
  BY <1>27 DEF TryToIdle, Call
<1>28. CASE Notify
  BY <1>28 DEF Notify
<1>29. CASE Interrupt
  BY <1>29 DEF Interrupt
<1>30. CASE Finish
  BY <1>30 DEF Finish
<1>31. CASE TimerFires
  BY <1>31 DEF TimerFires, Call
<1>32. CASE SetGlobal
  BY <1>32 DEF SetGlobal, Call
<1>33. CASE Restore
  BY <1>33 DEF Restore, Call, Restored
<1> QED
  BY <1>1, <1>2, <1>3, <1>4, <1>5, <1>6, <1>7, <1>8, <1>9, <1>10, <1>11, <1>12, <1>13,
     <1>14, <1>15, <1>16, <1>17, <1>18, <1>19, <1>20, <1>21, <1>22, <1>23, <1>24, <1>25,
     <1>26, <1>27, <1>28, <1>29, <1>30, <1>31, <1>32, <1>33, NextSteps

\* Behind the stall nobody gives the GPU work.
LEMMA QuietStep ==
    ASSUME Types, Callers, Mutex, Underway, Quiet, SemaphoreAccounting, Next
    PROVE  Quiet'
<1> DEFINE Goal == Quiet'
<1> USE ActorsDiffer, WriterHasSemaphore
    DEF Types, Callers, CallPCs, Mutex, Section, Underway, Quiet, Kept, OwnerAt,
        locks, work, Goto
<1>1. ASSUME NEW a \in Actors, LockBusy(a) PROVE Goal
  BY <1>1 DEF LockBusy, Return, AfterCall
<1>2. ASSUME NEW a \in Actors, LockUnchanged(a) PROVE Goal
  BY <1>2 DEF LockUnchanged, Return, AfterCall
<1>3. ASSUME NEW a \in Actors, LockGlobal(a) PROVE Goal
  BY <1>3 DEF LockGlobal, Proceed
<1>4. ASSUME NEW a \in Actors, LockLocal(a) PROVE Goal
  BY <1>4 DEF LockLocal, Proceed
<1>5. ASSUME NEW a \in Actors, LockHeld(a) PROVE Goal
  BY <1>5 DEF LockHeld, Return, AfterCall
<1>6. ASSUME NEW a \in Actors, WaitGlobal(a) PROVE Goal
  BY <1>6 DEF WaitGlobal
<1>7. ASSUME NEW a \in Actors, Relock(a) PROVE Goal
  BY <1>7 DEF Relock, Return, AfterCall, Proceed
<1>8. ASSUME NEW a \in Actors, BroadcastAborts(a) PROVE Goal
  BY <1>8 DEF BroadcastAborts, Return, AfterCall
<1>9. ASSUME NEW a \in Actors, BroadcastTakes(a) PROVE Goal
  BY <1>9 DEF BroadcastTakes, BroadcastBlocked, QueryIdle
<1>10. ASSUME NEW a \in Actors, GlobalTakes(a) PROVE Goal
  BY <1>10 DEF GlobalTakes
<1>11. ASSUME NEW a \in Actors, StallSubmit(a) PROVE Goal
  BY <1>11 DEF StallSubmit
<1>12. ASSUME NEW a \in Actors, Drain(a) PROVE Goal
  BY <1>12 DEF Drain, Drained
<1>13. ASSUME NEW a \in Actors, PowerOff(a) PROVE Goal
  BY <1>13 DEF PowerOff
<1>14. ASSUME NEW a \in Actors, PowerOnSuspended(a) PROVE Goal
  BY <1>14 DEF PowerOnSuspended, AfterPowerOn, Initialize
<1>15. ASSUME NEW a \in Actors, PowerOn(a) PROVE Goal
  BY <1>15 DEF PowerOn, AfterPowerOn, Initialize
<1>16. ASSUME NEW a \in Actors, SpeedUp(a) PROVE Goal
  BY <1>16 DEF SpeedUp, AfterPowerOn
<1>17. ASSUME NEW a \in Actors, Release(a) PROVE Goal
  BY <1>17 DEF Release
<1>18. ASSUME NEW a \in Actors, Save(a) PROVE Goal
  BY <1>18 DEF Save, Return, AfterCall
<1>19. ASSUME NEW a \in Actors, PowerOnFails(a) PROVE Goal
  BY <1>19 DEF PowerOnFails
<1>20. ASSUME NEW c \in Clients, EnterCommit(c) PROVE Goal
  BY <1>20 DEF EnterCommit, Call
<1>21. ASSUME NEW c \in Clients, AcquirePower(c) PROVE Goal
  BY <1>21 DEF AcquirePower
<1>22. ASSUME NEW c \in Clients, WriteBuffer(c) PROVE Goal
  BY <1>22 DEF WriteBuffer
<1>23. ASSUME NEW c \in Clients, WriteEvent(c) PROVE Goal
  BY <1>23 DEF WriteEvent
<1>24. ASSUME NEW c \in Clients, LeaveCommit(c) PROVE Goal
  BY <1>24 DEF LeaveCommit
<1>25. ASSUME NEW c \in Clients, LastDetach(c) PROVE Goal
  BY <1>25 DEF LastDetach, Call
<1>26. ASSUME NEW a \in Actors, IsEmpty(a) PROVE Goal
  BY <1>26 DEF IsEmpty
<1>27. ASSUME NEW a \in Actors, TryToIdle(a) PROVE Goal
  BY <1>27 DEF TryToIdle, Call
<1>28. CASE Notify
  BY <1>28 DEF Notify
<1>29. CASE Interrupt
  BY <1>29 DEF Interrupt
<1>30. CASE Finish
  BY <1>30 DEF Finish
<1>31. CASE TimerFires
  BY <1>31 DEF TimerFires, Call
<1>32. CASE SetGlobal
  BY <1>32 DEF SetGlobal, Call
<1>33. CASE Restore
  BY <1>33 DEF Restore, Call, Restored
<1> QED
  BY <1>1, <1>2, <1>3, <1>4, <1>5, <1>6, <1>7, <1>8, <1>9, <1>10, <1>11, <1>12, <1>13,
     <1>14, <1>15, <1>16, <1>17, <1>18, <1>19, <1>20, <1>21, <1>22, <1>23, <1>24, <1>25,
     <1>26, <1>27, <1>28, <1>29, <1>30, <1>31, <1>32, <1>33, NextSteps

\* The clients that write, when others move.
LEMMA SameWriters ==
    ASSUME \A c \in Clients : pc'[c] = "write" <=> pc[c] = "write"
    PROVE  Writers' = Writers
BY DEF Writers

\* The clients that write, when one begins to or ends.
LEMMA MovingWriter ==
    ASSUME Types, NEW c \in Clients, NEW l, pc' = [pc EXCEPT ![c] = l]
    PROVE  /\ pc[c] # "write" /\ l = "write"
                => c \notin Writers /\ Writers' = Writers \cup {c}
           /\ pc[c] = "write" /\ l # "write"
                => c \in Writers /\ Writers' = Writers \ {c}
<1>1. \A d \in Clients : pc'[d] = IF d = c THEN l ELSE pc[d]
  BY DEF Types, Actors
<1> QED
  BY <1>1 DEF Writers

(* How the power semaphore changes hands. *)
Exchange ==
    \/ Writers' = Writers /\ powerSemaphore' = powerSemaphore /\ (Kept' <=> Kept)
    \/ Writers' = Writers /\ powerSemaphore' = powerSemaphore - 1 /\ ~Kept /\ Kept'
    \/ Writers' = Writers /\ powerSemaphore' = powerSemaphore + 1 /\ Kept /\ ~Kept'
    \/ \E c \in Clients \ Writers :
           Writers' = Writers \cup {c} /\ powerSemaphore' = powerSemaphore - 1 /\ (Kept' <=> Kept)
    \/ \E c \in Writers :
           Writers' = Writers \ {c} /\ powerSemaphore' = powerSemaphore + 1 /\ (Kept' <=> Kept)

\* No step takes the semaphore without having it afterwards, nor the converse.
LEMMA ExchangeStep ==
    ASSUME Types, Callers, Mutex, Underway, Next
    PROVE  Exchange
<1> DEFINE Goal == Exchange
<1> USE ActorsDiffer, RequestKinds
    DEF Types, Callers, CallPCs, Mutex, Section, Underway, OwnerAt, locks, Goto
<1>1. ASSUME NEW a \in Actors, LockBusy(a) PROVE Goal
  BY <1>1 DEF LockBusy, Return, AfterCall, Exchange, Writers, Kept
<1>2. ASSUME NEW a \in Actors, LockUnchanged(a) PROVE Goal
  BY <1>2 DEF LockUnchanged, Return, AfterCall, Exchange, Writers, Kept
<1>3. ASSUME NEW a \in Actors, LockGlobal(a) PROVE Goal
  BY <1>3 DEF LockGlobal, Proceed, Exchange, Writers, Kept
<1>4. ASSUME NEW a \in Actors, LockLocal(a) PROVE Goal
  BY <1>4 DEF LockLocal, Proceed, Exchange, Writers, Kept
<1>5. ASSUME NEW a \in Actors, LockHeld(a) PROVE Goal
  <2>1. \A c \in Clients : pc'[c] = "write" <=> pc[c] = "write"
    BY <1>5 DEF LockHeld, Return, AfterCall, Actors
  <2>2. Kept' <=> Kept
    BY <1>5 DEF LockHeld, Return, AfterCall, Kept
  <2>3. powerSemaphore' = powerSemaphore
    BY <1>5 DEF LockHeld, Return, AfterCall
  <2> QED
    BY <2>1, <2>2, <2>3, SameWriters DEF Exchange
<1>6. ASSUME NEW a \in Actors, WaitGlobal(a) PROVE Goal
  BY <1>6 DEF WaitGlobal, Exchange, Writers, Kept
<1>7. ASSUME NEW a \in Actors, Relock(a) PROVE Goal
  <2>1. \A c \in Clients : pc'[c] = "write" <=> pc[c] = "write"
    BY <1>7 DEF Relock, Return, AfterCall, Proceed, Actors
  <2>2. Kept' <=> Kept
    BY <1>7 DEF Relock, Return, AfterCall, Proceed, Kept
  <2>3. powerSemaphore' = powerSemaphore
    BY <1>7 DEF Relock, Return, AfterCall, Proceed
  <2> QED
    BY <2>1, <2>2, <2>3, SameWriters DEF Exchange
<1>8. ASSUME NEW a \in Actors, BroadcastAborts(a) PROVE Goal
  BY <1>8 DEF BroadcastAborts, Return, AfterCall, Exchange, Writers, Kept
<1>9. ASSUME NEW a \in Actors, BroadcastTakes(a) PROVE Goal
  BY <1>9 DEF BroadcastTakes, BroadcastBlocked, QueryIdle, Exchange, Writers, Kept
<1>10. ASSUME NEW a \in Actors, GlobalTakes(a) PROVE Goal
  BY <1>10 DEF GlobalTakes, Exchange, Writers, Kept
<1>11. ASSUME NEW a \in Actors, StallSubmit(a) PROVE Goal
  BY <1>11 DEF StallSubmit, Exchange, Writers, Kept
<1>12. ASSUME NEW a \in Actors, Drain(a) PROVE Goal
  BY <1>12 DEF Drain, Exchange, Writers, Kept
<1>13. ASSUME NEW a \in Actors, PowerOff(a) PROVE Goal
  <2>1. Writers' = Writers
    BY <1>13 DEF PowerOff, Writers
  <2>2. Kept' <=> Kept
    BY <1>13 DEF PowerOff, Kept, ChipStates, ON, IDLE, SUSPEND, OFF
  <2>3. powerSemaphore' = powerSemaphore
    BY <1>13 DEF PowerOff
  <2> QED
    BY <2>1, <2>2, <2>3 DEF Exchange
<1>14. ASSUME NEW a \in Actors, PowerOnSuspended(a) PROVE Goal
  BY <1>14 DEF PowerOnSuspended, AfterPowerOn, Initialize, Exchange, Writers, Kept
<1>15. ASSUME NEW a \in Actors, PowerOn(a) PROVE Goal
  BY <1>15 DEF PowerOn, AfterPowerOn, Initialize, Exchange, Writers, Kept
<1>16. ASSUME NEW a \in Actors, SpeedUp(a) PROVE Goal
  BY <1>16 DEF SpeedUp, AfterPowerOn, Exchange, Writers, Kept
<1>17. ASSUME NEW a \in Actors, Release(a) PROVE Goal
  BY <1>17 DEF Release, Exchange, Writers, Kept
<1>18. ASSUME NEW a \in Actors, Save(a) PROVE Goal
  BY <1>18 DEF Save, Return, AfterCall, Exchange, Writers, Kept
<1>19. ASSUME NEW a \in Actors, PowerOnFails(a) PROVE Goal
  <2>1. Writers' = Writers
    BY <1>19 DEF PowerOnFails, Writers
  <2>2. Kept' <=> Kept
    BY <1>19 DEF PowerOnFails, Kept, ON, SUSPEND, OFF
  <2>3. powerSemaphore' = powerSemaphore
    BY <1>19 DEF PowerOnFails
  <2> QED
    BY <2>1, <2>2, <2>3 DEF Exchange
<1>20. ASSUME NEW c \in Clients, EnterCommit(c) PROVE Goal
  BY <1>20 DEF EnterCommit, Call, Exchange, Writers, Kept
<1>21. ASSUME NEW c \in Clients, AcquirePower(c) PROVE Goal
  <2>1. c \notin Writers /\ Writers' = Writers \cup {c}
    BY <1>21, MovingWriter DEF AcquirePower
  <2>2. Kept' <=> Kept
    BY <1>21 DEF AcquirePower, Kept
  <2>3. powerSemaphore' = powerSemaphore - 1
    BY <1>21 DEF AcquirePower
  <2> QED
    BY <2>1, <2>2, <2>3 DEF Exchange
<1>22. ASSUME NEW c \in Clients, WriteBuffer(c) PROVE Goal
  <2>1. c \in Writers /\ Writers' = Writers \ {c}
    <3>1. pc[c] = "write" /\ pc' = [pc EXCEPT ![c] = "leave"]
      BY <1>22 DEF WriteBuffer
    <3>2. \A d \in Clients : pc'[d] = IF d = c THEN "leave" ELSE pc[d]
      BY <3>1 DEF Actors
    <3> QED
      BY <1>22, <3>1, <3>2 DEF Writers
  <2>2. Kept' <=> Kept
    BY <1>22 DEF WriteBuffer, Kept
  <2>3. powerSemaphore' = powerSemaphore + 1
    BY <1>22 DEF WriteBuffer
  <2> QED
    BY <2>1, <2>2, <2>3 DEF Exchange
<1>23. ASSUME NEW c \in Clients, WriteEvent(c) PROVE Goal
  <2>1. c \in Writers /\ Writers' = Writers \ {c}
    <3>1. pc[c] = "write" /\ pc' = [pc EXCEPT ![c] = "leave_submit"]
      BY <1>23 DEF WriteEvent
    <3>2. \A d \in Clients : pc'[d] = IF d = c THEN "leave_submit" ELSE pc[d]
      BY <3>1 DEF Actors
    <3> QED
      BY <1>23, <3>1, <3>2 DEF Writers
  <2>2. Kept' <=> Kept
    BY <1>23 DEF WriteEvent, Kept
  <2>3. powerSemaphore' = powerSemaphore + 1
    BY <1>23 DEF WriteEvent
  <2> QED
    BY <2>1, <2>2, <2>3 DEF Exchange
<1>24. ASSUME NEW c \in Clients, LeaveCommit(c) PROVE Goal
  BY <1>24 DEF LeaveCommit, Exchange, Writers, Kept
<1>25. ASSUME NEW c \in Clients, LastDetach(c) PROVE Goal
  BY <1>25 DEF LastDetach, Call, Exchange, Writers, Kept
<1>26. ASSUME NEW a \in Actors, IsEmpty(a) PROVE Goal
  BY <1>26 DEF IsEmpty, Exchange, Writers, Kept
<1>27. ASSUME NEW a \in Actors, TryToIdle(a) PROVE Goal
  <2>1. \A c \in Clients : pc'[c] = "write" <=> pc[c] = "write"
    BY <1>27 DEF TryToIdle, Call, Actors
  <2>2. Kept' <=> Kept
    BY <1>27 DEF TryToIdle, Call, Kept
  <2>3. powerSemaphore' = powerSemaphore
    BY <1>27 DEF TryToIdle, Call
  <2> QED
    BY <2>1, <2>2, <2>3, SameWriters DEF Exchange
<1>28. CASE Notify
  BY <1>28 DEF Notify, Exchange, Writers, Kept
<1>29. CASE Interrupt
  BY <1>29 DEF Interrupt, Exchange, Writers, Kept
<1>30. CASE Finish
  BY <1>30 DEF Finish, Exchange, Writers, Kept
<1>31. CASE TimerFires
  <2>1. \A c \in Clients : pc'[c] = "write" <=> pc[c] = "write"
    BY <1>31 DEF TimerFires, Call, Actors
  <2>2. Kept' <=> Kept
    BY <1>31 DEF TimerFires, Call, Kept
  <2>3. powerSemaphore' = powerSemaphore
    BY <1>31 DEF TimerFires, Call
  <2> QED
    BY <2>1, <2>2, <2>3, SameWriters DEF Exchange
<1>32. CASE SetGlobal
  BY <1>32 DEF SetGlobal, Call, Exchange, Writers, Kept
<1>33. CASE Restore
  <2>1. \A c \in Clients : pc'[c] = "write" <=> pc[c] = "write"
    BY <1>33, RestoredAre DEF Restore, Call, Actors
  <2>2. Kept' <=> Kept
    BY <1>33, RestoredAre DEF Restore, Call, Kept
  <2>3. powerSemaphore' = powerSemaphore
    BY <1>33, RestoredAre DEF Restore, Call
  <2> QED
    BY <2>1, <2>2, <2>3, SameWriters DEF Exchange
<1> QED
  BY <1>1, <1>2, <1>3, <1>4, <1>5, <1>6, <1>7, <1>8, <1>9, <1>10, <1>11, <1>12, <1>13,
     <1>14, <1>15, <1>16, <1>17, <1>18, <1>19, <1>20, <1>21, <1>22, <1>23, <1>24, <1>25,
     <1>26, <1>27, <1>28, <1>29, <1>30, <1>31, <1>32, <1>33, NextSteps

\* So the accounting holds.
LEMMA AccountingStep ==
    ASSUME Types, Types', Mutex, Mutex', SemaphoreAccounting, Exchange
    PROVE  SemaphoreAccounting'
<1> DEFINE N == Cardinality(Writers)
<1> DEFINE M == Cardinality(Writers')
<1> DEFINE K == IF Kept THEN 1 ELSE 0
<1> DEFINE L == IF Kept' THEN 1 ELSE 0
<1>1. IsFiniteSet(Writers) /\ IsFiniteSet(Writers')
  BY ClientsAssumption, FS_Subset DEF Writers
<1>2. N \in Nat /\ M \in Nat
  BY <1>1, FS_CardinalityType
<1>3. ASSUME NEW c, c \notin Writers, Writers' = Writers \cup {c} PROVE M = N + 1
  BY <1>1, <1>3, FS_AddElement
<1>4. ASSUME NEW c, c \in Writers, Writers' = Writers \ {c} PROVE M = N - 1
  BY <1>1, <1>4, FS_RemoveElement
<1>5. Writers' = Writers => M = N
  OBVIOUS
<1>6. powerSemaphore + N + K = 1
  BY WithheldIsKept DEF SemaphoreAccounting, Writers
<1>7. powerSemaphore' + M + L = powerSemaphore + N + K
  <2> USE <1>2 DEF Types
  <2> HIDE DEF N, M
  <2>1. CASE /\ Writers' = Writers /\ powerSemaphore' = powerSemaphore
             /\ Kept' <=> Kept
    BY <2>1, <1>5
  <2>2. CASE /\ Writers' = Writers /\ powerSemaphore' = powerSemaphore - 1
             /\ ~Kept /\ Kept'
    BY <2>2, <1>5
  <2>3. CASE /\ Writers' = Writers /\ powerSemaphore' = powerSemaphore + 1
             /\ Kept /\ ~Kept'
    BY <2>3, <1>5
  <2>4. ASSUME NEW c \in Clients \ Writers, Writers' = Writers \cup {c},
               powerSemaphore' = powerSemaphore - 1, Kept' <=> Kept
        PROVE  powerSemaphore' + M + L = powerSemaphore + N + K
    <3>1. M = N + 1
      BY <2>4, <1>3
    <3> QED
      BY <2>4, <3>1
  <2>5. ASSUME NEW c \in Writers, Writers' = Writers \ {c},
               powerSemaphore' = powerSemaphore + 1, Kept' <=> Kept
        PROVE  powerSemaphore' + M + L = powerSemaphore + N + K
    <3>1. M = N - 1
      BY <2>5, <1>4
    <3> QED
      BY <2>5, <3>1
  <2> QED
    BY <2>1, <2>2, <2>3, <2>4, <2>5 DEF Exchange
<1>8. (Withheld <=> Kept)'
  BY WithheldIsKept, PTL
<1>9. Writers' = {c \in Clients : pc'[c] = "write"}
  BY DEF Writers
<1> QED
  BY <1>6, <1>7, <1>8, <1>9 DEF SemaphoreAccounting

\* The commits under way, when none begins or ends.
LEMMA SameCommits ==
    ASSUME \A c \in Clients : Committing(c)' <=> Committing(c)
    PROVE  Commits' = Commits
BY DEF Commits

(* How the commit atom follows the commits. *)
Atom ==
    \/ Commits' = Commits /\ atomCommit' = atomCommit
    \/ \E c \in Clients \ Commits :
           Commits' = Commits \cup {c} /\ atomCommit' = atomCommit + 1
    \/ \E c \in Commits :
           Commits' = Commits \ {c} /\ atomCommit' = atomCommit - 1

\* Each commit raises the atom once and lowers it once, also if it fails.
LEMMA AtomStep ==
    ASSUME Types, Callers, Mutex, Underway, Next
    PROVE  Atom
<1> DEFINE Goal == Atom
<1> USE ActorsDiffer, RequestKinds
    DEF Types, Callers, CallPCs, Mutex, Section, Underway, OwnerAt, Goto
<1>1. ASSUME NEW a \in Actors, LockBusy(a) PROVE Goal
  <2>1. \A c \in Clients : Committing(c)' <=> Committing(c)
    BY <1>1 DEF LockBusy, Return, AfterCall, Committing, Actors
  <2>2. atomCommit' = atomCommit
    BY <1>1 DEF LockBusy, Return, AfterCall
  <2> QED
    BY <2>1, <2>2, SameCommits DEF Atom
<1>2. ASSUME NEW a \in Actors, LockUnchanged(a) PROVE Goal
  <2>1. \A c \in Clients : Committing(c)' <=> Committing(c)
    BY <1>2 DEF LockUnchanged, Return, AfterCall, Committing, Actors
  <2>2. atomCommit' = atomCommit
    BY <1>2 DEF LockUnchanged, Return, AfterCall
  <2> QED
    BY <2>1, <2>2, SameCommits DEF Atom
<1>3. ASSUME NEW a \in Actors, LockGlobal(a) PROVE Goal
  <2>1. \A c \in Clients : Committing(c)' <=> Committing(c)
    BY <1>3 DEF LockGlobal, Proceed, Committing, Actors
  <2>2. atomCommit' = atomCommit
    BY <1>3 DEF LockGlobal, Proceed
  <2> QED
    BY <2>1, <2>2, SameCommits DEF Atom
<1>4. ASSUME NEW a \in Actors, LockLocal(a) PROVE Goal
  <2>1. \A c \in Clients : Committing(c)' <=> Committing(c)
    BY <1>4 DEF LockLocal, Proceed, Committing, Actors
  <2>2. atomCommit' = atomCommit
    BY <1>4 DEF LockLocal, Proceed
  <2> QED
    BY <2>1, <2>2, SameCommits DEF Atom
<1>5. ASSUME NEW a \in Actors, LockHeld(a) PROVE Goal
  <2>1. \A c \in Clients : Committing(c)' <=> Committing(c)
    BY <1>5 DEF LockHeld, Return, AfterCall, Committing, Actors
  <2>2. atomCommit' = atomCommit
    BY <1>5 DEF LockHeld, Return, AfterCall
  <2> QED
    BY <2>1, <2>2, SameCommits DEF Atom
<1>6. ASSUME NEW a \in Actors, WaitGlobal(a) PROVE Goal
  <2>1. \A c \in Clients : Committing(c)' <=> Committing(c)
    BY <1>6 DEF WaitGlobal, Committing, Actors
  <2>2. atomCommit' = atomCommit
    BY <1>6 DEF WaitGlobal
  <2> QED
    BY <2>1, <2>2, SameCommits DEF Atom
<1>7. ASSUME NEW a \in Actors, Relock(a) PROVE Goal
  <2>1. \A c \in Clients : Committing(c)' <=> Committing(c)
    BY <1>7 DEF Relock, Return, AfterCall, Proceed, Committing, Actors
  <2>2. atomCommit' = atomCommit
    BY <1>7 DEF Relock, Return, AfterCall, Proceed
  <2> QED
    BY <2>1, <2>2, SameCommits DEF Atom
<1>8. ASSUME NEW a \in Actors, BroadcastAborts(a) PROVE Goal
  <2>1. \A c \in Clients : Committing(c)' <=> Committing(c)
    BY <1>8 DEF BroadcastAborts, Return, AfterCall, Committing, Actors
  <2>2. atomCommit' = atomCommit
    BY <1>8 DEF BroadcastAborts, Return, AfterCall
  <2> QED
    BY <2>1, <2>2, SameCommits DEF Atom
<1>9. ASSUME NEW a \in Actors, BroadcastTakes(a) PROVE Goal
  <2>1. \A c \in Clients : Committing(c)' <=> Committing(c)
    BY <1>9 DEF BroadcastTakes, Committing, Actors
  <2>2. atomCommit' = atomCommit
    BY <1>9 DEF BroadcastTakes
  <2> QED
    BY <2>1, <2>2, SameCommits DEF Atom
<1>10. ASSUME NEW a \in Actors, GlobalTakes(a) PROVE Goal
  <2>1. \A c \in Clients : Committing(c)' <=> Committing(c)
    BY <1>10 DEF GlobalTakes, Committing, Actors
  <2>2. atomCommit' = atomCommit
    BY <1>10 DEF GlobalTakes
  <2> QED
    BY <2>1, <2>2, SameCommits DEF Atom
<1>11. ASSUME NEW a \in Actors, StallSubmit(a) PROVE Goal
  <2>1. \A c \in Clients : Committing(c)' <=> Committing(c)
    BY <1>11 DEF StallSubmit, Committing, Actors
  <2>2. atomCommit' = atomCommit
    BY <1>11 DEF StallSubmit
  <2> QED
    BY <2>1, <2>2, SameCommits DEF Atom
<1>12. ASSUME NEW a \in Actors, Drain(a) PROVE Goal
  <2>1. \A c \in Clients : Committing(c)' <=> Committing(c)
    BY <1>12 DEF Drain, Committing, Actors
  <2>2. atomCommit' = atomCommit
    BY <1>12 DEF Drain
  <2> QED
    BY <2>1, <2>2, SameCommits DEF Atom
<1>13. ASSUME NEW a \in Actors, PowerOff(a) PROVE Goal
  <2>1. \A c \in Clients : Committing(c)' <=> Committing(c)
    BY <1>13 DEF PowerOff, Committing, Actors
  <2>2. atomCommit' = atomCommit
    BY <1>13 DEF PowerOff
  <2> QED
    BY <2>1, <2>2, SameCommits DEF Atom
<1>14. ASSUME NEW a \in Actors, PowerOnSuspended(a) PROVE Goal
  <2>1. \A c \in Clients : Committing(c)' <=> Committing(c)
    BY <1>14 DEF PowerOnSuspended, AfterPowerOn, Initialize, Committing, Actors
  <2>2. atomCommit' = atomCommit
    BY <1>14 DEF PowerOnSuspended, AfterPowerOn, Initialize
  <2> QED
    BY <2>1, <2>2, SameCommits DEF Atom
<1>15. ASSUME NEW a \in Actors, PowerOn(a) PROVE Goal
  <2>1. \A c \in Clients : Committing(c)' <=> Committing(c)
    BY <1>15 DEF PowerOn, AfterPowerOn, Initialize, Committing, Actors
  <2>2. atomCommit' = atomCommit
    BY <1>15 DEF PowerOn, AfterPowerOn, Initialize
  <2> QED
    BY <2>1, <2>2, SameCommits DEF Atom
<1>16. ASSUME NEW a \in Actors, SpeedUp(a) PROVE Goal
  <2>1. \A c \in Clients : Committing(c)' <=> Committing(c)
    BY <1>16 DEF SpeedUp, AfterPowerOn, Committing, Actors
  <2>2. atomCommit' = atomCommit
    BY <1>16 DEF SpeedUp, AfterPowerOn
  <2> QED
    BY <2>1, <2>2, SameCommits DEF Atom
<1>17. ASSUME NEW a \in Actors, Release(a) PROVE Goal
  <2>1. \A c \in Clients : Committing(c)' <=> Committing(c)
    BY <1>17 DEF Release, Committing, Actors
  <2>2. atomCommit' = atomCommit
    BY <1>17 DEF Release
  <2> QED
    BY <2>1, <2>2, SameCommits DEF Atom
<1>18. ASSUME NEW a \in Actors, Save(a) PROVE Goal
  <2>1. \A c \in Clients : Committing(c)' <=> Committing(c)
    BY <1>18 DEF Save, Return, AfterCall, Committing, Actors
  <2>2. atomCommit' = atomCommit
    BY <1>18 DEF Save, Return, AfterCall
  <2> QED
    BY <2>1, <2>2, SameCommits DEF Atom
<1>19. ASSUME NEW a \in Actors, PowerOnFails(a) PROVE Goal
  <2>1. \A c \in Clients : Committing(c)' <=> Committing(c)
    BY <1>19 DEF PowerOnFails, Committing, Actors, ChipStates, ON, IDLE, SUSPEND, OFF
  <2>2. atomCommit' = atomCommit
    BY <1>19 DEF PowerOnFails
  <2> QED
    BY <2>1, <2>2, SameCommits DEF Atom
<1>20. ASSUME NEW c \in Clients, EnterCommit(c) PROVE Goal
  <2>1. /\ ~Committing(c) /\ Committing(c)'
        /\ \A d \in Clients \ {c} : Committing(d)' <=> Committing(d)
    BY <1>20 DEF EnterCommit, Call, Committing, Actors
  <2>2. c \notin Commits /\ Commits' = Commits \cup {c}
    BY <2>1 DEF Commits
  <2> QED
    BY <1>20, <2>2 DEF EnterCommit, Atom
<1>21. ASSUME NEW c \in Clients, AcquirePower(c) PROVE Goal
  <2>1. \A d \in Clients : Committing(d)' <=> Committing(d)
    BY <1>21 DEF AcquirePower, Committing, Actors
  <2>2. atomCommit' = atomCommit
    BY <1>21 DEF AcquirePower
  <2> QED
    BY <2>1, <2>2, SameCommits DEF Atom
<1>22. ASSUME NEW c \in Clients, WriteBuffer(c) PROVE Goal
  <2>1. \A d \in Clients : Committing(d)' <=> Committing(d)
    BY <1>22 DEF WriteBuffer, Committing, Actors
  <2>2. atomCommit' = atomCommit
    BY <1>22 DEF WriteBuffer
  <2> QED
    BY <2>1, <2>2, SameCommits DEF Atom
<1>23. ASSUME NEW c \in Clients, WriteEvent(c) PROVE Goal
  <2>1. \A d \in Clients : Committing(d)' <=> Committing(d)
    BY <1>23 DEF WriteEvent, Committing, Actors
  <2>2. atomCommit' = atomCommit
    BY <1>23 DEF WriteEvent
  <2> QED
    BY <2>1, <2>2, SameCommits DEF Atom
<1>24. ASSUME NEW c \in Clients, LeaveCommit(c) PROVE Goal
  <2>1. /\ Committing(c) /\ ~Committing(c)'
        /\ \A d \in Clients \ {c} : Committing(d)' <=> Committing(d)
    BY <1>24 DEF LeaveCommit, Committing, Actors
  <2>2. c \in Commits /\ Commits' = Commits \ {c}
    BY <2>1 DEF Commits
  <2> QED
    BY <1>24, <2>2 DEF LeaveCommit, Atom
<1>25. ASSUME NEW c \in Clients, LastDetach(c) PROVE Goal
  <2>1. \A d \in Clients : Committing(d)' <=> Committing(d)
    BY <1>25 DEF LastDetach, Call, Committing, Actors
  <2>2. atomCommit' = atomCommit
    BY <1>25 DEF LastDetach, Call
  <2> QED
    BY <2>1, <2>2, SameCommits DEF Atom
<1>26. ASSUME NEW a \in Actors, IsEmpty(a) PROVE Goal
  <2>1. \A c \in Clients : Committing(c)' <=> Committing(c)
    BY <1>26 DEF IsEmpty, Committing, Actors
  <2>2. atomCommit' = atomCommit
    BY <1>26 DEF IsEmpty
  <2> QED
    BY <2>1, <2>2, SameCommits DEF Atom
<1>27. ASSUME NEW a \in Actors, TryToIdle(a) PROVE Goal
  <2>1. \A c \in Clients : Committing(c)' <=> Committing(c)
    BY <1>27 DEF TryToIdle, Call, Committing, Actors
  <2>2. atomCommit' = atomCommit
    BY <1>27 DEF TryToIdle, Call
  <2> QED
    BY <2>1, <2>2, SameCommits DEF Atom
<1>28. CASE Notify
  <2>1. \A c \in Clients : Committing(c)' <=> Committing(c)
    BY <1>28 DEF Notify, Committing, Actors
  <2>2. atomCommit' = atomCommit
    BY <1>28 DEF Notify
  <2> QED
    BY <2>1, <2>2, SameCommits DEF Atom
<1>29. CASE Interrupt
  <2>1. \A c \in Clients : Committing(c)' <=> Committing(c)
    BY <1>29 DEF Interrupt, Committing, Actors
  <2>2. atomCommit' = atomCommit
    BY <1>29 DEF Interrupt
  <2> QED
    BY <2>1, <2>2, SameCommits DEF Atom
<1>30. CASE Finish
  <2>1. \A c \in Clients : Committing(c)' <=> Committing(c)
    BY <1>30 DEF Finish, Committing, Actors
  <2>2. atomCommit' = atomCommit
    BY <1>30 DEF Finish
  <2> QED
    BY <2>1, <2>2, SameCommits DEF Atom
<1>31. CASE TimerFires
  <2>1. \A c \in Clients : Committing(c)' <=> Committing(c)
    BY <1>31 DEF TimerFires, Call, Committing, Actors
  <2>2. atomCommit' = atomCommit
    BY <1>31 DEF TimerFires, Call
  <2> QED
    BY <2>1, <2>2, SameCommits DEF Atom
<1>32. CASE SetGlobal
  <2>1. \A c \in Clients : Committing(c)' <=> Committing(c)
    BY <1>32 DEF SetGlobal, Call, Committing, Actors
  <2>2. atomCommit' = atomCommit
    BY <1>32 DEF SetGlobal, Call
  <2> QED
    BY <2>1, <2>2, SameCommits DEF Atom
<1>33. CASE Restore
  <2>1. \A c \in Clients : Committing(c)' <=> Committing(c)
    BY <1>33, RestoredAre DEF Restore, Call, Committing, Actors
  <2>2. atomCommit' = atomCommit
    BY <1>33, RestoredAre DEF Restore, Call
  <2> QED
    BY <2>1, <2>2, SameCommits DEF Atom
<1> QED
  BY <1>1, <1>2, <1>3, <1>4, <1>5, <1>6, <1>7, <1>8, <1>9, <1>10, <1>11, <1>12, <1>13,
     <1>14, <1>15, <1>16, <1>17, <1>18, <1>19, <1>20, <1>21, <1>22, <1>23, <1>24, <1>25,
     <1>26, <1>27, <1>28, <1>29, <1>30, <1>31, <1>32, <1>33, NextSteps

\* So the atom counts the commits.
LEMMA AtomCountStep == ASSUME Atom, AtomCount PROVE AtomCount'
<1>1. IsFiniteSet(Commits)
  BY ClientsAssumption, FS_Subset DEF Commits
<1>2. ASSUME NEW c, c \notin Commits, Commits' = Commits \cup {c}
      PROVE  Cardinality(Commits') = Cardinality(Commits) + 1
  BY <1>1, <1>2, FS_AddElement
<1>3. ASSUME NEW c, c \in Commits, Commits' = Commits \ {c}
      PROVE  Cardinality(Commits') = Cardinality(Commits) - 1
  BY <1>1, <1>3, FS_RemoveElement
<1> QED
  BY <1>2, <1>3 DEF Atom, AtomCount

\* The waiters between the two locks, when none comes or goes.
LEMMA SameRelocking ==
    ASSUME \A a \in Actors : pc'[a] = "relock" <=> pc[a] = "relock"
    PROVE  Relocking' = Relocking
BY DEF Relocking

(* Who takes the global semaphore and who gives it back. *)
Hand ==
    \/ /\ Relocking' = Relocking /\ globalSemaphore' = globalSemaphore
       /\ globalAcquired' => globalAcquired
    \/ /\ Relocking' = Relocking /\ globalSemaphore' = globalSemaphore - 1
       /\ ~globalAcquired /\ globalAcquired'
    \/ /\ Relocking' = Relocking /\ globalSemaphore' = globalSemaphore + 1
       /\ globalAcquired /\ ~globalAcquired'
    \/ /\ \E a \in Actors \ Relocking : Relocking' = Relocking \cup {a}
       /\ globalSemaphore' = globalSemaphore - 1
       /\ globalAcquired' = globalAcquired
    \/ /\ \E a \in Relocking : Relocking' = Relocking \ {a}
       /\ globalSemaphore' = globalSemaphore + 1
       /\ globalAcquired' = globalAcquired
    \/ /\ Relocking' = Relocking /\ Relocking \subseteq Clients
       /\ globalSemaphore' = 1 /\ ~globalAcquired'

\* Only a global ON adds to the global semaphore, and only if it is taken.
LEMMA HandStep ==
    ASSUME Types, Callers, Mutex, Underway, Next
    PROVE  Hand
<1> DEFINE Goal == Hand
<1> USE ActorsDiffer, RequestKinds
    DEF Types, Callers, CallPCs, Mutex, Section, Underway, OwnerAt, locks, Goto
<1>1. ASSUME NEW a \in Actors, LockBusy(a) PROVE Goal
  <2>1. \A b \in Actors : pc'[b] = "relock" <=> pc[b] = "relock"
    BY <1>1 DEF LockBusy, Return, AfterCall, Actors
  <2>2. globalSemaphore' = globalSemaphore /\ globalAcquired' = globalAcquired
    BY <1>1 DEF LockBusy, Return, AfterCall
  <2> QED
    BY <2>1, <2>2, SameRelocking DEF Hand
<1>2. ASSUME NEW a \in Actors, LockUnchanged(a) PROVE Goal
  <2>1. \A b \in Actors : pc'[b] = "relock" <=> pc[b] = "relock"
    BY <1>2 DEF LockUnchanged, Return, AfterCall, Actors
  <2>2. globalSemaphore' = globalSemaphore /\ globalAcquired' = globalAcquired
    BY <1>2 DEF LockUnchanged, Return, AfterCall
  <2> QED
    BY <2>1, <2>2, SameRelocking DEF Hand
<1>3. ASSUME NEW a \in Actors, LockGlobal(a) PROVE Goal
  <2>1. \A b \in Actors : pc'[b] = "relock" <=> pc[b] = "relock"
    BY <1>3 DEF LockGlobal, Proceed, Actors
  <2>2. Relocking' = Relocking
    BY <2>1, SameRelocking
  <2>3. ~globalAcquired
    BY <1>3 DEF LockGlobal
  <2>4. CASE globalAcquired'
    BY <1>3, <2>2, <2>3, <2>4 DEF LockGlobal, Hand
  <2>5. CASE ~globalAcquired'
    BY <1>3, <2>2, <2>3, <2>5 DEF LockGlobal, Hand
  <2> QED
    BY <2>4, <2>5
<1>4. ASSUME NEW a \in Actors, LockLocal(a) PROVE Goal
  <2>1. \A b \in Actors : pc'[b] = "relock" <=> pc[b] = "relock"
    BY <1>4 DEF LockLocal, Proceed, Actors
  <2>2. globalSemaphore' = globalSemaphore /\ globalAcquired' = globalAcquired
    BY <1>4 DEF LockLocal, Proceed
  <2> QED
    BY <2>1, <2>2, SameRelocking DEF Hand
<1>5. ASSUME NEW a \in Actors, LockHeld(a) PROVE Goal
  <2>1. \A b \in Actors : pc'[b] = "relock" <=> pc[b] = "relock"
    BY <1>5 DEF LockHeld, Return, AfterCall, Actors
  <2>2. globalSemaphore' = globalSemaphore /\ globalAcquired' = globalAcquired
    BY <1>5 DEF LockHeld, Return, AfterCall
  <2> QED
    BY <2>1, <2>2, SameRelocking DEF Hand
<1>6. ASSUME NEW a \in Actors, WaitGlobal(a) PROVE Goal
  <2>1. /\ pc[a] # "relock" /\ pc'[a] = "relock"
        /\ \A b \in Actors \ {a} : pc'[b] = "relock" <=> pc[b] = "relock"
    BY <1>6 DEF WaitGlobal
  <2>2. a \notin Relocking /\ Relocking' = Relocking \cup {a}
    BY <2>1 DEF Relocking
  <2> QED
    BY <1>6, <2>2 DEF WaitGlobal, Hand
<1>7. ASSUME NEW a \in Actors, Relock(a) PROVE Goal
  <2>1. /\ pc[a] = "relock" /\ pc'[a] # "relock"
        /\ \A b \in Actors \ {a} : pc'[b] = "relock" <=> pc[b] = "relock"
    BY <1>7 DEF Relock, Return, AfterCall, Proceed
  <2>2. a \in Relocking /\ Relocking' = Relocking \ {a}
    BY <2>1 DEF Relocking
  <2> QED
    BY <1>7, <2>2 DEF Relock, Hand
<1>8. ASSUME NEW a \in Actors, BroadcastAborts(a) PROVE Goal
  <2>1. \A b \in Actors : pc'[b] = "relock" <=> pc[b] = "relock"
    BY <1>8 DEF BroadcastAborts, Return, AfterCall, Actors
  <2>2. globalSemaphore' = globalSemaphore /\ globalAcquired' = globalAcquired
    BY <1>8 DEF BroadcastAborts, Return, AfterCall
  <2> QED
    BY <2>1, <2>2, SameRelocking DEF Hand
<1>9. ASSUME NEW a \in Actors, BroadcastTakes(a) PROVE Goal
  <2>1. \A b \in Actors : pc'[b] = "relock" <=> pc[b] = "relock"
    BY <1>9 DEF BroadcastTakes, Actors
  <2>2. globalSemaphore' = globalSemaphore /\ globalAcquired' = globalAcquired
    BY <1>9 DEF BroadcastTakes
  <2> QED
    BY <2>1, <2>2, SameRelocking DEF Hand
<1>10. ASSUME NEW a \in Actors, GlobalTakes(a) PROVE Goal
  <2>1. \A b \in Actors : pc'[b] = "relock" <=> pc[b] = "relock"
    BY <1>10 DEF GlobalTakes, Actors
  <2>2. globalSemaphore' = globalSemaphore /\ globalAcquired' = globalAcquired
    BY <1>10 DEF GlobalTakes
  <2> QED
    BY <2>1, <2>2, SameRelocking DEF Hand
<1>11. ASSUME NEW a \in Actors, StallSubmit(a) PROVE Goal
  <2>1. \A b \in Actors : pc'[b] = "relock" <=> pc[b] = "relock"
    BY <1>11 DEF StallSubmit, Actors
  <2>2. globalSemaphore' = globalSemaphore /\ globalAcquired' = globalAcquired
    BY <1>11 DEF StallSubmit
  <2> QED
    BY <2>1, <2>2, SameRelocking DEF Hand
<1>12. ASSUME NEW a \in Actors, Drain(a) PROVE Goal
  <2>1. \A b \in Actors : pc'[b] = "relock" <=> pc[b] = "relock"
    BY <1>12 DEF Drain, Actors
  <2>2. globalSemaphore' = globalSemaphore /\ globalAcquired' = globalAcquired
    BY <1>12 DEF Drain
  <2> QED
    BY <2>1, <2>2, SameRelocking DEF Hand
<1>13. ASSUME NEW a \in Actors, PowerOff(a) PROVE Goal
  <2>1. \A b \in Actors : pc'[b] = "relock" <=> pc[b] = "relock"
    BY <1>13 DEF PowerOff, Actors
  <2>2. globalSemaphore' = globalSemaphore /\ globalAcquired' = globalAcquired
    BY <1>13 DEF PowerOff
  <2> QED
    BY <2>1, <2>2, SameRelocking DEF Hand
<1>14. ASSUME NEW a \in Actors, PowerOnSuspended(a) PROVE Goal
  <2>1. \A b \in Actors : pc'[b] = "relock" <=> pc[b] = "relock"
    BY <1>14 DEF PowerOnSuspended, AfterPowerOn, Initialize, Actors
  <2>2. globalSemaphore' = globalSemaphore /\ globalAcquired' = globalAcquired
    BY <1>14 DEF PowerOnSuspended, AfterPowerOn, Initialize
  <2> QED
    BY <2>1, <2>2, SameRelocking DEF Hand
<1>15. ASSUME NEW a \in Actors, PowerOn(a) PROVE Goal
  <2>1. \A b \in Actors : pc'[b] = "relock" <=> pc[b] = "relock"
    BY <1>15 DEF PowerOn, AfterPowerOn, Initialize, Actors
  <2>2. globalSemaphore' = globalSemaphore /\ globalAcquired' = globalAcquired
    BY <1>15 DEF PowerOn, AfterPowerOn, Initialize
  <2> QED
    BY <2>1, <2>2, SameRelocking DEF Hand
<1>16. ASSUME NEW a \in Actors, SpeedUp(a) PROVE Goal
  <2>1. \A b \in Actors : pc'[b] = "relock" <=> pc[b] = "relock"
    BY <1>16 DEF SpeedUp, AfterPowerOn, Actors
  <2>2. globalSemaphore' = globalSemaphore /\ globalAcquired' = globalAcquired
    BY <1>16 DEF SpeedUp, AfterPowerOn
  <2> QED
    BY <2>1, <2>2, SameRelocking DEF Hand
<1>17. ASSUME NEW a \in Actors, Release(a) PROVE Goal
  <2>1. \A b \in Actors : pc'[b] = "relock" <=> pc[b] = "relock"
    BY <1>17 DEF Release, Actors
  <2>2. Relocking' = Relocking
    BY <2>1, SameRelocking
  <2>3. ~globalAcquired /\ globalAcquired' = globalAcquired
    BY <1>17 DEF Release
  <2>4. CASE request[a].how = "global" /\ globalSemaphore = 0
    <3>1. Relocking \subseteq Clients
      BY <1>17, <2>4 DEF Release, Relocking
    <3> QED
      BY <1>17, <2>2, <2>3, <2>4, <3>1 DEF Release, Hand
  <2>5. CASE ~(request[a].how = "global" /\ globalSemaphore = 0)
    BY <1>17, <2>2, <2>3, <2>5 DEF Release, Hand
  <2> QED
    BY <2>4, <2>5
<1>18. ASSUME NEW a \in Actors, Save(a) PROVE Goal
  <2>1. \A b \in Actors : pc'[b] = "relock" <=> pc[b] = "relock"
    BY <1>18 DEF Save, Return, AfterCall, Actors
  <2>2. globalSemaphore' = globalSemaphore /\ globalAcquired' = FALSE
    BY <1>18 DEF Save, Return, AfterCall
  <2> QED
    BY <2>1, <2>2, SameRelocking DEF Hand
<1>19. ASSUME NEW a \in Actors, PowerOnFails(a) PROVE Goal
  <2>1. \A b \in Actors : pc'[b] = "relock" <=> pc[b] = "relock"
    BY <1>19 DEF PowerOnFails, Actors
  <2>2. Relocking' = Relocking
    BY <2>1, SameRelocking
  <2>3. CASE globalAcquired
    BY <1>19, <2>2, <2>3 DEF PowerOnFails, Hand
  <2>4. CASE ~globalAcquired
    BY <1>19, <2>2, <2>4 DEF PowerOnFails, Hand
  <2> QED
    BY <2>3, <2>4
<1>20. ASSUME NEW c \in Clients, EnterCommit(c) PROVE Goal
  <2>1. \A b \in Actors : pc'[b] = "relock" <=> pc[b] = "relock"
    BY <1>20 DEF EnterCommit, Call, Actors
  <2>2. globalSemaphore' = globalSemaphore /\ globalAcquired' = globalAcquired
    BY <1>20 DEF EnterCommit, Call
  <2> QED
    BY <2>1, <2>2, SameRelocking DEF Hand
<1>21. ASSUME NEW c \in Clients, AcquirePower(c) PROVE Goal
  <2>1. \A b \in Actors : pc'[b] = "relock" <=> pc[b] = "relock"
    BY <1>21 DEF AcquirePower, Actors
  <2>2. globalSemaphore' = globalSemaphore /\ globalAcquired' = globalAcquired
    BY <1>21 DEF AcquirePower
  <2> QED
    BY <2>1, <2>2, SameRelocking DEF Hand
<1>22. ASSUME NEW c \in Clients, WriteBuffer(c) PROVE Goal
  <2>1. \A b \in Actors : pc'[b] = "relock" <=> pc[b] = "relock"
    BY <1>22 DEF WriteBuffer, Actors
  <2>2. globalSemaphore' = globalSemaphore /\ globalAcquired' = globalAcquired
    BY <1>22 DEF WriteBuffer
  <2> QED
    BY <2>1, <2>2, SameRelocking DEF Hand
<1>23. ASSUME NEW c \in Clients, WriteEvent(c) PROVE Goal
  <2>1. \A b \in Actors : pc'[b] = "relock" <=> pc[b] = "relock"
    BY <1>23 DEF WriteEvent, Actors
  <2>2. globalSemaphore' = globalSemaphore /\ globalAcquired' = globalAcquired
    BY <1>23 DEF WriteEvent
  <2> QED
    BY <2>1, <2>2, SameRelocking DEF Hand
<1>24. ASSUME NEW c \in Clients, LeaveCommit(c) PROVE Goal
  <2>1. \A b \in Actors : pc'[b] = "relock" <=> pc[b] = "relock"
    BY <1>24 DEF LeaveCommit, Actors
  <2>2. globalSemaphore' = globalSemaphore /\ globalAcquired' = globalAcquired
    BY <1>24 DEF LeaveCommit
  <2> QED
    BY <2>1, <2>2, SameRelocking DEF Hand
<1>25. ASSUME NEW c \in Clients, LastDetach(c) PROVE Goal
  <2>1. \A b \in Actors : pc'[b] = "relock" <=> pc[b] = "relock"
    BY <1>25 DEF LastDetach, Call, Actors
  <2>2. globalSemaphore' = globalSemaphore /\ globalAcquired' = globalAcquired
    BY <1>25 DEF LastDetach, Call
  <2> QED
    BY <2>1, <2>2, SameRelocking DEF Hand
<1>26. ASSUME NEW a \in Actors, IsEmpty(a) PROVE Goal
  <2>1. \A b \in Actors : pc'[b] = "relock" <=> pc[b] = "relock"
    BY <1>26 DEF IsEmpty, Actors
  <2>2. globalSemaphore' = globalSemaphore /\ globalAcquired' = globalAcquired
    BY <1>26 DEF IsEmpty
  <2> QED
    BY <2>1, <2>2, SameRelocking DEF Hand
<1>27. ASSUME NEW a \in Actors, TryToIdle(a) PROVE Goal
  <2>1. \A b \in Actors : pc'[b] = "relock" <=> pc[b] = "relock"
    BY <1>27 DEF TryToIdle, Call, Actors
  <2>2. globalSemaphore' = globalSemaphore /\ globalAcquired' = globalAcquired
    BY <1>27 DEF TryToIdle, Call
  <2> QED
    BY <2>1, <2>2, SameRelocking DEF Hand
<1>28. CASE Notify
  <2>1. \A b \in Actors : pc'[b] = "relock" <=> pc[b] = "relock"
    BY <1>28 DEF Notify, Actors
  <2>2. globalSemaphore' = globalSemaphore /\ globalAcquired' = globalAcquired
    BY <1>28 DEF Notify
  <2> QED
    BY <2>1, <2>2, SameRelocking DEF Hand
<1>29. CASE Interrupt
  <2>1. \A b \in Actors : pc'[b] = "relock" <=> pc[b] = "relock"
    BY <1>29 DEF Interrupt, Actors
  <2>2. globalSemaphore' = globalSemaphore /\ globalAcquired' = globalAcquired
    BY <1>29 DEF Interrupt
  <2> QED
    BY <2>1, <2>2, SameRelocking DEF Hand
<1>30. CASE Finish
  <2>1. \A b \in Actors : pc'[b] = "relock" <=> pc[b] = "relock"
    BY <1>30 DEF Finish, Actors
  <2>2. globalSemaphore' = globalSemaphore /\ globalAcquired' = globalAcquired
    BY <1>30 DEF Finish
  <2> QED
    BY <2>1, <2>2, SameRelocking DEF Hand
<1>31. CASE TimerFires
  <2>1. \A b \in Actors : pc'[b] = "relock" <=> pc[b] = "relock"
    BY <1>31 DEF TimerFires, Call, Actors
  <2>2. globalSemaphore' = globalSemaphore /\ globalAcquired' = globalAcquired
    BY <1>31 DEF TimerFires, Call
  <2> QED
    BY <2>1, <2>2, SameRelocking DEF Hand
<1>32. CASE SetGlobal
  <2>1. \A b \in Actors : pc'[b] = "relock" <=> pc[b] = "relock"
    BY <1>32 DEF SetGlobal, Call, Actors
  <2>2. globalSemaphore' = globalSemaphore /\ globalAcquired' = globalAcquired
    BY <1>32 DEF SetGlobal, Call
  <2> QED
    BY <2>1, <2>2, SameRelocking DEF Hand
<1>33. CASE Restore
  <2>1. \A b \in Actors : pc'[b] = "relock" <=> pc[b] = "relock"
    BY <1>33, RestoredAre DEF Restore, Call, Actors
  <2>2. globalSemaphore' = globalSemaphore /\ globalAcquired' = globalAcquired
    BY <1>33, RestoredAre DEF Restore, Call
  <2> QED
    BY <2>1, <2>2, SameRelocking DEF Hand
<1> QED
  BY <1>1, <1>2, <1>3, <1>4, <1>5, <1>6, <1>7, <1>8, <1>9, <1>10, <1>11, <1>12, <1>13,
     <1>14, <1>15, <1>16, <1>17, <1>18, <1>19, <1>20, <1>21, <1>22, <1>23, <1>24, <1>25,
     <1>26, <1>27, <1>28, <1>29, <1>30, <1>31, <1>32, <1>33, NextSteps

\* There are finitely many actors.
LEMMA RelockingFinite == IsFiniteSet(Relocking)
<1>1. IsFiniteSet(Actors)
  <2>1. IsFiniteSet(Clients \cup {IrqThread})
    BY ClientsAssumption, FS_AddElement
  <2>2. IsFiniteSet((Clients \cup {IrqThread}) \cup {Timer})
    BY <2>1, FS_AddElement
  <2>3. IsFiniteSet(((Clients \cup {IrqThread}) \cup {Timer}) \cup {System})
    BY <2>2, FS_AddElement
  <2>4. Actors = ((Clients \cup {IrqThread}) \cup {Timer}) \cup {System}
    BY DEF Actors
  <2> QED
    BY <2>3, <2>4
<1> QED
  BY <1>1, FS_Subset DEF Relocking

\* So the global semaphore stays bounded.
LEMMA GlobalCountStep == ASSUME Types, Hand, GlobalCount PROVE GlobalCount'
<1> DEFINE N == Cardinality(Relocking)
<1> DEFINE M == Cardinality(Relocking')
<1>2. IsFiniteSet(Relocking)
  BY RelockingFinite
<1>3. N \in Nat /\ Cardinality(Clients) \in Nat
  BY <1>2, ClientsAssumption, FS_CardinalityType
<1>4. ASSUME NEW a, a \notin Relocking, Relocking' = Relocking \cup {a} PROVE M = N + 1
  BY <1>2, <1>4, FS_AddElement
<1>5. ASSUME NEW a, a \in Relocking, Relocking' = Relocking \ {a} PROVE M = N - 1
  BY <1>2, <1>5, FS_RemoveElement
<1>6. Relocking \subseteq Clients => N <= Cardinality(Clients)
  BY ClientsAssumption, FS_Subset
<1>7. Relocking' = Relocking => M = N
  OBVIOUS
<1>8. globalSemaphore + N + (IF globalAcquired THEN 1 ELSE 0) <= 1 + Cardinality(Clients)
  BY DEF GlobalCount
<1>9. globalSemaphore' + M + (IF globalAcquired' THEN 1 ELSE 0) <= 1 + Cardinality(Clients)
  <2> USE <1>3, <1>8 DEF Types
  <2> HIDE DEF N, M
  <2>1. CASE /\ Relocking' = Relocking /\ globalSemaphore' = globalSemaphore
             /\ globalAcquired' => globalAcquired
    BY <2>1, <1>7
  <2>2. CASE /\ Relocking' = Relocking /\ globalSemaphore' = globalSemaphore - 1
             /\ ~globalAcquired /\ globalAcquired'
    BY <2>2, <1>7
  <2>3. CASE /\ Relocking' = Relocking /\ globalSemaphore' = globalSemaphore + 1
             /\ globalAcquired /\ ~globalAcquired'
    BY <2>3, <1>7
  <2>4. ASSUME NEW a \in Actors \ Relocking, Relocking' = Relocking \cup {a},
               globalSemaphore' = globalSemaphore - 1, globalAcquired' = globalAcquired
        PROVE  globalSemaphore' + M + (IF globalAcquired' THEN 1 ELSE 0)
                   <= 1 + Cardinality(Clients)
    <3>1. M = N + 1
      BY <2>4, <1>4
    <3> QED
      BY <2>4, <3>1
  <2>5. ASSUME NEW a \in Relocking, Relocking' = Relocking \ {a},
               globalSemaphore' = globalSemaphore + 1, globalAcquired' = globalAcquired
        PROVE  globalSemaphore' + M + (IF globalAcquired' THEN 1 ELSE 0)
                   <= 1 + Cardinality(Clients)
    <3>1. M = N - 1
      BY <2>5, <1>5
    <3> QED
      BY <2>5, <3>1
  <2>6. CASE /\ Relocking' = Relocking /\ Relocking \subseteq Clients
             /\ globalSemaphore' = 1 /\ ~globalAcquired'
    BY <2>6, <1>6, <1>7
  <2> QED
    BY <2>1, <2>2, <2>3, <2>4, <2>5, <2>6 DEF Hand
<1> QED
  BY <1>9 DEF GlobalCount

-----------------------------------------------------------------------------
(* The theorems. *)

\* Everything is free when the hardware object has been constructed.
LEMMA InitIInv == Init => IInv
<1> SUFFICES ASSUME Init PROVE IInv
  OBVIOUS
<1> USE ActorsDiffer
<1>1. Types
  <2>1. pc \in [Actors -> Places] /\ request \in [Actors -> Requests \cup {Null}]
    BY PlacesAre DEF Init
  <2>2. interruptCount + pending <= MaxEvents
    BY MaxEventsAssumption DEF Init
  <2>3. /\ clock \in BOOLEAN /\ power \in BOOLEAN /\ running \in BOOLEAN
        /\ currContext \in BOOLEAN /\ loaded \in BOOLEAN /\ busy \in BOOLEAN
        /\ globalAcquired \in BOOLEAN /\ timerArmed \in BOOLEAN
    BY DEF Init
  <2>4. chipPowerState \in ChipStates /\ powerMutex \in Actors \cup {Null}
    BY DEF Init, ChipStates
  <2>5. nextPowerState \in {OffTimeout, Null}
    BY DEF Init
  <2>6. /\ powerSemaphore \in Nat /\ globalSemaphore \in Nat /\ atomCommit \in Int
        /\ interruptCount \in Nat /\ pending \in Nat
    BY DEF Init
  <2> QED
    BY <2>1, <2>2, <2>3, <2>4, <2>5, <2>6 DEF Types
<1>2. Callers /\ Mutex /\ Underway
  BY DEF Init, Callers, CallPCs, Mutex, Section, Underway, OwnerAt
<1>3. HardwareState /\ Quiet
  BY DEF Init, HardwareState, Applied, Quiet, OwnerAt, ON, IDLE, SUSPEND, OFF
<1>4. Writers = {} /\ Commits = {} /\ Relocking = {}
  BY DEF Init, Writers, Commits, Relocking, Committing, CallPCs, Actors
<1>5. ~Withheld
  BY DEF Init, Withheld
<1>6. SemaphoreAccounting
  BY <1>4, <1>5, FS_EmptySet DEF Init, SemaphoreAccounting, Writers
<1>7. AtomCount
  BY <1>4, FS_EmptySet DEF Init, AtomCount
<1>8. GlobalCount
  BY <1>4, FS_EmptySet, ClientsAssumption, FS_CardinalityType DEF Init, GlobalCount
<1> QED
  BY <1>1, <1>2, <1>3, <1>6, <1>7, <1>8 DEF IInv

\* A step that changes nothing.
LEMMA StutterIInv == IInv /\ UNCHANGED vars => IInv'
<1> SUFFICES ASSUME IInv, UNCHANGED vars PROVE IInv'
  OBVIOUS
<1>1. /\ UNCHANGED <<chipPowerState, clock, power, currContext, loaded, running>>
      /\ UNCHANGED <<powerMutex, powerSemaphore, globalSemaphore, globalAcquired>>
      /\ UNCHANGED <<nextPowerState, timerArmed, atomCommit, busy, interruptCount>>
      /\ UNCHANGED <<pending, pc, request>>
  BY DEF vars, hardware, locks, delayed, work
<1>2. (Types /\ Callers /\ Mutex /\ Underway)'
  BY <1>1 DEF IInv, Types, Callers, Mutex, Underway, OwnerAt
<1>3. (HardwareState /\ Quiet)'
  BY <1>1 DEF IInv, HardwareState, Quiet, Applied, Kept, OwnerAt
<1>4. (SemaphoreAccounting /\ AtomCount /\ GlobalCount)'
  BY <1>1 DEF IInv, SemaphoreAccounting, Withheld, AtomCount, Commits, Committing,
              GlobalCount, Relocking
<1> QED
  BY <1>2, <1>3, <1>4 DEF IInv

\* The invariant is inductive.
LEMMA NextIInv == IInv /\ Next => IInv'
<1> SUFFICES ASSUME IInv, Next PROVE IInv'
  OBVIOUS
<1> USE DEF IInv
<1>1. Types' /\ Callers' /\ Mutex' /\ Underway'
  BY TypesStep, CallersStep, MutexStep, UnderwayStep
<1>2. HardwareState' /\ Quiet'
  BY HardwareStep, QuietStep
<1>3. SemaphoreAccounting'
  BY <1>1, ExchangeStep, AccountingStep
<1>4. AtomCount' /\ GlobalCount'
  BY AtomStep, AtomCountStep, HandStep, GlobalCountStep
<1> QED
  BY <1>1, <1>2, <1>3, <1>4

\* IInv holds in every reachable state.
LEMMA Invariance == Spec => []IInv
<1>1. Init => IInv
  BY InitIInv
<1>2. IInv /\ [Next]_vars => IInv'
  BY NextIInv, StutterIInv
<1> QED
  BY <1>1, <1>2, PTL DEF Spec

\* The variables keep their types; above all the power semaphore is never
\* released twice, and neither the commit atom nor the global semaphore runs away
\* from what the callers of power management have done to it.
THEOREM TypeCorrect == Spec => []TypeOK
<1>1. IInv => TypeOK
  <2> SUFFICES ASSUME IInv PROVE TypeOK
    OBVIOUS
  <2> DEFINE N == Cardinality(Clients)
  <2>1. IsFiniteSet(Writers) /\ IsFiniteSet(Commits) /\ Cardinality(Commits) <= N
    BY ClientsAssumption, FS_Subset DEF Writers, Commits
  <2>2. Cardinality(Writers) \in Nat /\ Cardinality(Commits) \in Nat /\ N \in Nat
    BY <2>1, ClientsAssumption, FS_CardinalityType
  <2>3. powerSemaphore \in 0 .. 1
    BY <2>2 DEF IInv, Types, SemaphoreAccounting, Writers
  <2>4. atomCommit \in 0 .. N
    BY <2>1, <2>2 DEF IInv, AtomCount
  <2>5. Cardinality(Relocking) \in Nat
    BY RelockingFinite, FS_CardinalityType
  <2>6. globalSemaphore \in 0 .. 1 + N
    BY <2>2, <2>5 DEF IInv, Types, GlobalCount
  <2>7. interruptCount \in 0 .. MaxEvents /\ pending \in 0 .. MaxEvents
    BY MaxEventsAssumption DEF IInv, Types
  <2> QED
    BY <2>3, <2>4, <2>6, <2>7 DEF TypeOK, IInv, Types, Places
<1> QED
  BY <1>1, Invariance, PTL

\* Commits and power changes exclude each other, whoever calls and however
\* calls fail or give up: the power semaphore is free, or with one commit, or with
\* the power management.
THEOREM SemaphoreAccounted == Spec => []SemaphoreAccounting
<1>1. IInv => SemaphoreAccounting
  BY DEF IInv
<1> QED
  BY <1>1, Invariance, PTL

\* No commit writes to a queue that is not executed, and no GPU loses its clock
\* with work to do.
THEOREM AlwaysPowered == Spec => []PoweredWhileBusy
<1>1. IInv => PoweredWhileBusy
  <2> SUFFICES ASSUME IInv PROVE PoweredWhileBusy
    OBVIOUS
  <2> USE DEF IInv
  <2>1. ~clock => ~busy /\ interruptCount = 0
    BY ActorsDiffer, RequestKinds
       DEF Types, Callers, CallPCs, Mutex, Section, Underway, HardwareState, Applied, Quiet,
           Kept, OwnerAt, ChipStates, ON, IDLE, SUSPEND, OFF
  <2>2. ASSUME NEW c \in Clients, pc[c] = "write" PROVE clock /\ power /\ running
    <3>1. ~Kept
      BY <2>2, WriterHasSemaphore
    <3> QED
      BY <3>1, ActorsDiffer
         DEF Types, Mutex, Section, Underway, HardwareState, Applied, Kept, OwnerAt,
             ON, IDLE
  <2> QED
    BY <2>1, <2>2 DEF PoweredWhileBusy
<1> QED
  BY <1>1, Invariance, PTL

\* A context that the queue takes as loaded is loaded while the GPU runs, across
\* every way of losing and regaining power.
THEOREM ContextIsCurrent == Spec => []ContextCurrent
<1>1. IInv => ContextCurrent
  <2> SUFFICES ASSUME IInv, running, currContext PROVE loaded
    BY DEF ContextCurrent
  <2>1. Applied \in ChipStates
    BY ActorsDiffer, RequestKinds
       DEF IInv, Types, Callers, CallPCs, Mutex, Section, Applied, OwnerAt
  <2> QED
    BY <2>1 DEF IInv, HardwareState, ChipStates, ON, IDLE, SUSPEND, OFF
<1> QED
  BY <1>1, Invariance, PTL

\* The delayed power-off never takes the GPU out of ON: a request that does is
\* cancelled by whatever turns the GPU on.
THEOREM DelayedOffSparesOn == Spec => DelayedSparesOn
<1>1. IInv /\ [Next]_vars
        => (chipPowerState = ON /\ chipPowerState' # ON
              => \A a \in Actors : pc[a] = "save" => request[a] # OffTimeout)
  <2> SUFFICES ASSUME IInv, chipPowerState = ON, NEW a \in Actors, pc[a] = "save"
               PROVE  request[a] # OffTimeout
    OBVIOUS
  <2> QED
    BY RequestKinds, ActorsDiffer
       DEF IInv, Types, Callers, CallPCs, Mutex, Section, Underway
<1> QED
  BY <1>1, Invariance, PTL DEF Spec, DelayedSparesOn

=============================================================================
