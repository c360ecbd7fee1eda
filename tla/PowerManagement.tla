-------------------------- MODULE PowerManagement --------------------------
(***************************************************************************)
(* Power management of the GPU (gckHARDWARE_SetPowerManagementState and    *)
(* its _Pm helpers, gcdPOWER_MANAGEMENT_REFINEMENT), with everybody who    *)
(* calls it or is held back by it:                                         *)
(*                                                                         *)
(*   - a client that commits: EnterCommit raises atomCommit, asks for      *)
(*     ON_AUTO, takes the powerSemaphore; ExitCommit gives it back and     *)
(*     lowers the atom; a Submit of events then tries to idle the GPU;     *)
(*   - the interrupt thread, which notifies events and tries to idle;      *)
(*   - the delayed work that turns IDLE or SUSPEND into OFF;               *)
(*   - the system: suspend, resume, and the ioctl that sets a state;       *)
(*   - the last client that detaches, which broadcasts OFF.                *)
(*                                                                         *)
(* A call of SetPowerManagementState is cut into steps where another       *)
(* thread can see the difference: taking the mutex and deciding, waiting   *)
(* for the global semaphore, waiting for the power semaphore, stalling,    *)
(* changing the clock, releasing the semaphores, saving the state.  The    *)
(* queue itself is CommandQueue, the events are EventManager; here the     *)
(* GPU is busy or not and has events that it has not raised.               *)
(***************************************************************************)
EXTENDS Integers, FiniteSets

CONSTANTS Clients,      \* threads that commit
          IrqThread,    \* the interrupt thread (threadRoutine)
          Timer,        \* the work item of powerStateTimer
          System,       \* gpu_suspend, gpu_resume and the ioctl
          Null,         \* no owner, no request
          MaxEvents     \* bound: hardware events in use at once

Actors == Clients \cup {IrqThread, Timer, System}

ASSUME ClientsAssumption == IsFiniteSet(Clients)

ASSUME ActorsAssumption ==
    /\ {IrqThread, Timer, System, Null} \cap Clients = {}
    /\ Cardinality({IrqThread, Timer, System, Null}) = 4

ASSUME MaxEventsAssumption == MaxEvents \in Nat \ {0}

(* gceCHIPPOWERSTATE: the code compares the states as numbers. *)
ON      == 0
IDLE    == 1
SUSPEND == 2
OFF     == 3
ChipStates == {ON, IDLE, SUSPEND, OFF}

Request(to, how) == [to |-> to, how |-> how]

Global == {Request(s, "global") : s \in ChipStates}
OnAuto == Request(ON, "auto")
Broadcast == {Request(s, "broadcast") : s \in {SUSPEND, OFF}}
OffTimeout == Request(OFF, "timeout")
Requests == Global \cup {OnAuto} \cup Broadcast \cup {OffTimeout}

VARIABLES chipPowerState,   \* the saved state
          clock, power,     \* clockState and powerState
          powerMutex,       \* its owner
          powerSemaphore,   \* commits against power changes
          globalSemaphore,  \* taken by a global state other than ON
          globalAcquired,   \* the running call has taken globalSemaphore
          atomCommit,       \* commits in progress
          nextPowerState,   \* what the delayed work asks for, or Null
          timerArmed,       \* the delayed work is queued
          currContext,      \* the queue takes a context as loaded
          loaded,           \* the GPU does hold that context
          running,          \* the FE runs (Start and Stop of the queue)
          busy,             \* the GPU works or the FE is off WAIT/LINK
          interruptCount,   \* events submitted that have not interrupted
          pending,          \* events that interrupted, not yet notified
          pc,               \* where each actor is
          request           \* what its call asks for, or Null

hardware == <<clock, power, currContext, loaded, running>>
locks    == <<powerMutex, powerSemaphore, globalSemaphore, globalAcquired>>
delayed  == <<nextPowerState, timerArmed>>
work     == <<busy, interruptCount, pending>>
vars == <<chipPowerState, hardware, locks, delayed, atomCommit, work, pc,
          request>>

(* Where an actor rests, where a client is outside of a call, and the      *)
(* steps of a call.                                                        *)
RestPCs == {"out", "restore", "global_hold", "failed"}
CommitPCs == {"acquire", "write", "leave", "leave_submit", "empty",
              "query"}
CallPCs == {"lock", "wait_global", "relock", "semaphore", "stall", "drain",
            "change", "release", "save"}

TypeOK ==
    /\ chipPowerState \in ChipStates
    /\ {clock, power, globalAcquired, timerArmed, currContext, loaded,
        running, busy} \subseteq BOOLEAN
    /\ powerMutex \in Actors \cup {Null}
    /\ powerSemaphore \in 0 .. 1
    /\ globalSemaphore \in 0 .. 1 + Cardinality(Clients)
    /\ atomCommit \in 0 .. Cardinality(Clients)
    /\ nextPowerState \in {OffTimeout, Null}
    /\ interruptCount \in 0 .. MaxEvents
    /\ pending \in 0 .. MaxEvents
    /\ pc \in [Actors -> RestPCs \cup CommitPCs \cup CallPCs]
    /\ request \in [Actors -> Requests \cup {Null}]

(* The GPU is on when the queue has been constructed. *)
Init ==
    /\ chipPowerState = ON
    /\ clock = TRUE /\ power = TRUE /\ running = TRUE
    /\ currContext = FALSE /\ loaded = FALSE
    /\ powerMutex = Null /\ powerSemaphore = 1
    /\ globalSemaphore = 1 /\ globalAcquired = FALSE
    /\ atomCommit = 0
    /\ nextPowerState = Null /\ timerArmed = FALSE
    /\ busy = FALSE /\ interruptCount = 0 /\ pending = 0
    /\ pc = [a \in Actors |-> "out"]
    /\ request = [a \in Actors |-> Null]

-----------------------------------------------------------------------------
(* Calling and returning. *)

Goto(a, l) == pc' = [pc EXCEPT ![a] = l]

Call(a, r) ==
    /\ Goto(a, "lock")
    /\ request' = [request EXCEPT ![a] = r]

(* What an actor does next when its call has succeeded ("not ready", the   *)
(* abort of a broadcast, counts as success).                               *)
AfterCall(a) ==
    IF request[a] = OnAuto /\ a \in Clients THEN "acquire"
    ELSE IF request[a] = Request(ON, "global") THEN "restore"
    ELSE IF request[a] \in Global THEN "global_hold"
    ELSE "out"

Return(a) ==
    /\ Goto(a, AfterCall(a))
    /\ request' = [request EXCEPT ![a] = Null]

(* gckHARDWARE_QueryIdle. *)
QueryIdle == chipPowerState # ON \/ (~busy /\ interruptCount = 0)

-----------------------------------------------------------------------------
(* gckHARDWARE_SetPowerManagementState. *)

(* A broadcast only tries the power mutex. *)
LockBusy(a) ==
    /\ pc[a] = "lock"
    /\ request[a].how \in {"broadcast", "timeout"}
    /\ powerMutex # Null
    /\ Return(a)
    /\ UNCHANGED <<chipPowerState, hardware, locks, delayed, atomCommit, work>>

(* The early returns taken under the mutex: no change, SUSPEND broadcast   *)
(* when the GPU is OFF already, a delayed change that was cancelled.       *)
NothingToDo(a) ==
    LET r == request[a] IN
    \/ chipPowerState = r.to
    \/ r.how = "broadcast" /\ r.to = SUSPEND /\ chipPowerState = OFF
    \/ r.how = "timeout" /\ nextPowerState = Null

LockUnchanged(a) ==
    /\ pc[a] = "lock"
    /\ powerMutex = Null
    /\ NothingToDo(a)
    /\ Return(a)
    /\ UNCHANGED <<chipPowerState, hardware, locks, delayed, atomCommit, work>>

(* From ON the power semaphore comes first; otherwise the power management *)
(* has it since the GPU left ON.                                           *)
Proceed(a) ==
    /\ powerMutex' = a
    /\ Goto(a, IF chipPowerState = ON THEN "semaphore" ELSE "change")

(* A global state other than ON takes the global semaphore if it is free.  *)
LockGlobal(a) ==
    /\ pc[a] = "lock"
    /\ powerMutex = Null
    /\ ~NothingToDo(a)
    /\ request[a].how = "global"
    /\ globalAcquired' = (request[a].to # ON /\ globalSemaphore > 0)
    /\ globalSemaphore' = IF globalAcquired' THEN globalSemaphore - 1
                          ELSE globalSemaphore
    /\ Proceed(a)
    /\ UNCHANGED <<chipPowerState, hardware, powerSemaphore, delayed,
                   atomCommit, work, request>>

(* Any other request takes it and gives it back under the mutex, if it can. *)
LockLocal(a) ==
    /\ pc[a] = "lock"
    /\ powerMutex = Null
    /\ ~NothingToDo(a)
    /\ request[a].how # "global"
    /\ globalSemaphore > 0
    /\ Proceed(a)
    /\ UNCHANGED <<chipPowerState, hardware, powerSemaphore, globalSemaphore,
                   globalAcquired, delayed, atomCommit, work, request>>

(* In a global state: a broadcast gives up, ON_AUTO waits. *)
LockHeld(a) ==
    /\ pc[a] = "lock"
    /\ powerMutex = Null
    /\ ~NothingToDo(a)
    /\ request[a].how # "global"
    /\ globalSemaphore = 0
    /\ \/ request[a] # OnAuto /\ Return(a)
       \/ request[a] = OnAuto /\ Goto(a, "wait_global") /\ UNCHANGED request
    /\ UNCHANGED <<chipPowerState, hardware, locks, delayed, atomCommit, work>>

WaitGlobal(a) ==
    /\ pc[a] = "wait_global"
    /\ globalSemaphore > 0
    /\ globalSemaphore' = globalSemaphore - 1
    /\ Goto(a, "relock")
    /\ UNCHANGED <<chipPowerState, hardware, powerMutex, powerSemaphore,
                   globalAcquired, delayed, atomCommit, work, request>>

(* ... and then for the mutex, with the global semaphore in its hands. *)
Relock(a) ==
    /\ pc[a] = "relock"
    /\ powerMutex = Null
    /\ globalSemaphore' = globalSemaphore + 1
    /\ \/ chipPowerState = ON /\ Return(a) /\ UNCHANGED powerMutex
       \/ chipPowerState # ON /\ Proceed(a) /\ UNCHANGED request
    /\ UNCHANGED <<chipPowerState, hardware, powerSemaphore, globalAcquired,
                   delayed, atomCommit, work>>
-----------------------------------------------------------------------------
(* Leaving ON. *)

\* Seeded fault: the commit atom is not looked at.
BroadcastBlockedNoAtom == powerSemaphore = 0 \/ ~QueryIdle

(* What makes a broadcast give up: a commit has the semaphore, a commit is *)
(* in progress, or the GPU is not idle (_PmStallCommand).                  *)
BroadcastBlocked == powerSemaphore = 0 \/ atomCommit > 0 \/ ~QueryIdle

BroadcastAborts(a) ==
    /\ pc[a] = "semaphore"
    /\ request[a].how \in {"broadcast", "timeout"}
    /\ BroadcastBlocked
    /\ powerMutex' = Null
    /\ Return(a)
    /\ UNCHANGED <<chipPowerState, hardware, powerSemaphore, globalSemaphore,
                   globalAcquired, delayed, atomCommit, work>>

BroadcastTakes(a) ==
    /\ pc[a] = "semaphore"
    /\ request[a].how \in {"broadcast", "timeout"}
    /\ ~BroadcastBlocked
    /\ powerSemaphore' = powerSemaphore - 1
    /\ Goto(a, "change")
    /\ UNCHANGED <<chipPowerState, hardware, powerMutex, globalSemaphore,
                   globalAcquired, delayed, atomCommit, work, request>>

(* A global request waits for the commit that has the semaphore ... *)
GlobalTakes(a) ==
    /\ pc[a] = "semaphore"
    /\ request[a].how = "global"
    /\ powerSemaphore > 0
    /\ powerSemaphore' = powerSemaphore - 1
    /\ Goto(a, "stall")
    /\ UNCHANGED <<chipPowerState, hardware, powerMutex, globalSemaphore,
                   globalAcquired, delayed, atomCommit, work, request>>

(* ... then gckCOMMAND_Stall submits an event of its own, waiting for a    *)
(* free one if it has to, ...                                              *)
StallSubmit(a) ==
    /\ pc[a] = "stall"
    /\ interruptCount + pending < MaxEvents
    /\ interruptCount' = interruptCount + 1
    /\ busy' = TRUE
    /\ Goto(a, "drain")
    /\ UNCHANGED <<chipPowerState, hardware, locks, delayed, atomCommit,
                   pending, request>>

\* Seeded fault: the clock goes as soon as the events have been notified.
DrainedEvents == interruptCount = 0 /\ pending = 0

(* ... and waits until the interrupt thread has notified it and the GPU    *)
(* says it is idle.  Nobody else can submit meanwhile, so its event is the *)
(* last one.                                                               *)
Drained == interruptCount = 0 /\ pending = 0 /\ ~busy

Drain(a) ==
    /\ pc[a] = "drain"
    /\ Drained
    /\ Goto(a, "change")
    /\ UNCHANGED <<chipPowerState, hardware, locks, delayed, atomCommit, work,
                   request>>

-----------------------------------------------------------------------------
(* The change itself. *)

(* _PmSetPowerOffDirection: from ON to IDLE only the frequency changes;    *)
(* beyond IDLE the FE stops and the clock goes; OFF cuts the power.        *)
PowerOff(a) ==
    /\ pc[a] = "change"
    /\ chipPowerState < request[a].to
    /\ clock' = (clock /\ request[a].to = IDLE)
    /\ running' = (running /\ request[a].to = IDLE)
    /\ power' = (power /\ request[a].to # OFF)
    /\ loaded' = (loaded /\ request[a].to # OFF)
    /\ Goto(a, "save")
    /\ UNCHANGED <<chipPowerState, locks, delayed, atomCommit, currContext,
                   work, request>>

\* Seeded fault: currContext survives the initialisation.
InitializeKeepingContext == UNCHANGED currContext /\ loaded' = FALSE

(* _PmInitializeGPU: what was loaded is gone and the queue forgets it. *)
Initialize == currContext' = FALSE /\ loaded' = FALSE

AfterPowerOn(a) == Goto(a, IF request[a].to = ON THEN "release" ELSE "save")

(* _PmSetPowerOnDirection, OFF to SUSPEND: on, initialise, clock off. *)
PowerOnSuspended(a) ==
    /\ pc[a] = "change"
    /\ chipPowerState = OFF /\ request[a].to = SUSPEND
    /\ clock' = FALSE /\ power' = TRUE
    /\ Initialize
    /\ AfterPowerOn(a)
    /\ UNCHANGED <<chipPowerState, locks, delayed, atomCommit, running, work,
                   request>>

(* OFF or SUSPEND to ON or IDLE: a GPU that does not answer is power       *)
(* cycled until it does (_PmClockOn) and then initialised as well.         *)
PowerOn(a) ==
    /\ pc[a] = "change"
    /\ chipPowerState \in {SUSPEND, OFF} /\ request[a].to < SUSPEND
    /\ clock' = TRUE /\ power' = TRUE /\ running' = TRUE
    /\ \/ Initialize
       \/ chipPowerState = SUSPEND /\ UNCHANGED <<currContext, loaded>>
    /\ AfterPowerOn(a)
    /\ UNCHANGED <<chipPowerState, locks, delayed, atomCommit, work, request>>

(* IDLE to ON: the frequency. *)
SpeedUp(a) ==
    /\ pc[a] = "change"
    /\ chipPowerState = IDLE /\ request[a].to = ON
    /\ AfterPowerOn(a)
    /\ UNCHANGED <<chipPowerState, hardware, locks, delayed, atomCommit, work,
                   request>>

\* Seeded fault: the power semaphore is given back without ON.
PowerOnFailsReleasing(a) ==
    /\ pc[a] = "change"
    /\ chipPowerState \in {SUSPEND, OFF} /\ request[a].to < chipPowerState
    /\ clock' = FALSE
    /\ power' = (chipPowerState = SUSPEND)
    /\ globalSemaphore' = IF globalAcquired THEN globalSemaphore + 1
                          ELSE globalSemaphore
    /\ globalAcquired' = FALSE
    /\ powerSemaphore' = powerSemaphore + 1
    /\ powerMutex' = Null
    /\ Goto(a, IF a \in Clients THEN "leave"
               ELSE IF request[a] \in Global THEN "failed"
               ELSE "out")
    /\ request' = [request EXCEPT ![a] = Null]
    /\ UNCHANGED <<chipPowerState, delayed, atomCommit,
                   currContext, loaded, running, work>>

(* gckOS_SetGPUPower fails on the way up: the clock is put back off, the   *)
(* state stays, and so does the power semaphore.  A client that asked for  *)
(* ON_AUTO lowers the atom again and its commit fails.                     *)
PowerOnFails(a) ==
    /\ pc[a] = "change"
    /\ chipPowerState \in {SUSPEND, OFF} /\ request[a].to < chipPowerState
    /\ clock' = FALSE
    /\ power' = (chipPowerState = SUSPEND)
    /\ globalSemaphore' = IF globalAcquired THEN globalSemaphore + 1
                          ELSE globalSemaphore
    /\ globalAcquired' = FALSE
    /\ powerMutex' = Null
    /\ Goto(a, IF a \in Clients THEN "leave"
               ELSE IF request[a] \in Global THEN "failed"
               ELSE "out")
    /\ request' = [request EXCEPT ![a] = Null]
    /\ UNCHANGED <<chipPowerState, powerSemaphore, delayed, atomCommit,
                   currContext, loaded, running, work>>

-----------------------------------------------------------------------------
(* The end of a call. *)

(* Only for ON, and before the state is saved.  A global ON takes the      *)
(* global semaphore if it can ("global state error") and releases it.      *)
Release(a) ==
    /\ pc[a] = "release"
    /\ powerSemaphore' = powerSemaphore + 1
    /\ globalSemaphore' = IF request[a].how = "global" /\ globalSemaphore = 0
                          THEN 1 ELSE globalSemaphore
    /\ Goto(a, "save")
    /\ UNCHANGED <<chipPowerState, hardware, powerMutex, globalAcquired,
                   delayed, atomCommit, work, request>>

\* Seeded fault: the delayed change is not cancelled.
DelayedChangeKept(r) ==
    IF r.to \in {IDLE, SUSPEND} THEN OffTimeout ELSE nextPowerState

(* A change that is no broadcast cancels the delayed one. *)
DelayedChange(r) ==
    IF r.to \in {IDLE, SUSPEND} THEN OffTimeout
    ELSE IF r.how \in {"global", "auto"} THEN Null
    ELSE nextPowerState

Save(a) ==
    /\ pc[a] = "save"
    /\ chipPowerState' = request[a].to
    /\ nextPowerState' = DelayedChange(request[a])
    /\ timerArmed' = (timerArmed \/ request[a].to \in {IDLE, SUSPEND})
    /\ powerMutex' = Null
    /\ globalAcquired' = FALSE
    /\ Return(a)
    /\ UNCHANGED <<hardware, powerSemaphore, globalSemaphore, atomCommit, work>>

CallStep(a) ==
    \/ LockBusy(a) \/ LockUnchanged(a) \/ LockGlobal(a) \/ LockLocal(a)
    \/ LockHeld(a) \/ WaitGlobal(a) \/ Relock(a)
    \/ BroadcastAborts(a) \/ BroadcastTakes(a) \/ GlobalTakes(a)
    \/ StallSubmit(a) \/ Drain(a)
    \/ PowerOff(a) \/ PowerOnSuspended(a) \/ PowerOn(a) \/ SpeedUp(a)
    \/ Release(a) \/ Save(a)

-----------------------------------------------------------------------------
(* The clients. *)

(* EnterCommit: the atom goes up under the power mutex, then ON_AUTO. *)
EnterCommit(c) ==
    /\ pc[c] = "out"
    /\ powerMutex = Null
    /\ atomCommit' = atomCommit + 1
    /\ Call(c, OnAuto)
    /\ UNCHANGED <<chipPowerState, hardware, locks, delayed, work>>

AcquirePower(c) ==
    /\ pc[c] = "acquire"
    /\ powerSemaphore > 0
    /\ powerSemaphore' = powerSemaphore - 1
    /\ Goto(c, "write")
    /\ UNCHANGED <<chipPowerState, hardware, powerMutex, globalSemaphore,
                   globalAcquired, delayed, atomCommit, work, request>>

(* The queue is written under mutexQueue: gckCOMMAND_Commit writes a       *)
(* command buffer, and loads its context if currContext is not that,       *)
(* gckEVENT_Submit an event.  ExitCommit then gives the semaphore back.    *)
WriteBuffer(c) ==
    /\ pc[c] = "write"
    /\ busy' = TRUE
    /\ currContext' = TRUE
    /\ loaded' = (loaded \/ ~currContext)
    /\ powerSemaphore' = powerSemaphore + 1
    /\ Goto(c, "leave")
    /\ UNCHANGED <<chipPowerState, clock, power, running, powerMutex,
                   globalSemaphore, globalAcquired, delayed, atomCommit,
                   interruptCount, pending, request>>

WriteEvent(c) ==
    /\ pc[c] = "write"
    /\ interruptCount + pending < MaxEvents
    /\ busy' = TRUE
    /\ interruptCount' = interruptCount + 1
    /\ powerSemaphore' = powerSemaphore + 1
    /\ Goto(c, "leave_submit")
    /\ UNCHANGED <<chipPowerState, hardware, powerMutex, globalSemaphore,
                   globalAcquired, delayed, atomCommit, pending, request>>

(* The atom goes down under the mutex.  gckEVENT_Submit then tries to idle *)
(* the GPU; a commit, or a call that failed, returns.                      *)
LeaveCommit(c) ==
    /\ pc[c] \in {"leave", "leave_submit"}
    /\ powerMutex = Null
    /\ atomCommit' = atomCommit - 1
    /\ Goto(c, IF pc[c] = "leave_submit" THEN "empty" ELSE "out")
    /\ UNCHANGED <<chipPowerState, hardware, locks, delayed, work, request>>

(* The last client detaches after its last Submit                          *)
(* (gckKERNEL_AttachProcessEx): OFF.                                       *)
LastDetach(c) ==
    /\ \A d \in Clients : pc[d] = "out"
    /\ Call(c, Request(OFF, "broadcast"))
    /\ UNCHANGED <<chipPowerState, hardware, locks, delayed, atomCommit, work>>

(* _TryToIdleGPU: gckEVENT_IsEmpty reads the slots without a lock ... *)
IsEmpty(a) ==
    /\ pc[a] = "empty"
    /\ Goto(a, IF interruptCount + pending = 0 THEN "query" ELSE "out")
    /\ UNCHANGED <<chipPowerState, hardware, locks, delayed, atomCommit, work,
                   request>>

(* ... then the GPU is queried under the mutex, if that is free, and what  *)
(* was found is acted upon without it.                                     *)
TryToIdle(a) ==
    /\ pc[a] = "query"
    /\ IF powerMutex = Null /\ QueryIdle
       THEN Call(a, Request(SUSPEND, "broadcast"))
       ELSE Goto(a, "out") /\ UNCHANGED request
    /\ UNCHANGED <<chipPowerState, hardware, locks, delayed, atomCommit, work>>

ClientStep(c) ==
    \/ AcquirePower(c) \/ WriteBuffer(c) \/ WriteEvent(c)
    \/ LeaveCommit(c) \/ IsEmpty(c) \/ TryToIdle(c)

-----------------------------------------------------------------------------
(* The GPU, the interrupt thread, the delayed work and the system. *)

(* The FE reaches an event; the interrupt routine takes it off the count. *)
Interrupt ==
    /\ busy /\ interruptCount > 0
    /\ interruptCount' = interruptCount - 1
    /\ pending' = pending + 1
    /\ UNCHANGED <<chipPowerState, hardware, locks, delayed, atomCommit, busy,
                   pc, request>>

Finish ==
    /\ busy /\ interruptCount = 0
    /\ busy' = FALSE
    /\ UNCHANGED <<chipPowerState, hardware, locks, delayed, atomCommit,
                   interruptCount, pending, pc, request>>

(* gckEVENT_Notify, which ends in _TryToIdleGPU. *)
Notify ==
    /\ pc[IrqThread] = "out"
    /\ pending > 0
    /\ pending' = pending - 1
    /\ Goto(IrqThread, "empty")
    /\ UNCHANGED <<chipPowerState, hardware, locks, delayed, atomCommit, busy,
                   interruptCount, request>>

IrqStep == Notify \/ IsEmpty(IrqThread) \/ TryToIdle(IrqThread)

(* _PowerStateTimerFunc reads nextPowerState without a lock. *)
TimerFires ==
    /\ pc[Timer] = "out"
    /\ timerArmed
    /\ timerArmed' = FALSE
    /\ \/ nextPowerState = Null /\ UNCHANGED <<pc, request>>
       \/ nextPowerState # Null /\ Call(Timer, nextPowerState)
    /\ UNCHANGED <<chipPowerState, hardware, locks, nextPowerState, atomCommit,
                   work>>

(* gpu_suspend, or the ioctl; from a global state the system moves only to *)
(* another one or to ON, and so it does when a global request has failed.  *)
SetGlobal ==
    /\ pc[System] \in {"out", "global_hold", "failed"}
    /\ \E r \in Global : Call(System, r)
    /\ UNCHANGED <<chipPowerState, hardware, locks, delayed, atomCommit, work>>

Resume ==
    /\ pc[System] \in {"global_hold", "failed"}
    /\ Call(System, Request(ON, "global"))
    /\ UNCHANGED <<chipPowerState, hardware, locks, delayed, atomCommit, work>>

(* gpu_resume ends by asking for the state from before, not as a global    *)
(* one: the GPU was on, or idle and so suspended or off.  The ioctl does   *)
(* not.                                                                    *)
Restored == {OnAuto} \cup Broadcast

Restore ==
    /\ pc[System] = "restore"
    /\ \/ \E r \in Restored : Call(System, r)
       \/ Goto(System, "out") /\ UNCHANGED request
    /\ UNCHANGED <<chipPowerState, hardware, locks, delayed, atomCommit, work>>

-----------------------------------------------------------------------------

Next ==
    \/ \E a \in Actors : CallStep(a) \/ PowerOnFails(a)
    \/ \E c \in Clients : EnterCommit(c) \/ ClientStep(c) \/ LastDetach(c)
    \/ IrqStep \/ Interrupt \/ Finish \/ TimerFires
    \/ SetGlobal \/ Restore

Spec == Init /\ [][Next]_vars

(* The mutex and the semaphores of Linux serve their waiters in turn, so a *)
(* client, or the system, that could go again and again goes; whoever has  *)
(* the mutex, the GPU, the interrupt thread and the delayed work run on; a *)
(* system in a global state asks for ON in the end, and ON does not fail   *)
(* for ever.                                                               *)
Fairness ==
    /\ \A c \in Clients : SF_vars(CallStep(c) \/ ClientStep(c))
    /\ SF_vars(CallStep(System))
    /\ SF_vars(PowerOn(System) /\ request[System].to = ON)
    /\ WF_vars(CallStep(IrqThread) \/ IrqStep)
    /\ WF_vars(CallStep(Timer))
    /\ WF_vars(Interrupt \/ Finish)
    /\ SF_vars(Resume)
    /\ WF_vars(Restore)

LiveSpec == Spec /\ Fairness

-----------------------------------------------------------------------------
(* Properties *)

(* The power management has the power semaphore from the moment it starts  *)
(* to leave ON until it is back: while it stalls, changes or saves a state *)
(* other than ON, and as long as the saved state is not ON, except after   *)
(* the release that precedes the saving of ON.                             *)
Withheld ==
    IF chipPowerState = ON
    THEN \E a \in Actors : pc[a] \in {"stall", "drain", "change", "save"}
    ELSE ~\E a \in Actors : pc[a] = "save" /\ request[a].to = ON

(* Commits and power changes exclude each other: the power semaphore is    *)
(* free, or with one commit, or with the power management.                 *)
SemaphoreAccounting ==
    powerSemaphore + Cardinality({c \in Clients : pc[c] = "write"})
                   + (IF Withheld THEN 1 ELSE 0) = 1

(* A GPU without a clock has nothing to do and owes no interrupt, and a    *)
(* commit writes only to a queue that a powered GPU is executing.          *)
PoweredWhileBusy ==
    /\ ~clock => ~busy /\ interruptCount = 0
    /\ \A c \in Clients : pc[c] = "write" => clock /\ power /\ running

(* While the FE runs, a context that the queue takes as loaded is loaded:  *)
(* every way back from a loss of power makes the next commit load it.      *)
ContextCurrent == running /\ currContext => loaded

(* The delayed change never takes the GPU out of ON, whatever has happened *)
(* between its start and its firing.                                       *)
DelayedSparesOn ==
    [][chipPowerState = ON /\ chipPowerState' # ON
        => \A a \in Actors : pc[a] = "save" => request[a] # OffTimeout]_vars

(* Every commit returns, and so does every request of the system. *)
CallsReturn ==
    \A a \in Clients \cup {System} : pc[a] \notin RestPCs ~> pc[a] \in RestPCs

(* After a global state other than ON the GPU is not switched ON before    *)
(* a global ON (comment of gckHARDWARE_SetPowerManagementState).           *)
GlobalHolds == pc[System] = "global_hold" => chipPowerState # ON

=============================================================================
