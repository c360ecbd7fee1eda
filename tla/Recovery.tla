------------------------------ MODULE Recovery ------------------------------
(***************************************************************************)
(* The monitor timer and the recovery of a GPU that hangs                  *)
(* (_MonitorTimerFunction and gckKERNEL_Recovery, hal/kernel/              *)
(* gc_hal_kernel.c).                                                       *)
(*                                                                         *)
(* Twice per time-out the monitor looks at three things: the number of     *)
(* interrupts that are due, the mask of the events they belong to, and     *)
(* where the command queue ends.  When nothing has changed it resets the   *)
(* GPU, which goes on at the end of the queue as it was recorded, takes    *)
(* the recorded mask for interrupts that have come, and runs gckEVENT_     *)
(* Notify.  All of that runs beside the thread that submits events, the    *)
(* interrupt routine and the interrupt thread, which is a second           *)
(* gckEVENT_Notify.                                                        *)
(*                                                                         *)
(* A commit is its number, which is also its time stamp; it has one EVENT, *)
(* in a slot.  The event manager itself is in EventManager.                *)
(*                                                                         *)
(* The code relies on time: half a time-out (10 s) is longer than any step *)
(* of the driver or of a working GPU, so that what is under way at one     *)
(* tick is done at the next (variable late).  That is not so of a submit   *)
(* that waits for a slot, with its time stamp taken, nor of what goes on   *)
(* beside a recovery: the front end runs again before the monitor has done *)
(* its accounts, and submits, interrupts and walks go on.                  *)
(*                                                                         *)
(* The recorded mask names slots, not commits.  When one of its slots is   *)
(* given to another commit before the recovery is over, the monitor takes  *)
(* that commit for the old one.  The variable mistaken tells whether this  *)
(* has happened; what the recovery promises holds until it does.           *)
(***************************************************************************)
EXTENDS Integers, Sequences, FiniteSets

CONSTANTS
    NumEvents,      \* gcmCOUNTOF(Event->queues): 29 in the driver
    MaxCommits,     \* bound on the commits
    MaxHangs        \* bound on the hangs

ASSUME RecoveryAssumption ==
    /\ NumEvents \in Nat \ {0} /\ MaxCommits \in Nat /\ MaxHangs \in Nat

VARIABLES
    queues,         \* the commit whose records are in a slot, or 0
    lastID,         \* Event->lastID
    submit,         \* gckEVENT_Submit: where it is, its slot, the commit
    lastCommitStamp,\* Event->lastCommitStamp
    ring,           \* the EVENT commands the front end can get to, by commit
    fe,             \* how many of them it has passed
    hung, hangs,    \* the front end is stuck in front of the next; how often
    raised,         \* the acknowledge register
    pendingEvent,   \* Hardware->pendingEvent
    pending,        \* Event->pending
    interruptCount, \* Event->interruptCount
    wake,           \* the semaphore of the interrupt thread
    notify,         \* gckEVENT_Notify of the interrupt thread and the monitor
    monitor,        \* the monitor's fields of gckKERNEL
    recovery,       \* where gckKERNEL_Recovery is
    late,           \* what was under way at the last tick and has not gone on
    performed,      \* history: how often the records of a commit were performed
    skipped,        \* history: the commits that a reset has jumped over
    wiped,          \* history: the commits whose bits a mask was stored over
    mistaken        \* history: a recovery went by a mask one of whose slots had
                    \* been given to another commit

eventVars == <<queues, lastID>>
submitVars == <<submit, lastCommitStamp>>
feVars == <<ring, fe, hung, hangs>>
countVars == <<pendingEvent, interruptCount>>
monitorVars == <<monitor, recovery>>
histVars == <<performed, skipped, wiped, mistaken>>
recoveryVars == <<eventVars, submitVars, feVars, raised, countVars, pending, wake, notify,
                  monitorVars, late, histVars>>

EventIDs == 0 .. NumEvents - 1
Commits == 1 .. MaxCommits
Walkers == {"interrupt", "monitor"}
Busy(i) == queues[i] # 0

RecoveryInit ==
    /\ queues = [i \in EventIDs |-> 0] /\ lastID = 0
    /\ submit = [at |-> "idle", id |-> 0, commit |-> 0]
    /\ lastCommitStamp = 0
    /\ ring = <<>> /\ fe = 0 /\ hung = FALSE /\ hangs = 0
    /\ raised = {} /\ pendingEvent = {} /\ pending = {} /\ interruptCount = 0
    /\ wake = FALSE
    /\ notify = [w \in Walkers |-> [at |-> "idle", commit |-> 0]]
    /\ monitor = [monitoring |-> FALSE, timer |-> 0, stamp |-> 0, address |-> 0, mask |-> {}]
    /\ recovery = "idle"
    /\ late = {} /\ performed = [c \in Commits |-> 0] /\ skipped = {}
    /\ wiped = {} /\ mistaken = FALSE

-----------------------------------------------------------------------------
(* gckEVENT_Submit.  Submits are serialised by gckCOMMAND_EnterCommit.      *)

BeginSubmit ==
    /\ submit.at = "idle" /\ submit.commit < MaxCommits
    /\ submit' = [submit EXCEPT !.at = "get", !.commit = @ + 1]
    /\ lastCommitStamp' = lastCommitStamp + 1
    /\ UNCHANGED <<eventVars, feVars, raised, countVars, pending, wake, notify,
                   monitorVars, late, histVars>>

\* A slot of the recorded mask holds a commit behind the recorded WAIT/LINK.
MaskReused == \E i \in monitor.mask : queues[i] > monitor.address

Turn(i) == (i - lastID) % NumEvents

\* gckEVENT_GetEvent: the next free slot in turn; without one, look again.
GetSlot ==
    /\ submit.at = "get"
    /\ \E i \in EventIDs :
        /\ ~Busy(i) /\ \A j \in EventIDs : ~Busy(j) => Turn(i) <= Turn(j)
        /\ queues' = [queues EXCEPT ![i] = submit.commit]
        /\ lastID' = (i + 1) % NumEvents
        /\ submit' = [submit EXCEPT !.at = "count", !.id = i]
    /\ UNCHANGED <<lastCommitStamp, feVars, raised, countVars, pending, wake, notify,
                   monitorVars, late, performed, skipped, wiped>>
    /\ mistaken' = (mistaken \/ (recovery # "idle" /\ MaskReused'))

Count ==
    /\ submit.at = "count"
    /\ interruptCount' = interruptCount + 1
    /\ submit' = [submit EXCEPT !.at = "event"]
    /\ UNCHANGED <<eventVars, lastCommitStamp, feVars, raised, pendingEvent, pending,
                   wake, notify, monitorVars, late, histVars>>

\* gckWLFE_Event notes the event as pending and writes the command.
WriteEvent ==
    /\ submit.at = "event"
    /\ pendingEvent' = pendingEvent \cup {submit.id}
    /\ submit' = [submit EXCEPT !.at = "execute"]
    /\ UNCHANGED <<eventVars, lastCommitStamp, feVars, raised, interruptCount, pending,
                   wake, notify, monitorVars, late, histVars>>

\* gckCOMMAND_Execute: a new WAIT/LINK ends the queue, and the old one becomes
\* a LINK to the command.  lastWaitLink is the number of commits in front.
ExecuteEvent ==
    /\ submit.at = "execute"
    /\ ring' = Append(ring, submit.id)
    /\ submit' = [submit EXCEPT !.at = "idle"]
    /\ late' = late \ {"submit"}
    /\ UNCHANGED <<eventVars, lastCommitStamp, fe, hung, hangs, raised, countVars,
                   pending, wake, notify, monitorVars, histVars>>

lastWaitLink == Len(ring)

-----------------------------------------------------------------------------
(* The GPU, and the interrupt routine.                                      *)

Pass ==
    /\ ~hung /\ fe < Len(ring)
    /\ fe' = fe + 1
    /\ raised' = raised \cup {ring[fe + 1]}
    /\ late' = late \ {"frontEnd"}
    /\ UNCHANGED <<eventVars, submitVars, ring, hung, hangs, countVars, pending, wake,
                   notify, monitorVars, histVars>>

Hang ==
    /\ ~hung /\ fe < Len(ring) /\ hangs < MaxHangs
    /\ hung' = TRUE /\ hangs' = hangs + 1
    /\ late' = late \ {"frontEnd"}
    /\ UNCHANGED <<eventVars, submitVars, ring, fe, raised, countVars, pending, wake,
                   notify, monitorVars, histVars>>

\* gckHARDWARE_Interrupt reads and clears the register, gckEVENT_Interrupt
\* merges it, isrRoutine wakes the thread.
TakeInterrupt ==
    /\ raised # {}
    /\ raised' = {}
    /\ pendingEvent' = pendingEvent \ raised
    /\ pending' = pending \cup raised
    /\ interruptCount' = interruptCount - Cardinality(raised)
    /\ wake' = TRUE
    /\ late' = late \ {"interrupt"}
    /\ UNCHANGED <<eventVars, submitVars, feVars, notify, monitorVars, histVars>>

-----------------------------------------------------------------------------
(* gckEVENT_Notify, which runs twice.  eventQueueMutex protects a claim.    *)

WakeThread ==
    /\ notify["interrupt"].at = "idle" /\ wake
    /\ wake' = FALSE
    /\ notify' = [notify EXCEPT !["interrupt"].at = "loop"]
    /\ UNCHANGED <<eventVars, submitVars, feVars, raised, countVars, pending, monitorVars,
                   late, histVars>>

\* The oldest slot with records: of those whose interrupt is pending first, and
\* then of all, since an older one must have lost its interrupt.
Oldest(i) == Busy(i) /\ \A j \in EventIDs : Busy(j) => queues[i] <= queues[j]
Triggered == {i \in pending : Busy(i)}

\* Seeded fault: the slot is emptied only behind the walk.
ClaimKeepingSlot(w) ==
    /\ notify[w].at = "loop" /\ Triggered # {}
    /\ \E i \in EventIDs :
        /\ Oldest(i)
        /\ pending' = pending \ {i}
        /\ notify' = [notify EXCEPT ![w] = [at |-> "walk", commit |-> queues[i]]]
    /\ UNCHANGED <<eventVars, submitVars, feVars, raised, countVars, wake, monitorVars,
                   late, histVars>>

Claim(w) ==
    /\ notify[w].at = "loop" /\ Triggered # {}
    /\ \E i \in EventIDs :
        /\ Oldest(i)
        /\ pending' = pending \ {i}
        /\ notify' = [notify EXCEPT ![w] = [at |-> "walk", commit |-> queues[i]]]
        /\ queues' = [queues EXCEPT ![i] = 0]
    /\ UNCHANGED <<lastID, submitVars, feVars, raised, countVars, wake, monitorVars, late,
                   histVars>>

Walk(w) ==
    /\ notify[w].at = "walk"
    /\ performed' = [performed EXCEPT ![notify[w].commit] = @ + 1]
    /\ notify' = [notify EXCEPT ![w] = [at |-> "loop", commit |-> 0]]
    /\ UNCHANGED <<eventVars, submitVars, feVars, raised, countVars, pending, wake,
                   monitorVars, late, skipped, wiped, mistaken>>

\* No slot with records has its interrupt pending: what is left is dropped.
EndNotify(w) ==
    /\ notify[w].at = "loop" /\ Triggered = {}
    /\ pending' = {}
    /\ notify' = [notify EXCEPT ![w].at = "idle"]
    /\ IF w = "monitor"
       THEN recovery' = "idle" /\ monitor' = [monitor EXCEPT !.monitoring = FALSE]
       ELSE UNCHANGED monitorVars
    /\ late' = late \ {IF w = "interrupt" THEN "notify" ELSE w}
    /\ UNCHANGED <<eventVars, submitVars, feVars, raised, countVars, wake, histVars>>

-----------------------------------------------------------------------------
(* The monitor.                                                             *)

Unchanged ==
    /\ monitor.stamp = lastCommitStamp
    /\ monitor.address = lastWaitLink
    /\ monitor.mask = pendingEvent

\* The count that a negative one is corrected to.
Pending == IF interruptCount < 0 THEN 0 ELSE interruptCount

\* Seeded fault: the first look at an unchanged state ends it.
ExpiredAtOnce == monitor.timer + 1 >= 1

\* The timer, counted in halves of the time-out: the second look at an
\* unchanged state ends it.
Expired == monitor.timer + 1 >= 2

\* What has begun and must be done by the next tick.
UnderWay ==
    (IF submit.at \in {"count", "event", "execute"} THEN {"submit"} ELSE {})
        \cup (IF ~hung /\ fe < Len(ring) THEN {"frontEnd"} ELSE {})
        \cup (IF raised # {} THEN {"interrupt"} ELSE {})
        \cup (IF wake \/ notify["interrupt"].at # "idle" THEN {"notify"} ELSE {})

\* _MonitorTimerFunction.  The reads of a tick are one step.
Tick ==
    /\ recovery = "idle" /\ late = {}
    /\ interruptCount' = Pending
    /\ monitor' =
        CASE Pending = 0 -> [monitor EXCEPT !.monitoring = FALSE]
          [] Pending > 0 /\ ~monitor.monitoring ->
                [monitoring |-> TRUE, timer |-> 0, stamp |-> lastCommitStamp,
                 address |-> lastWaitLink, mask |-> pendingEvent]
          [] Pending > 0 /\ monitor.monitoring /\ Unchanged ->
                [monitor EXCEPT !.timer = @ + 1]
          [] OTHER -> [monitor EXCEPT !.monitoring = FALSE]
    /\ recovery' = IF Pending > 0 /\ monitor.monitoring /\ Unchanged /\ Expired
                   THEN "reset" ELSE "idle"
    /\ late' = UnderWay
    /\ UNCHANGED <<eventVars, submitVars, feVars, raised, pendingEvent, pending, wake,
                   notify, performed, skipped, wiped>>
    /\ mistaken' = (mistaken \/ (recovery' = "reset" /\ MaskReused'))

\* gckHARDWARE_Reset: the GPU forgets its interrupts and goes on behind the
\* commits of the recorded WAIT/LINK.
Reset ==
    /\ recovery = "reset"
    /\ hung' = FALSE
    /\ fe' = monitor.address
    /\ raised' = {}
    /\ skipped' = skipped \cup (fe + 1 .. monitor.address)
    /\ recovery' = "set"
    /\ late' = late \ {"frontEnd", "interrupt"}
    /\ UNCHANGED <<eventVars, submitVars, ring, hangs, countVars, pending, wake, notify,
                   monitor, performed, wiped, mistaken>>

\* Seeded fault: the mask is read again.
SetPendingAgain ==
    /\ recovery = "set"
    /\ pending' = pendingEvent
    /\ recovery' = "clear"
    /\ UNCHANGED <<eventVars, submitVars, feVars, raised, countVars, wake, notify,
                   monitor, late, histVars>>

\* Seeded fault: the mask is not handed over.
SetPendingNot ==
    /\ recovery = "set"
    /\ recovery' = "clear"
    /\ UNCHANGED <<eventVars, submitVars, feVars, raised, countVars, pending, wake, notify,
                   monitor, late, histVars>>

\* "Handle all outstanding events now."  The mask is stored, not merged: what the
\* interrupt routine has merged since the reset is gone.
SetPending ==
    /\ recovery = "set"
    /\ pending' = monitor.mask
    /\ recovery' = "clear"
    /\ wiped' = wiped \cup {queues[i] : i \in Triggered \ monitor.mask}
    /\ UNCHANGED <<eventVars, submitVars, feVars, raised, countVars, wake, notify,
                   monitor, late, performed, skipped, mistaken>>

\* Seeded fault: the interrupts that will not come stay in the count.
ClearPendingEventOnly ==
    /\ recovery = "clear"
    /\ pendingEvent' = pendingEvent \ monitor.mask
    /\ recovery' = "notify"
    /\ notify' = [notify EXCEPT !["monitor"].at = "loop"]
    /\ UNCHANGED <<eventVars, submitVars, feVars, raised, interruptCount, pending, wake,
                   monitor, late, histVars>>

ClearPendingEvent ==
    /\ recovery = "clear"
    /\ interruptCount' = interruptCount - Cardinality(monitor.mask)
    /\ pendingEvent' = pendingEvent \ monitor.mask
    /\ recovery' = "notify"
    /\ notify' = [notify EXCEPT !["monitor"].at = "loop"]
    /\ UNCHANGED <<eventVars, submitVars, feVars, raised, pending, wake, monitor, late,
                   histVars>>

-----------------------------------------------------------------------------
FinishSubmit == GetSlot \/ Count \/ WriteEvent \/ ExecuteEvent
Notify(w) == Claim(w) \/ Walk(w) \/ EndNotify(w)
Recover == Reset \/ SetPending \/ ClearPendingEvent

RecoveryNext ==
    \/ BeginSubmit \/ FinishSubmit
    \/ Pass \/ Hang \/ TakeInterrupt
    \/ WakeThread \/ \E w \in Walkers : Notify(w)
    \/ Tick \/ Recover

\* Threads, the interrupt routine and a front end that does not hang go on, and
\* the timer is started again and again.
RecoveryFairness ==
    /\ WF_recoveryVars(FinishSubmit) /\ WF_recoveryVars(Pass)
    /\ WF_recoveryVars(TakeInterrupt)
    /\ WF_recoveryVars(WakeThread) /\ \A w \in Walkers : WF_recoveryVars(Notify(w))
    /\ WF_recoveryVars(Tick) /\ WF_recoveryVars(Recover)

RecoverySpec == RecoveryInit /\ [][RecoveryNext]_recoveryVars
RecoveryLive == RecoverySpec /\ RecoveryFairness

-----------------------------------------------------------------------------
(* Properties.  NeverTwice holds whatever happens.  The others hold until a *)
(* recovery is mistaken about a slot: then a GPU that works is reset, or a  *)
(* commit completed that the GPU has not got to.                            *)

\* The types of the variables.
RecoveryTypeOK ==
    /\ queues \in [EventIDs -> 0 .. MaxCommits] /\ lastID \in EventIDs
    /\ submit \in [at : {"idle", "get", "count", "event", "execute"}, id : EventIDs,
                   commit : 0 .. MaxCommits]
    /\ lastCommitStamp \in Nat
    /\ ring \in Seq(EventIDs) /\ fe \in 0 .. Len(ring)
    /\ hung \in BOOLEAN /\ hangs \in 0 .. MaxHangs
    /\ raised \subseteq EventIDs /\ pendingEvent \subseteq EventIDs
    /\ pending \subseteq EventIDs
    /\ interruptCount \in Int /\ wake \in BOOLEAN
    /\ notify \in [Walkers -> [at : {"idle", "loop", "walk"}, commit : 0 .. MaxCommits]]
    /\ monitor \in [monitoring : BOOLEAN, timer : Nat, stamp : Nat, address : Nat,
                    mask : SUBSET EventIDs]
    /\ recovery \in {"idle", "reset", "set", "clear", "notify"}
    /\ late \subseteq {"submit", "frontEnd", "interrupt", "notify"}
    /\ performed \in [Commits -> Nat] /\ skipped \subseteq Commits
    /\ wiped \subseteq Commits /\ mistaken \in BOOLEAN

\* The records of a commit are performed once, although two gckEVENT_Notify go
\* through the slots side by side.
NeverTwice == \A c \in Commits : performed[c] <= 1

\* No record is performed before the GPU has got to its EVENT or has been made
\* to jump over it, although the recovery sets bits in pending while the slots
\* are emptied beside it: memory is not unlocked while the restarted GPU reads it.
NoneEarly == mistaken \/ \A c \in Commits : performed[c] > 0 => c <= fe

\* "GPU stuck, trigger reset.": a GPU that works is not reset, unless a submit
\* that had its time stamp waited and got a slot of the mask.
NoFalseAlarm == recovery = "reset" => hung \/ mistaken

\* The count that starts the monitor stays the number of the pending events,
\* across a recovery that takes some of them back while others are submitted
\* and come: it is never negative, and not stuck above zero when the GPU is idle.
CountExact ==
    \/ mistaken
    \/ interruptCount = Cardinality(pendingEvent) + (IF submit.at = "event" THEN 1 ELSE 0)

\* "Handle all outstanding events now.": when the recovery is over, no slot
\* still holds a commit that it has jumped over, whoever else walked meanwhile.
SkippedHandled ==
    recovery = "idle" /\ ~mistaken => \A i \in EventIDs : queues[i] \notin skipped

\* "Handle all outstanding events now.": every commit is performed in the end, also
\* when the GPU hangs at it and nobody commits any more, but for those whose bits
\* the recovery has stored its mask over.
AllDone ==
    \A c \in Commits :
        submit.commit >= c ~> performed[c] = 1 \/ c \in wiped \/ mistaken
=============================================================================
