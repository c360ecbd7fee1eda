--------------------------- MODULE RecoveryProofs ---------------------------
(***************************************************************************)
(* Theorems about Recovery.                                                *)
(*                                                                         *)
(* The two walks of gckEVENT_Notify, of the interrupt thread and of the    *)
(* monitor timer, never perform a record twice, whatever the timing        *)
(* (invariant RInv): each commit is in one place, not yet in a slot, in    *)
(* one slot, with one walk, or performed.                                  *)
(*                                                                         *)
(* Until a recovery is mistaken about a slot of its mask, the monitor      *)
(* resets only a front end that hangs, no record is performed early, the   *)
(* count of the pending events is exact, and what a reset jumps over is    *)
(* taken before the recovery ends (invariant EInv), whatever goes on       *)
(* beside it.  What an unchanged state lets the monitor conclude is Watch. *)
(***************************************************************************)
EXTENDS Recovery, TLAPS, FiniteSetTheorems

RTypes ==
    /\ queues \in [EventIDs -> 0 .. MaxCommits]
    /\ submit.commit \in 0 .. MaxCommits
    /\ submit.at = "get" => submit.commit \in Commits
    /\ notify \in [Walkers -> [at : {"idle", "loop", "walk"}, commit : 0 .. MaxCommits]]
    /\ performed \in [Commits -> Nat]

Walking(w, c) == notify[w].at = "walk" /\ notify[w].commit = c

\* Has not been put into a slot yet.
Fresh(c) == c > submit.commit \/ (c = submit.commit /\ submit.at = "get")

\* The slots hold different commits.
OneSlot ==
    \A i, j \in EventIDs : Busy(i) /\ queues[i] = queues[j] => i = j

\* The walks are at different commits, which are in no slot.
OneWalk ==
    /\ \A v, w \in Walkers, c \in Commits : Walking(v, c) /\ Walking(w, c) => v = w
    /\ \A w \in Walkers, c \in Commits : Walking(w, c) => \A i \in EventIDs : queues[i] # c
    /\ \A w \in Walkers : notify[w].at = "walk" => notify[w].commit \in Commits

\* What is in a slot or with a walk has not been performed.
NotYet ==
    /\ \A i \in EventIDs : Busy(i) => performed[queues[i]] = 0
    /\ \A w \in Walkers, c \in Commits : Walking(w, c) => performed[c] = 0

\* What has no slot yet is nowhere.
FreshNowhere ==
    \A c \in Commits : Fresh(c) =>
        /\ performed[c] = 0
        /\ \A i \in EventIDs : queues[i] # c
        /\ \A w \in Walkers : ~Walking(w, c)

RInv == RTypes /\ OneSlot /\ OneWalk /\ NotYet /\ FreshNowhere /\ NeverTwice

\* No commit has begun.
LEMMA InitRInv == RecoveryInit => RInv
  <1> SUFFICES ASSUME RecoveryInit PROVE RInv
    OBVIOUS
  <1> USE RecoveryAssumption
  <1>1. RTypes
    BY DEF RecoveryInit, RTypes, Walkers
  <1>2. OneSlot /\ OneWalk /\ NotYet
    BY DEF RecoveryInit, OneSlot, OneWalk, NotYet, Walking, Busy, Commits
  <1>3. FreshNowhere /\ NeverTwice
    BY DEF RecoveryInit, FreshNowhere, NeverTwice, Walking, Commits
  <1> QED
    BY <1>1, <1>2, <1>3 DEF RInv

\* The steps that leave slots, walks and the history alone.
LEMMA RInvStutters ==
    ASSUME RInv, UNCHANGED <<queues, notify, performed>>,
           submit'.commit = submit.commit,
           submit'.at = "get" => submit.at = "get"
    PROVE  RInv'
  <1>1. RTypes'
    BY DEF RInv, RTypes
  <1>2. OneSlot' /\ OneWalk' /\ NotYet' /\ NeverTwice'
    BY DEF RInv, OneSlot, OneWalk, NotYet, Walking, Busy, NeverTwice
  <1>3. FreshNowhere'
    BY DEF RInv, FreshNowhere, Fresh, Walking
  <1> QED
    BY <1>1, <1>2, <1>3 DEF RInv

\* A walk that begins or ends performs nothing.
LEMMA RInvWalks ==
    ASSUME RInv, NEW w \in Walkers, NEW a \in {"idle", "loop"},
           notify[w].at # "walk",
           notify' = [notify EXCEPT ![w].at = a],
           UNCHANGED <<queues, submit, performed>>
    PROVE  RInv'
  <1>1. /\ notify' \in [Walkers -> [at : {"idle", "loop", "walk"}, commit : 0 .. MaxCommits]]
        /\ \A v \in Walkers : notify'[v].at = "walk" => notify[v].at = "walk"
        /\ \A v \in Walkers : notify'[v].commit = notify[v].commit
    BY DEF RInv, RTypes
  <1>2. \A v \in Walkers, c \in Commits : Walking(v, c)' => Walking(v, c)
    BY <1>1 DEF Walking
  <1>3. RTypes'
    BY <1>1 DEF RInv, RTypes
  <1>4. OneSlot' /\ NeverTwice'
    BY DEF RInv, OneSlot, Busy, NeverTwice
  <1>5. OneWalk'
    BY <1>1, <1>2 DEF RInv, OneWalk
  <1>6. NotYet'
    BY <1>2 DEF RInv, NotYet, Busy
  <1>7. FreshNowhere'
    BY <1>2 DEF RInv, FreshNowhere, Fresh
  <1> QED
    BY <1>3, <1>4, <1>5, <1>6, <1>7 DEF RInv

\* A commit begins, without a slot.
LEMMA RInvBegin == ASSUME RInv, BeginSubmit PROVE RInv'
  <1> USE RecoveryAssumption
  <1>1. /\ submit'.commit = submit.commit + 1 /\ submit'.commit \in Commits
        /\ UNCHANGED <<queues, notify, performed>>
    BY DEF BeginSubmit, eventVars, histVars, RInv, RTypes, Commits
  <1>2. RTypes'
    BY <1>1 DEF RInv, RTypes, Commits
  <1>3. OneSlot' /\ OneWalk' /\ NotYet' /\ NeverTwice'
    BY <1>1 DEF RInv, OneSlot, OneWalk, NotYet, Walking, Busy, NeverTwice
  <1>4. \A c \in Commits : Fresh(c)' => Fresh(c)
    BY <1>1 DEF Fresh, RInv, RTypes, Commits
  <1>5. FreshNowhere'
    BY <1>1, <1>4 DEF RInv, FreshNowhere, Walking
  <1> QED
    BY <1>2, <1>3, <1>5 DEF RInv

\* The commit is put into a slot that is empty.
LEMMA RInvGetSlot == ASSUME RInv, GetSlot PROVE RInv'
  <1> USE RecoveryAssumption
  <1>1. PICK i \in EventIDs :
          /\ ~Busy(i)
          /\ queues' = [queues EXCEPT ![i] = submit.commit]
          /\ submit' = [submit EXCEPT !.at = "count", !.id = i]
    BY DEF GetSlot
  <1> DEFINE c == submit.commit
  <1>2. /\ submit.at = "get" /\ c \in Commits
        /\ UNCHANGED <<notify, performed>>
    BY DEF GetSlot, RInv, RTypes, histVars
  <1>3. Fresh(c) /\ performed[c] = 0
        /\ \A j \in EventIDs : queues[j] # c
        /\ \A w \in Walkers : ~Walking(w, c)
    <2>1. Fresh(c)
      BY <1>2 DEF Fresh
    <2> QED
      BY <1>2, <2>1 DEF RInv, FreshNowhere
  <1>4. submit'.commit = c /\ submit'.at = "count"
    BY <1>1
  <1>5. \A j \in EventIDs : queues'[j] = IF j = i THEN c ELSE queues[j]
    BY <1>1 DEF RInv, RTypes
  <1> HIDE DEF c
  <1>6. RTypes'
    <2>1. queues' \in [EventIDs -> 0 .. MaxCommits]
      BY <1>1, <1>2 DEF RInv, RTypes, Commits, c
    <2> QED
      BY <1>2, <1>4, <2>1 DEF RInv, RTypes, Commits
  <1>7. OneSlot'
    BY <1>3, <1>5 DEF RInv, OneSlot, Busy
  <1>8. OneWalk'
    BY <1>2, <1>3, <1>5 DEF RInv, OneWalk, Walking
  <1>9. NotYet'
    BY <1>2, <1>3, <1>5 DEF RInv, NotYet, Walking, Busy
  <1>10. \A d \in Commits : Fresh(d)' => Fresh(d) /\ d # c
    BY <1>2, <1>4 DEF Fresh, RInv, RTypes, Commits, c
  <1>11. FreshNowhere'
    BY <1>2, <1>5, <1>10 DEF RInv, FreshNowhere, Walking
  <1>12. NeverTwice'
    BY <1>2 DEF RInv, NeverTwice
  <1> QED
    BY <1>6, <1>7, <1>8, <1>9, <1>11, <1>12 DEF RInv

\* A walk empties the slot of the commit it takes.
LEMMA RInvClaim == ASSUME RInv, NEW w \in Walkers, Claim(w) PROVE RInv'
  <1> USE RecoveryAssumption
  <1>1. PICK i \in EventIDs :
          /\ Busy(i)
          /\ notify' = [notify EXCEPT ![w] = [at |-> "walk", commit |-> queues[i]]]
          /\ queues' = [queues EXCEPT ![i] = 0]
    BY DEF Claim, Oldest
  <1> DEFINE c == queues[i]
  <1>2. c \in Commits
    BY <1>1 DEF Busy, RInv, RTypes, Commits
  <1>3. notify[w].at = "loop" /\ UNCHANGED <<submit, performed>>
    BY DEF Claim, submitVars, histVars
  <1>4. /\ performed[c] = 0 /\ ~Fresh(c)
        /\ \A v \in Walkers : ~Walking(v, c)
        /\ \A j \in EventIDs : j # i => queues[j] # c
    BY <1>1, <1>2 DEF RInv, OneSlot, OneWalk, NotYet, FreshNowhere, Busy
  <1>5. \A j \in EventIDs : queues'[j] = IF j = i THEN 0 ELSE queues[j]
    BY <1>1 DEF RInv, RTypes
  <1>6. \A v \in Walkers :
          notify'[v] = IF v = w THEN [at |-> "walk", commit |-> c] ELSE notify[v]
    BY <1>1 DEF RInv, RTypes
  <1> HIDE DEF c
  <1>7. \A v \in Walkers, d \in Commits :
          Walking(v, d)' <=> (v = w /\ d = c) \/ (v # w /\ Walking(v, d))
    BY <1>3, <1>6 DEF Walking
  <1>8. RTypes'
    <2>1. queues' \in [EventIDs -> 0 .. MaxCommits]
      BY <1>1 DEF RInv, RTypes
    <2>2. notify' \in [Walkers -> [at : {"idle", "loop", "walk"}, commit : 0 .. MaxCommits]]
      BY <1>1, <1>2 DEF RInv, RTypes, Commits, c
    <2> QED
      BY <1>3, <2>1, <2>2 DEF RInv, RTypes
  <1>9. OneSlot'
    BY <1>5 DEF RInv, OneSlot, Busy
  <1>10. OneWalk'
    <2>1. \A u, v \in Walkers, d \in Commits : Walking(u, d)' /\ Walking(v, d)' => u = v
      BY <1>4, <1>7 DEF RInv, OneWalk
    <2>2. \A v \in Walkers, d \in Commits :
            Walking(v, d)' => \A j \in EventIDs : queues'[j] # d
      BY <1>2, <1>4, <1>5, <1>7 DEF RInv, OneWalk, Commits
    <2>3. \A v \in Walkers : notify'[v].at = "walk" => notify'[v].commit \in Commits
      BY <1>2, <1>6 DEF RInv, OneWalk
    <2> QED
      BY <2>1, <2>2, <2>3 DEF OneWalk
  <1>11. NotYet'
    BY <1>3, <1>4, <1>5, <1>7 DEF RInv, NotYet, Busy
  <1>12. FreshNowhere'
    <2>1. \A d \in Commits : Fresh(d)' <=> Fresh(d)
      BY <1>3 DEF Fresh
    <2> QED
      BY <1>3, <1>4, <1>5, <1>7, <2>1 DEF RInv, FreshNowhere, Commits
  <1>13. NeverTwice'
    BY <1>3 DEF RInv, NeverTwice
  <1> QED
    BY <1>8, <1>9, <1>10, <1>11, <1>12, <1>13 DEF RInv

\* The commit is performed, and its walk gives it up.
LEMMA RInvWalk == ASSUME RInv, NEW w \in Walkers, Walk(w) PROVE RInv'
  <1> DEFINE c == notify[w].commit
  <1>1. /\ c \in Commits /\ Walking(w, c)
        /\ UNCHANGED <<queues, submit>>
    BY DEF Walk, RInv, OneWalk, Walking, eventVars, submitVars
  <1>2. /\ performed[c] = 0 /\ ~Fresh(c)
        /\ \A i \in EventIDs : queues[i] # c
        /\ \A v \in Walkers : v # w => ~Walking(v, c)
    BY <1>1 DEF RInv, OneWalk, NotYet, FreshNowhere
  <1>3. performed' = [performed EXCEPT ![c] = @ + 1]
        /\ notify' = [notify EXCEPT ![w] = [at |-> "loop", commit |-> 0]]
    BY DEF Walk
  <1>4. \A d \in Commits : performed'[d] = IF d = c THEN 1 ELSE performed[d]
    BY <1>1, <1>2, <1>3 DEF RInv, RTypes
  <1>5. \A v \in Walkers :
          notify'[v] = IF v = w THEN [at |-> "loop", commit |-> 0] ELSE notify[v]
    BY <1>3 DEF RInv, RTypes
  <1> HIDE DEF c
  <1>6. \A v \in Walkers, d \in Commits : Walking(v, d)' <=> v # w /\ Walking(v, d)
    BY <1>5 DEF Walking
  <1>7. RTypes'
    <2> USE RecoveryAssumption
    <2>1. performed' \in [Commits -> Nat]
      BY <1>1, <1>3 DEF RInv, RTypes
    <2>2. notify' \in [Walkers -> [at : {"idle", "loop", "walk"}, commit : 0 .. MaxCommits]]
      BY <1>3 DEF RInv, RTypes
    <2> QED
      BY <1>1, <2>1, <2>2 DEF RInv, RTypes
  <1>8. OneSlot'
    BY <1>1 DEF RInv, OneSlot, Busy
  <1>9. OneWalk'
    BY <1>1, <1>5, <1>6 DEF RInv, OneWalk
  <1>10. NotYet'
    <2>1. \A i \in EventIDs : Busy(i)' => performed'[queues'[i]] = 0
      <3> SUFFICES ASSUME NEW i \in EventIDs, Busy(i) PROVE performed'[queues[i]] = 0
        BY <1>1 DEF Busy
      <3>1. queues[i] \in Commits /\ performed[queues[i]] = 0
        BY RecoveryAssumption DEF RInv, RTypes, NotYet, Busy, Commits
      <3> QED
        BY <1>2, <1>4, <3>1
    <2>2. \A v \in Walkers, d \in Commits : Walking(v, d)' => performed'[d] = 0
      BY <1>2, <1>4, <1>6 DEF RInv, NotYet
    <2> QED
      BY <2>1, <2>2 DEF NotYet
  <1>11. FreshNowhere'
    <2>1. \A d \in Commits : Fresh(d)' <=> Fresh(d)
      BY <1>1 DEF Fresh
    <2> QED
      BY <1>1, <1>2, <1>4, <1>6, <2>1 DEF RInv, FreshNowhere
  <1>12. NeverTwice'
    BY <1>4 DEF RInv, NeverTwice
  <1> QED
    BY <1>7, <1>8, <1>9, <1>10, <1>11, <1>12 DEF RInv

\* The monitor walks only in the last part of a recovery, and starts one walk.
MonitorWalk == notify["monitor"].at # "idle" => recovery = "notify"

\* ClearPendingEvent lets the monitor walk, and the end of its walk the recovery end.
LEMMA MonitorWalkNext ==
    ASSUME RTypes, MonitorWalk, [RecoveryNext]_recoveryVars PROVE MonitorWalk'
  <1>1. CASE FinishSubmit \/ BeginSubmit \/ Pass \/ Hang \/ TakeInterrupt
             \/ UNCHANGED recoveryVars
    BY <1>1 DEF MonitorWalk, FinishSubmit, GetSlot, Count, WriteEvent, ExecuteEvent,
                BeginSubmit, Pass, Hang, TakeInterrupt, recoveryVars, monitorVars
  <1>2. CASE Tick \/ Reset \/ SetPending
    BY <1>2 DEF MonitorWalk, Tick, Reset, SetPending
  <1>3. CASE ClearPendingEvent
    BY <1>3 DEF MonitorWalk, ClearPendingEvent
  <1>4. CASE WakeThread
    <2>1. notify'["monitor"] = notify["monitor"] /\ recovery' = recovery
      BY <1>4 DEF WakeThread, RTypes, Walkers, monitorVars
    <2> QED
      BY <2>1 DEF MonitorWalk
  <1>5. ASSUME NEW w \in Walkers, Claim(w) \/ Walk(w) PROVE MonitorWalk'
    <2>1. recovery' = recovery /\ notify[w].at # "idle"
      BY <1>5 DEF Claim, Walk, monitorVars
    <2>2. w # "monitor" => notify'["monitor"] = notify["monitor"]
      BY <1>5 DEF Claim, Walk, RTypes, Walkers
    <2> QED
      BY <2>1, <2>2 DEF MonitorWalk
  <1>6. ASSUME NEW w \in Walkers, EndNotify(w) PROVE MonitorWalk'
    <2>1. w = "monitor" => notify'["monitor"].at = "idle"
      BY <1>6 DEF EndNotify, RTypes, Walkers
    <2>2. w # "monitor" => notify'["monitor"] = notify["monitor"] /\ recovery' = recovery
      BY <1>6 DEF EndNotify, RTypes, Walkers, monitorVars
    <2> QED
      BY <2>1, <2>2 DEF MonitorWalk
  <1> QED
    BY <1>1, <1>2, <1>3, <1>4, <1>5, <1>6 DEF RecoveryNext, Recover, Notify

\* Every step keeps a commit in one place.
LEMMA RInvNext ==
    ASSUME RInv, MonitorWalk, [RecoveryNext]_recoveryVars PROVE RInv'
  <1>1. CASE BeginSubmit
    BY <1>1, RInvBegin
  <1>2. CASE GetSlot
    BY <1>2, RInvGetSlot
  <1>3. CASE Count
    <2>1. submit'.commit = submit.commit /\ submit'.at = "event"
          /\ UNCHANGED <<queues, notify, performed>>
      BY <1>3 DEF Count, eventVars, histVars, RInv, RTypes
    <2> QED
      BY <2>1, RInvStutters
  <1>4. CASE WriteEvent
    <2>1. submit'.commit = submit.commit /\ submit'.at = "execute"
          /\ UNCHANGED <<queues, notify, performed>>
      BY <1>4 DEF WriteEvent, eventVars, histVars
    <2> QED
      BY <2>1, RInvStutters
  <1>5. CASE ExecuteEvent
    <2>1. submit'.commit = submit.commit /\ submit'.at = "idle"
          /\ UNCHANGED <<queues, notify, performed>>
      BY <1>5 DEF ExecuteEvent, eventVars, histVars
    <2> QED
      BY <2>1, RInvStutters
  <1>6. CASE Pass \/ Hang \/ TakeInterrupt \/ Tick \/ Reset \/ SetPending
             \/ UNCHANGED recoveryVars
    <2>1. UNCHANGED <<queues, notify, performed, submit>>
      BY <1>6 DEF Pass, Hang, TakeInterrupt, Tick, Reset, SetPending, recoveryVars,
                  eventVars, submitVars, histVars
    <2> QED
      BY <2>1, RInvStutters
  <1>7. CASE WakeThread
    BY <1>7, RInvWalks DEF WakeThread, Walkers, eventVars, submitVars, histVars
  <1>8. CASE ClearPendingEvent
    <2>1. notify["monitor"].at # "walk"
      BY <1>8 DEF ClearPendingEvent, MonitorWalk
    <2> QED
      BY <1>8, <2>1, RInvWalks DEF ClearPendingEvent, Walkers, eventVars, submitVars, histVars
  <1>9. CASE \E w \in Walkers : Notify(w)
    <2> SUFFICES ASSUME NEW w \in Walkers, Notify(w) PROVE RInv'
      BY <1>9
    <2>1. CASE Claim(w)
      BY <2>1, RInvClaim
    <2>2. CASE Walk(w)
      BY <2>2, RInvWalk
    <2>3. CASE EndNotify(w)
      BY <2>3, RInvWalks DEF EndNotify, eventVars, submitVars, histVars
    <2> QED
      BY <2>1, <2>2, <2>3 DEF Notify
  <1> QED
    BY <1>1, <1>2, <1>3, <1>4, <1>5, <1>6, <1>7, <1>8, <1>9
    DEF RecoveryNext, FinishSubmit, Recover

\* The property NeverTwice of the run allocators_recovery.
THEOREM PerformedOnce == RecoverySpec => []NeverTwice
  <1>1. RecoveryInit => RInv /\ MonitorWalk
    BY InitRInv DEF RecoveryInit, MonitorWalk, Walkers
  <1>2. RInv /\ MonitorWalk /\ [RecoveryNext]_recoveryVars => (RInv /\ MonitorWalk)'
    BY RInvNext, MonitorWalkNext DEF RInv
  <1>3. RInv => NeverTwice
    BY DEF RInv
  <1> QED
    BY <1>1, <1>2, <1>3, PTL DEF RecoverySpec

-----------------------------------------------------------------------------
(* What the recovery promises until it is mistaken about a slot of its mask. *)

InSubmit == submit.at \in {"count", "event", "execute"}

ETypes ==
    /\ submit \in [at : {"idle", "get", "count", "event", "execute"}, id : EventIDs,
                   commit : 0 .. MaxCommits]
    /\ ring \in Seq(EventIDs) /\ fe \in Nat /\ fe <= Len(ring)
    /\ raised \subseteq EventIDs /\ pendingEvent \subseteq EventIDs /\ pending \subseteq EventIDs
    /\ interruptCount \in Int /\ lastCommitStamp \in Nat
    /\ monitor \in [monitoring : BOOLEAN, timer : Nat, stamp : Nat, address : Nat,
                    mask : SUBSET EventIDs]
    /\ recovery \in {"idle", "reset", "set", "clear", "notify"}
    /\ skipped \subseteq Commits

\* How the counters go together.
Counters ==
    /\ lastCommitStamp = submit.commit
    /\ Len(ring) = IF submit.at = "idle" THEN submit.commit ELSE submit.commit - 1
    /\ hung => fe < Len(ring)
    /\ monitor.address <= Len(ring) /\ monitor.stamp <= lastCommitStamp

\* A commit keeps its slot until the front end has passed its EVENT.
InSlots ==
    /\ \A c \in fe + 1 .. Len(ring) : queues[ring[c]] = c
    /\ InSubmit => queues[submit.id] = submit.commit

\* The events with an interrupt to come, or to be handed over by the monitor.
PendingEventIs ==
    \A x \in EventIDs : x \in pendingEvent <=>
        \/ x \in raised
        \/ Busy(x) /\ queues[x] > fe /\ (queues[x] <= Len(ring) \/ submit.at = "execute")
        \/ recovery \in {"set", "clear"} /\ x \in monitor.mask

\* An interrupt is raised and pending only for a slot whose EVENT was passed;
\* the pending ones are the older ones.  A bit of the mask may be set again
\* behind the walk that emptied its slot, and then nobody gets that slot.
Passed ==
    /\ \A x \in raised : Busy(x) /\ queues[x] <= fe
    /\ \A x \in pending : Busy(x) => queues[x] <= fe
    /\ \A x \in pending, y \in raised : Busy(x) => queues[x] < queues[y]
    /\ \A x \in pending : Busy(x) \/ (recovery \in {"clear", "notify"} /\ x \in monitor.mask)

\* Only commits the front end has passed are walked and performed.
WalkedPassed ==
    /\ \A c \in Commits : performed[c] > 0 => c <= fe
    /\ \A w \in Walkers : notify[w].at = "walk" => notify[w].commit <= fe

\* A slot that holds a commit the reset has jumped over is about to be handed
\* over, or has been.
SkippedHeld ==
    /\ \A c \in skipped : c <= fe
    /\ \A x \in EventIDs : queues[x] \in skipped =>
        \/ recovery = "set" /\ x \in monitor.mask
        \/ recovery \in {"clear", "notify"} /\ x \in pending

\* The recorded mask is what the reset jumps over, and what is raised beside
\* the recovery is something else.
InReset ==
    /\ recovery = "reset" =>
        /\ hung /\ raised = {} /\ fe <= monitor.address
        /\ \A x \in EventIDs :
            x \in monitor.mask <=> Busy(x) /\ fe < queues[x] /\ queues[x] <= monitor.address
    /\ recovery \in {"reset", "set", "clear"} => monitor.mask \subseteq pendingEvent
    /\ recovery \in {"set", "clear", "notify"} => monitor.address <= fe /\ ~MaskReused
    /\ recovery \in {"set", "clear"} => \A x \in raised : queues[x] > monitor.address
    /\ monitor.monitoring /\ recovery = "idle" => monitor.timer \in {0, 1}

\* No submit has begun or ended since the monitor recorded the state.
Steady ==
    /\ monitor.monitoring /\ recovery = "idle"
    /\ monitor.stamp = lastCommitStamp /\ monitor.address = Len(ring)

\* The state that was recorded has changed, or a late submit changes it before
\* the next tick; or it looks unchanged because a slot was given away.
Changed == ~(monitor.mask \subseteq pendingEvent) \/ "submit" \in late \/ MaskReused

\* What the monitor may conclude from looking once, and then twice, at a state
\* that has not changed.
Watch == Steady =>
    /\ pendingEvent \subseteq
         monitor.mask \cup (IF submit.at = "execute" THEN {submit.id} ELSE {})
    /\ monitor.timer = 0 => Changed \/ hung \/ raised # {} \/ "frontEnd" \in late
    /\ monitor.timer = 1 => Changed \/ (hung /\ raised = {}) \/ "interrupt" \in late

Counted ==
    interruptCount = Cardinality(pendingEvent) + (IF submit.at = "event" THEN 1 ELSE 0)

Timing ==
    /\ ETypes /\ Counters /\ InSlots /\ PendingEventIs /\ Passed /\ WalkedPassed
    /\ SkippedHeld /\ InReset /\ Watch /\ Counted

EInv == RInv /\ MonitorWalk /\ (mistaken \/ Timing)

\* Nothing has begun.
LEMMA InitEInv == RecoveryInit => EInv
<1> SUFFICES ASSUME RecoveryInit PROVE EInv
  OBVIOUS
<1> USE RecoveryAssumption
<1>1. RInv /\ MonitorWalk
  BY InitRInv DEF RecoveryInit, MonitorWalk, Walkers
<1>2. ETypes
  <2>1. 0 \in EventIDs
    BY DEF EventIDs
  <2>2. monitor \in [monitoring : BOOLEAN, timer : Nat, stamp : Nat, address : Nat,
                     mask : SUBSET EventIDs]
    BY DEF RecoveryInit
  <2>3. ring \in Seq(EventIDs) /\ fe <= Len(ring)
    BY DEF RecoveryInit
  <2>. QED
    BY <2>1, <2>2, <2>3 DEF RecoveryInit, ETypes
<1>3. Counters /\ InSlots
  BY DEF RecoveryInit, Counters, InSlots, InSubmit
<1>4. PendingEventIs /\ Passed
  BY DEF RecoveryInit, PendingEventIs, Passed, Busy
<1>5. WalkedPassed /\ SkippedHeld
  BY DEF RecoveryInit, WalkedPassed, SkippedHeld
<1>6. InReset /\ Watch
  BY DEF RecoveryInit, InReset, Watch, Steady
<1>7. Counted
  BY FS_EmptySet DEF RecoveryInit, Counted
<1>. QED
  BY <1>1, <1>2, <1>3, <1>4, <1>5, <1>6, <1>7 DEF EInv, Timing

\* The events are finitely many.
LEMMA EventsFinite ==
    ASSUME NEW S \in SUBSET EventIDs
    PROVE  IsFiniteSet(S) /\ Cardinality(S) \in Nat
<1>1. IsFiniteSet(EventIDs)
  BY RecoveryAssumption, FS_Interval DEF EventIDs
<1>. QED
  BY <1>1, FS_Subset, FS_CardinalityType

\* A commit in a slot has begun.
LEMMA Begun ==
    ASSUME RInv, ETypes, NEW x \in EventIDs, Busy(x)
    PROVE  queues[x] \in Commits /\ queues[x] <= submit.commit
<1>1. queues[x] \in Commits
  BY RecoveryAssumption DEF RInv, RTypes, Busy, Commits
<1>2. ~Fresh(queues[x])
  BY <1>1 DEF RInv, FreshNowhere
<1>3. submit.commit \in Nat /\ queues[x] \in Nat
  BY <1>1 DEF ETypes, Commits
<1>. QED
  BY <1>1, <1>2, <1>3 DEF Fresh

\* The commit that is being submitted is in its slot, behind everything that the
\* front end can get to and that the monitor has recorded.
LEMMA Submitting ==
    ASSUME ETypes, Counters, InSlots, InSubmit
    PROVE  /\ submit.id \in EventIDs /\ queues[submit.id] = Len(ring) + 1
           /\ Len(ring) \in Nat /\ Busy(submit.id) /\ queues[submit.id] > fe
           /\ queues[submit.id] > monitor.address
<1>1. submit.id \in EventIDs /\ submit.commit \in Nat /\ Len(ring) \in Nat
      /\ fe \in Nat /\ fe <= Len(ring) /\ monitor.address \in Nat
      /\ monitor.address <= Len(ring)
  BY DEF ETypes, Counters
<1>2. queues[submit.id] = submit.commit /\ Len(ring) = submit.commit - 1
  BY DEF InSlots, Counters, InSubmit
<1>. QED
  BY <1>1, <1>2 DEF Busy

\* A submit begins: the state that the monitor has recorded is changed.
LEMMA BeginSubmitTiming ==
    ASSUME RInv, Timing, BeginSubmit PROVE Timing'
<1> USE RecoveryAssumption
<1>1. /\ ETypes /\ Counters /\ InSlots /\ PendingEventIs /\ Passed /\ WalkedPassed
      /\ SkippedHeld /\ InReset /\ Counted
  BY DEF Timing
<1>2. /\ submit.at = "idle" /\ submit.commit < MaxCommits
      /\ submit' = [submit EXCEPT !.at = "get", !.commit = @ + 1]
      /\ lastCommitStamp' = lastCommitStamp + 1
      /\ UNCHANGED <<queues, ring, fe, hung, raised, pendingEvent, interruptCount,
                     pending, wake, notify, monitor, recovery, late, performed, skipped>>
  BY DEF BeginSubmit, eventVars, feVars, countVars, monitorVars, histVars
<1>3. /\ submit'.at = "get" /\ submit'.commit = submit.commit + 1
      /\ submit.commit \in Nat /\ submit'.commit \in 0 .. MaxCommits
  BY <1>1, <1>2 DEF ETypes
<1>4. ETypes'
  <2>1. submit' \in [at : {"idle", "get", "count", "event", "execute"}, id : EventIDs,
                     commit : 0 .. MaxCommits]
    BY <1>1, <1>2, <1>3 DEF ETypes
  <2>. QED
    BY <1>1, <1>2, <2>1 DEF ETypes
<1>5. Counters'
  BY <1>1, <1>2, <1>3 DEF Counters, ETypes
<1>6. InSlots' /\ PendingEventIs' /\ Passed'
  BY <1>1, <1>2, <1>3 DEF InSlots, InSubmit, PendingEventIs, Passed, Busy
<1>7. WalkedPassed' /\ SkippedHeld' /\ InReset'
  BY <1>1, <1>2 DEF WalkedPassed, SkippedHeld, InReset, MaskReused, Busy
<1>8. Watch'
  <2>1. lastCommitStamp \in Nat /\ monitor.stamp \in Nat /\ monitor.stamp <= lastCommitStamp
    BY <1>1 DEF ETypes, Counters
  <2>2. monitor'.stamp = monitor.stamp /\ monitor.stamp # lastCommitStamp'
    BY <1>2, <2>1
  <2>. QED
    BY <2>2 DEF Watch, Steady
<1>9. Counted'
  BY <1>1, <1>2, <1>3 DEF Counted
<1>. QED
  BY <1>4, <1>5, <1>6, <1>7, <1>8, <1>9 DEF Timing

\* A slot that a submit gets beside a recovery is not one of the mask, unless
\* the recovery is mistaken about it from now on.
LEMMA GetSlotTiming ==
    ASSUME RInv, Timing, GetSlot, ~mistaken' PROVE Timing'
<1> USE RecoveryAssumption
<1>1. /\ ETypes /\ Counters /\ InSlots /\ PendingEventIs /\ Passed /\ WalkedPassed
      /\ SkippedHeld /\ InReset /\ Watch /\ Counted
  BY DEF Timing
<1>2. /\ submit.at = "get"
      /\ UNCHANGED <<lastCommitStamp, ring, fe, hung, raised, pendingEvent, interruptCount,
                     pending, wake, notify, monitor, recovery, late, performed, skipped>>
      /\ recovery # "idle" => ~MaskReused'
  BY DEF GetSlot, feVars, countVars, monitorVars
<1>3. PICK i \in EventIDs :
        /\ ~Busy(i)
        /\ queues' = [queues EXCEPT ![i] = submit.commit]
        /\ submit' = [submit EXCEPT !.at = "count", !.id = i]
  BY DEF GetSlot
<1>4. /\ submit'.at = "count" /\ submit'.id = i /\ submit'.commit = submit.commit
      /\ submit.commit \in Commits
  BY <1>1, <1>2, <1>3 DEF ETypes, RInv, RTypes
<1>5. \A j \in EventIDs : queues'[j] = IF j = i THEN submit.commit ELSE queues[j]
  BY <1>3 DEF RInv, RTypes
<1>6. /\ Len(ring) < submit.commit /\ fe < submit.commit /\ monitor.address < submit.commit
      /\ Len(ring) \in Nat /\ fe \in Nat /\ monitor.address \in Nat /\ submit.commit \in Nat
  BY <1>1, <1>2, <1>4 DEF Counters, ETypes, Commits
<1>7. \A x \in EventIDs : Busy(x) => x # i /\ queues'[x] = queues[x]
  BY <1>3, <1>5
<1>8. \A x \in EventIDs : Busy(x)' <=> Busy(x) \/ x = i
  BY <1>4, <1>5 DEF Busy, Commits
<1>9. recovery # "idle" => i \notin monitor.mask
  BY <1>2, <1>5, <1>6 DEF MaskReused
<1>10. i \notin pendingEvent /\ i \notin pending /\ i \notin raised
  BY <1>1, <1>3, <1>9 DEF PendingEventIs, Passed
<1>11. ETypes'
  <2>1. submit' \in [at : {"idle", "get", "count", "event", "execute"}, id : EventIDs,
                     commit : 0 .. MaxCommits]
    BY <1>1, <1>3 DEF ETypes
  <2>. QED
    BY <1>1, <1>2, <2>1 DEF ETypes
<1>12. Counters'
  BY <1>1, <1>2, <1>4 DEF Counters
<1>13. InSlots'
  <2>1. \A c \in fe + 1 .. Len(ring) : ring[c] \in EventIDs /\ queues[ring[c]] = c /\ c # 0
    BY <1>1 DEF InSlots, ETypes
  <2>2. \A c \in fe + 1 .. Len(ring) : ring[c] # i
    BY <1>3, <2>1 DEF Busy
  <2>. QED
    BY <1>2, <1>4, <1>5, <2>1, <2>2 DEF InSlots
<1>14. PendingEventIs'
  <2>1. ASSUME NEW x \in EventIDs
        PROVE  Busy(x)' /\ queues'[x] > fe /\ queues'[x] <= Len(ring) <=>
               Busy(x) /\ queues[x] > fe /\ queues[x] <= Len(ring)
    BY <1>5, <1>6, <1>7, <1>8
  <2>. QED
    BY <1>1, <1>2, <1>4, <2>1 DEF PendingEventIs
<1>15. \A x \in raised \cup pending : x \in EventIDs /\ queues'[x] = queues[x]
                                      /\ (Busy(x)' <=> Busy(x))
  BY <1>1, <1>5, <1>8, <1>10 DEF ETypes
<1>16. Passed'
  BY <1>1, <1>2, <1>15 DEF Passed
<1>17. WalkedPassed'
  BY <1>1, <1>2 DEF WalkedPassed
<1>18. SkippedHeld'
  <2>1. submit.commit \notin skipped
    BY <1>1, <1>6 DEF SkippedHeld
  <2>2. \A x \in EventIDs : queues'[x] \in skipped => queues[x] \in skipped
    BY <1>5, <2>1
  <2>. QED
    BY <1>1, <1>2, <2>2 DEF SkippedHeld
<1>19. InReset'
  <2>1. ASSUME NEW x \in EventIDs
        PROVE  Busy(x)' /\ fe < queues'[x] /\ queues'[x] <= monitor.address <=>
               Busy(x) /\ fe < queues[x] /\ queues[x] <= monitor.address
    BY <1>5, <1>6, <1>7, <1>8
  <2>2. recovery = "reset" =>
          /\ hung' /\ raised' = {} /\ fe' <= monitor'.address
          /\ \A x \in EventIDs :
               x \in monitor'.mask <=> Busy(x)' /\ fe' < queues'[x] /\ queues'[x] <= monitor'.address
    BY <1>1, <1>2, <2>1 DEF InReset
  <2>3. recovery \in {"set", "clear", "notify"} => monitor'.address <= fe' /\ ~MaskReused'
    BY <1>1, <1>2 DEF InReset
  <2>4. recovery \in {"set", "clear"} => \A x \in raised' : queues'[x] > monitor'.address
    BY <1>1, <1>2, <1>15 DEF InReset
  <2>. QED
    BY <1>1, <1>2, <2>2, <2>3, <2>4 DEF InReset
<1>20. Watch'
  <2>1. MaskReused => MaskReused'
    <3>1. SUFFICES ASSUME NEW k \in monitor.mask, queues[k] > monitor.address
                   PROVE  queues'[k] = queues[k]
      BY <1>2 DEF MaskReused
    <3>2. k \in EventIDs
      BY <1>1 DEF ETypes
    <3>. QED
      BY <1>6, <1>7, <3>1, <3>2 DEF Busy
  <2>2. Changed => Changed'
    BY <1>2, <2>1 DEF Changed
  <2>. QED
    BY <1>1, <1>2, <1>4, <2>2 DEF Watch, Steady
<1>21. Counted'
  BY <1>1, <1>2, <1>4 DEF Counted
<1>. QED
  BY <1>11, <1>12, <1>13, <1>14, <1>16, <1>17, <1>18, <1>19, <1>20, <1>21 DEF Timing

\* The count is raised in front of the mask.
LEMMA CountTiming ==
    ASSUME RInv, Timing, Count PROVE Timing'
<1>1. /\ ETypes /\ Counters /\ InSlots /\ PendingEventIs /\ Passed /\ WalkedPassed
      /\ SkippedHeld /\ InReset /\ Watch /\ Counted
  BY DEF Timing
<1>2. /\ submit.at = "count"
      /\ interruptCount' = interruptCount + 1
      /\ submit' = [submit EXCEPT !.at = "event"]
      /\ UNCHANGED <<queues, lastCommitStamp, ring, fe, hung, raised, pendingEvent,
                     pending, wake, notify, monitor, recovery, late, performed, skipped>>
  BY DEF Count, eventVars, feVars, monitorVars, histVars
<1>3. submit'.at = "event" /\ submit'.commit = submit.commit /\ submit'.id = submit.id
  BY <1>1, <1>2 DEF ETypes
<1>4. ETypes'
  <2>1. submit' \in [at : {"idle", "get", "count", "event", "execute"}, id : EventIDs,
                     commit : 0 .. MaxCommits]
    BY <1>1, <1>2 DEF ETypes
  <2>. QED
    BY <1>1, <1>2, <2>1 DEF ETypes
<1>5. Counters' /\ InSlots'
  BY <1>1, <1>2, <1>3 DEF Counters, InSlots, InSubmit
<1>6. PendingEventIs' /\ Passed'
  BY <1>1, <1>2, <1>3 DEF PendingEventIs, Passed, Busy
<1>7. WalkedPassed' /\ SkippedHeld' /\ InReset'
  BY <1>1, <1>2 DEF WalkedPassed, SkippedHeld, InReset, MaskReused, Busy
<1>8. Watch'
  BY <1>1, <1>2, <1>3 DEF Watch, Steady, Changed, MaskReused
<1>9. Counted'
  <2>2. Cardinality(pendingEvent) \in Nat
    BY <1>1, EventsFinite DEF ETypes
  <2>. QED
    BY <1>1, <1>2, <1>3, <2>2 DEF Counted
<1>. QED
  BY <1>4, <1>5, <1>6, <1>7, <1>8, <1>9 DEF Timing

\* The slot of the submit is not among the pending events yet.  If it is in the
\* recorded mask, it was given to this commit behind the monitor's back.
LEMMA WriteEventTiming ==
    ASSUME RInv, Timing, WriteEvent PROVE Timing'
<1> USE RecoveryAssumption
<1>1. /\ ETypes /\ Counters /\ InSlots /\ PendingEventIs /\ Passed /\ WalkedPassed
      /\ SkippedHeld /\ InReset /\ Watch /\ Counted
  BY DEF Timing
<1>2. /\ submit.at = "event"
      /\ pendingEvent' = pendingEvent \cup {submit.id}
      /\ submit' = [submit EXCEPT !.at = "execute"]
      /\ UNCHANGED <<queues, lastCommitStamp, ring, fe, hung, raised, interruptCount,
                     pending, wake, notify, monitor, recovery, late, performed, skipped>>
  BY DEF WriteEvent, eventVars, feVars, monitorVars, histVars
<1>3. /\ submit'.at = "execute" /\ submit'.commit = submit.commit /\ submit'.id = submit.id
      /\ submit.id \in EventIDs /\ submit.commit \in Nat
  BY <1>1, <1>2 DEF ETypes
<1>4. ETypes'
  <2>1. submit' \in [at : {"idle", "get", "count", "event", "execute"}, id : EventIDs,
                     commit : 0 .. MaxCommits]
    BY <1>1, <1>2 DEF ETypes
  <2>. QED
    BY <1>1, <1>2, <1>3, <2>1 DEF ETypes
<1>5. Counters' /\ InSlots'
  BY <1>1, <1>2, <1>3 DEF Counters, InSlots, InSubmit
<1>6. /\ queues[submit.id] = Len(ring) + 1 /\ Len(ring) \in Nat
      /\ Busy(submit.id) /\ queues[submit.id] > fe /\ queues[submit.id] > monitor.address
      /\ fe \in Nat
  <2>1. InSubmit
    BY <1>2 DEF InSubmit
  <2>. QED
    BY <1>1, <2>1, Submitting DEF ETypes
<1>7. ~(queues[submit.id] <= fe) /\ ~(queues[submit.id] <= Len(ring))
  BY <1>6
<1>8. submit.id \in monitor.mask => MaskReused
  BY <1>6 DEF MaskReused
<1>9. submit.id \notin pendingEvent
  BY <1>1, <1>2, <1>3, <1>7, <1>8 DEF PendingEventIs, Passed, InReset
<1>10. PendingEventIs'
  <2>1. ASSUME NEW x \in EventIDs
        PROVE  Busy(x) /\ queues[x] > fe <=>
               (Busy(x) /\ queues[x] > fe /\ queues[x] <= Len(ring)) \/ x = submit.id
    <3>1. CASE x = submit.id
      BY <1>6, <3>1
    <3>2. CASE x # submit.id
      <4>1. Busy(x) => queues[x] # queues[submit.id] /\ queues[x] \in Nat
                       /\ queues[x] <= submit.commit
        BY <1>1, <1>3, <3>2, Begun DEF RInv, OneSlot, Commits
      <4>2. Len(ring) = submit.commit - 1
        BY <1>1, <1>2 DEF Counters
      <4>. QED
        BY <1>3, <1>6, <3>2, <4>1, <4>2
    <3>. QED
      BY <3>1, <3>2
  <2>. QED
    BY <1>1, <1>2, <1>3, <2>1 DEF PendingEventIs, Busy
<1>11. Passed'
  BY <1>1, <1>2 DEF Passed, Busy
<1>12. WalkedPassed' /\ SkippedHeld'
  BY <1>1, <1>2 DEF WalkedPassed, SkippedHeld
<1>13. InReset'
  BY <1>1, <1>2 DEF InReset, MaskReused, Busy
<1>14. Watch'
  <2>1. MaskReused' <=> MaskReused
    BY <1>2 DEF MaskReused
  <2>2. Changed => Changed'
    BY <1>2, <1>8, <2>1 DEF Changed
  <2>. QED
    BY <1>1, <1>2, <1>3, <2>2 DEF Watch, Steady
<1>15. Counted'
  <2>1. IsFiniteSet(pendingEvent) /\ Cardinality(pendingEvent) \in Nat
    BY <1>1, EventsFinite DEF ETypes
  <2>2. Cardinality(pendingEvent') = Cardinality(pendingEvent) + 1
    BY <1>2, <1>9, <2>1, FS_AddElement
  <2>. QED
    BY <1>1, <1>2, <1>3, <2>1, <2>2 DEF Counted
<1>. QED
  BY <1>4, <1>5, <1>10, <1>11, <1>12, <1>13, <1>14, <1>15 DEF Timing

\* The end of the queue moves: the state that the monitor has recorded is
\* changed.
LEMMA ExecuteEventTiming ==
    ASSUME RInv, Timing, ExecuteEvent PROVE Timing'
<1> USE RecoveryAssumption
<1>1. /\ ETypes /\ Counters /\ InSlots /\ PendingEventIs /\ Passed /\ WalkedPassed
      /\ SkippedHeld /\ InReset /\ Counted
  BY DEF Timing
<1>2. /\ submit.at = "execute"
      /\ ring' = Append(ring, submit.id)
      /\ submit' = [submit EXCEPT !.at = "idle"]
      /\ UNCHANGED <<queues, lastCommitStamp, fe, hung, raised, pendingEvent,
                     interruptCount, pending, wake, notify, monitor, recovery, performed,
                     skipped>>
  BY DEF ExecuteEvent, eventVars, countVars, monitorVars, histVars
<1>3. /\ submit'.at = "idle" /\ submit'.commit = submit.commit /\ submit'.id = submit.id
      /\ submit.id \in EventIDs /\ submit.commit \in Nat
  BY <1>1, <1>2 DEF ETypes
<1>4. /\ ring' \in Seq(EventIDs) /\ Len(ring) \in Nat /\ Len(ring') = Len(ring) + 1
      /\ \A c \in 1 .. Len(ring) : ring'[c] = ring[c]
      /\ ring'[Len(ring) + 1] = submit.id
  BY <1>1, <1>2, <1>3 DEF ETypes
<1>5. Len(ring) = submit.commit - 1 /\ queues[submit.id] = submit.commit
  BY <1>1, <1>2 DEF Counters, InSlots, InSubmit
<1>6. ETypes'
  <2>1. submit' \in [at : {"idle", "get", "count", "event", "execute"}, id : EventIDs,
                     commit : 0 .. MaxCommits]
    BY <1>1, <1>2 DEF ETypes
  <2>. QED
    BY <1>1, <1>2, <1>4, <2>1 DEF ETypes
<1>7. Counters'
  <2>1. monitor.address \in Nat /\ fe \in Nat
    BY <1>1 DEF ETypes
  <2>. QED
    BY <1>1, <1>2, <1>3, <1>4, <1>5, <2>1 DEF Counters
<1>8. InSlots'
  <2>1. ASSUME NEW c \in fe + 1 .. Len(ring) + 1 PROVE queues[ring'[c]] = c
    <3>1. CASE c = Len(ring) + 1
      BY <1>3, <1>4, <1>5, <3>1
    <3>2. CASE c # Len(ring) + 1
      <4>1. c \in fe + 1 .. Len(ring) /\ c \in 1 .. Len(ring)
        BY <1>1, <1>4, <3>2 DEF ETypes
      <4>. QED
        BY <1>1, <1>4, <4>1 DEF InSlots
    <3>. QED
      BY <3>1, <3>2
  <2>. QED
    BY <1>2, <1>3, <1>4, <2>1 DEF InSlots, InSubmit
<1>9. PendingEventIs'
  <2>1. \A x \in EventIDs : Busy(x) => queues[x] <= Len(ring')
    <3>1. \A x \in EventIDs : Busy(x) => queues[x] \in Nat /\ queues[x] <= submit.commit
      BY <1>1, Begun DEF Commits
    <3>. QED
      BY <1>3, <1>4, <1>5, <3>1
  <2>. QED
    BY <1>1, <1>2, <1>3, <2>1 DEF PendingEventIs, Busy
<1>10. Passed' /\ WalkedPassed' /\ SkippedHeld' /\ InReset'
  <2>1. Passed' /\ WalkedPassed'
    BY <1>1, <1>2 DEF Passed, WalkedPassed, Busy
  <2>2. SkippedHeld' /\ InReset'
    BY <1>1, <1>2 DEF SkippedHeld, InReset, MaskReused, Busy
  <2>. QED
    BY <2>1, <2>2
<1>11. Watch'
  <2>1. monitor.address \in Nat /\ monitor.address <= Len(ring) /\ monitor'.address = monitor.address
    BY <1>1, <1>2 DEF ETypes, Counters
  <2>2. monitor.address # Len(ring')
    BY <1>4, <2>1
  <2>. QED
    BY <2>1, <2>2 DEF Watch, Steady
<1>12. Counted'
  BY <1>1, <1>2, <1>3 DEF Counted
<1>. QED
  BY <1>6, <1>7, <1>8, <1>9, <1>10, <1>11, <1>12 DEF Timing

\* The front end passes an EVENT: its slot is the oldest that it has not passed,
\* and behind a reset it is not one of the mask.
LEMMA PassTiming ==
    ASSUME RInv, Timing, Pass PROVE Timing'
<1>1. /\ ETypes /\ Counters /\ InSlots /\ PendingEventIs /\ Passed /\ WalkedPassed
      /\ SkippedHeld /\ InReset /\ Watch /\ Counted
  BY DEF Timing
<1> DEFINE e == ring[fe + 1]
<1>2. /\ ~hung /\ fe < Len(ring)
      /\ fe' = fe + 1 /\ raised' = raised \cup {e} /\ late' = late \ {"frontEnd"}
      /\ UNCHANGED <<queues, submit, lastCommitStamp, ring, hung, pendingEvent,
                     interruptCount, pending, wake, notify, monitor, recovery, performed,
                     skipped>>
  BY DEF Pass, eventVars, submitVars, countVars, monitorVars, histVars
<1>3. recovery # "reset"
  BY <1>1, <1>2 DEF InReset
<1>4. fe \in Nat /\ Len(ring) \in Nat /\ fe + 1 \in 1 .. Len(ring) /\ fe + 1 \in fe + 1 .. Len(ring)
  <2>1. fe \in Nat /\ Len(ring) \in Nat
    BY <1>1 DEF ETypes
  <2>. QED
    BY <1>2, <2>1
<1>5. e \in EventIDs /\ queues[e] = fe + 1 /\ Busy(e)
  BY <1>1, <1>4 DEF ETypes, InSlots, Busy
<1>6. \A x \in EventIDs : Busy(x) /\ queues[x] = fe + 1 => x = e
  BY <1>1, <1>5 DEF RInv, OneSlot
<1>7. \A x \in EventIDs : queues[x] \in Nat
  BY <1>1, RecoveryAssumption DEF RInv, RTypes
<1> HIDE DEF e
<1>8. ETypes' /\ Counters'
  BY <1>1, <1>2, <1>4, <1>5 DEF ETypes, Counters
<1>9. InSlots'
  BY <1>1, <1>2, <1>4 DEF InSlots, InSubmit
<1>10. PendingEventIs'
  <2>1. ASSUME NEW x \in EventIDs
        PROVE  x \in raised' \/ (Busy(x) /\ queues[x] > fe + 1
                                 /\ (queues[x] <= Len(ring) \/ submit.at = "execute")) <=>
               x \in raised \/ (Busy(x) /\ queues[x] > fe
                                /\ (queues[x] <= Len(ring) \/ submit.at = "execute"))
    <3>1. CASE x = e
      BY <1>2, <1>4, <1>5, <3>1
    <3>2. CASE x # e
      BY <1>2, <1>4, <1>6, <1>7, <3>2
    <3>. QED
      BY <3>1, <3>2
  <2>. QED
    BY <1>1, <1>2, <2>1 DEF PendingEventIs, Busy
<1>11. Passed'
  <2>1. \A x \in raised \cup pending : x \in EventIDs /\ queues[x] \in Nat
    BY <1>1, <1>7 DEF ETypes
  <2>2. \A x \in raised' : Busy(x) /\ queues[x] <= fe + 1
    BY <1>1, <1>2, <1>4, <1>5, <2>1 DEF Passed
  <2>3. \A x \in pending : Busy(x) => queues[x] <= fe + 1
    BY <1>1, <1>4, <2>1 DEF Passed
  <2>4. \A x \in pending, y \in raised' : Busy(x) => queues[x] < queues[y]
    BY <1>1, <1>2, <1>4, <1>5, <2>1 DEF Passed
  <2>. QED
    BY <1>1, <1>2, <2>2, <2>3, <2>4 DEF Passed, Busy
<1>12. WalkedPassed' /\ SkippedHeld'
  <2>1. \A c \in Commits : c \in Nat
    BY DEF Commits
  <2>2. \A w \in Walkers : notify[w].commit \in Nat
    BY <1>1, RecoveryAssumption DEF RInv, RTypes
  <2>3. \A c \in skipped : c \in Nat
    BY <1>1, <2>1 DEF ETypes
  <2>4. WalkedPassed'
    BY <1>1, <1>2, <1>4, <2>1, <2>2 DEF WalkedPassed
  <2>5. SkippedHeld'
    BY <1>1, <1>2, <1>4, <2>3 DEF SkippedHeld
  <2>. QED
    BY <2>4, <2>5
<1>13. InReset'
  <2>1. monitor.address \in Nat
    BY <1>1 DEF ETypes
  <2>2. recovery \in {"set", "clear", "notify"} => monitor.address <= fe + 1
    BY <1>1, <1>4, <2>1 DEF InReset
  <2>3. recovery \in {"set", "clear"} => \A x \in raised' : queues[x] > monitor.address
    BY <1>1, <1>2, <1>4, <1>5, <2>1 DEF InReset
  <2>. QED
    BY <1>1, <1>2, <1>3, <2>2, <2>3 DEF InReset, MaskReused
<1>14. Watch'
  BY <1>1, <1>2 DEF Watch, Steady, Changed, MaskReused
<1>15. Counted'
  BY <1>1, <1>2 DEF Counted
<1>. QED
  BY <1>8, <1>9, <1>10, <1>11, <1>12, <1>13, <1>14, <1>15 DEF Timing

\* The front end hangs, with work in front of it.
LEMMA HangTiming ==
    ASSUME RInv, Timing, Hang PROVE Timing'
<1>1. /\ ETypes /\ Counters /\ InSlots /\ PendingEventIs /\ Passed /\ WalkedPassed
      /\ SkippedHeld /\ InReset /\ Watch /\ Counted
  BY DEF Timing
<1>2. /\ ~hung /\ hung' = TRUE /\ fe < Len(ring) /\ late' = late \ {"frontEnd"}
      /\ UNCHANGED <<queues, submit, lastCommitStamp, ring, fe, raised, pendingEvent,
                     interruptCount, pending, wake, notify, monitor, recovery, performed,
                     skipped>>
  BY DEF Hang, eventVars, submitVars, countVars, monitorVars, histVars
<1>3. ETypes' /\ Counters'
  BY <1>1, <1>2 DEF ETypes, Counters
<1>4. InSlots' /\ PendingEventIs' /\ Passed'
  BY <1>1, <1>2 DEF Busy, InSlots, InSubmit, PendingEventIs, Passed
<1>5. WalkedPassed' /\ SkippedHeld' /\ InReset'
  BY <1>1, <1>2 DEF WalkedPassed, SkippedHeld, InReset, MaskReused, Busy
<1>6. Watch'
  BY <1>1, <1>2 DEF Watch, Steady, Changed, MaskReused
<1>7. Counted'
  BY <1>1, <1>2 DEF Counted
<1>. QED
  BY <1>3, <1>4, <1>5, <1>6, <1>7 DEF Timing

\* The interrupt changes the mask that the monitor has recorded; beside a
\* recovery it is of other slots than the mask.
LEMMA TakeInterruptTiming ==
    ASSUME RInv, Timing, TakeInterrupt PROVE Timing'
<1>1. /\ ETypes /\ Counters /\ InSlots /\ PendingEventIs /\ Passed /\ WalkedPassed
      /\ SkippedHeld /\ InReset /\ Watch /\ Counted
  BY DEF Timing
<1>2. /\ raised # {} /\ raised' = {} /\ pendingEvent' = pendingEvent \ raised
      /\ pending' = pending \cup raised
      /\ interruptCount' = interruptCount - Cardinality(raised)
      /\ late' = late \ {"interrupt"}
      /\ UNCHANGED <<queues, submit, lastCommitStamp, ring, fe, hung, notify, monitor,
                     recovery, performed, skipped>>
  BY DEF TakeInterrupt, eventVars, submitVars, feVars, monitorVars, histVars
<1>3. recovery # "reset"
  BY <1>1, <1>2 DEF InReset
<1>4. raised \subseteq pendingEvent
  BY <1>1 DEF ETypes, PendingEventIs
<1>5. \A x \in raised : /\ x \in EventIDs /\ queues[x] \in Nat
                        /\ Busy(x) /\ queues[x] <= fe /\ ~(queues[x] > fe)
  <2>1. \A x \in raised : x \in EventIDs /\ Busy(x) /\ queues[x] <= fe /\ queues[x] \in Nat
    BY <1>1, RecoveryAssumption DEF ETypes, Passed, RInv, RTypes
  <2>. QED
    BY <1>1, <2>1 DEF ETypes
<1>6. recovery \in {"set", "clear"} => \A x \in raised : x \notin monitor.mask
  <2>1. SUFFICES ASSUME recovery \in {"set", "clear"}, NEW x \in raised, x \in monitor.mask
                 PROVE  FALSE
    OBVIOUS
  <2>2. queues[x] > monitor.address /\ ~MaskReused
    BY <1>1, <2>1 DEF InReset
  <2>. QED
    BY <2>1, <2>2 DEF MaskReused
<1>7. ETypes' /\ Counters'
  BY <1>1, <1>2, EventsFinite DEF ETypes, Counters
<1>8. InSlots'
  BY <1>1, <1>2 DEF InSlots, InSubmit
<1>9. PendingEventIs'
  BY <1>1, <1>2, <1>5, <1>6 DEF PendingEventIs, Busy
<1>10. Passed'
  BY <1>1, <1>2, <1>5 DEF Passed, Busy
<1>11. WalkedPassed' /\ SkippedHeld'
  BY <1>1, <1>2 DEF WalkedPassed, SkippedHeld
<1>12. InReset'
  <2>1. recovery \in {"set", "clear"} => monitor.mask \subseteq pendingEvent'
    BY <1>1, <1>2, <1>6 DEF InReset
  <2>. QED
    BY <1>1, <1>2, <1>3, <2>1 DEF InReset, MaskReused
<1>13. Watch'
  <2>1. SUFFICES ASSUME Steady PROVE Watch'
    BY <1>2 DEF Watch, Steady
  <2>2. PICK x \in raised : TRUE
    BY <1>2
  <2>3. x \in pendingEvent /\ x \notin pendingEvent'
    BY <1>2, <1>4, <2>2
  <2>4. submit.at = "execute" => x # submit.id
    <3>1. SUFFICES ASSUME submit.at = "execute" PROVE queues[x] # queues[submit.id]
      OBVIOUS
    <3>2. InSubmit
      BY <3>1 DEF InSubmit
    <3>3. queues[submit.id] > fe
      BY <1>1, <3>2, Submitting
    <3>. QED
      BY <1>5, <2>2, <3>3
  <2>5. x \in monitor.mask
    BY <1>1, <2>1, <2>3, <2>4 DEF Watch
  <2>6. Changed'
    BY <1>2, <2>3, <2>5 DEF Changed
  <2>7. pendingEvent' \subseteq pendingEvent
    BY <1>2
  <2>. QED
    BY <1>1, <1>2, <2>1, <2>6, <2>7 DEF Watch
<1>14. Counted'
  <2>1. /\ IsFiniteSet(pendingEvent) /\ Cardinality(pendingEvent) \in Nat
        /\ IsFiniteSet(raised) /\ Cardinality(raised) \in Nat
    BY <1>1, EventsFinite DEF ETypes
  <2>2. Cardinality(pendingEvent') = Cardinality(pendingEvent) - Cardinality(raised)
    <3>1. pendingEvent \cap raised = raised
      BY <1>4
    <3>2. Cardinality(pendingEvent \ raised) =
            Cardinality(pendingEvent) - Cardinality(pendingEvent \cap raised)
      BY <2>1, FS_Difference
    <3>. QED
      BY <1>2, <3>1, <3>2
  <2>. QED
    BY <1>1, <1>2, <2>1, <2>2 DEF Counted, ETypes
<1>. QED
  BY <1>7, <1>8, <1>9, <1>10, <1>11, <1>12, <1>13, <1>14 DEF Timing

\* The interrupt thread wakes.
LEMMA WakeThreadTiming ==
    ASSUME RInv, Timing, WakeThread PROVE Timing'
<1>1. /\ ETypes /\ Counters /\ InSlots /\ PendingEventIs /\ Passed /\ WalkedPassed
      /\ SkippedHeld /\ InReset /\ Watch /\ Counted
  BY DEF Timing
<1>2. /\ notify' = [notify EXCEPT !["interrupt"].at = "loop"]
      /\ UNCHANGED <<queues, submit, lastCommitStamp, ring, fe, hung, raised,
                     pendingEvent, interruptCount, pending, monitor, recovery, late, performed,
                     skipped>>
  BY DEF WakeThread, eventVars, submitVars, feVars, countVars, monitorVars, histVars
<1>3. /\ \A w \in Walkers : notify'[w].at = "walk" => notify[w].at = "walk"
      /\ \A w \in Walkers : notify'[w].commit = notify[w].commit
  BY <1>1, <1>2 DEF RInv, RTypes, Walkers
<1>4. ETypes' /\ Counters'
  BY <1>1, <1>2 DEF ETypes, Counters
<1>5. InSlots' /\ PendingEventIs' /\ Passed'
  BY <1>1, <1>2 DEF Busy, InSlots, InSubmit, PendingEventIs, Passed
<1>6. WalkedPassed'
  BY <1>1, <1>2, <1>3 DEF WalkedPassed
<1>7. SkippedHeld' /\ InReset'
  BY <1>1, <1>2 DEF SkippedHeld, InReset, MaskReused, Busy
<1>8. Watch'
  BY <1>1, <1>2 DEF Watch, Steady, Changed, MaskReused
<1>9. Counted'
  BY <1>1, <1>2 DEF Counted
<1>. QED
  BY <1>4, <1>5, <1>6, <1>7, <1>8, <1>9 DEF Timing

\* The oldest slot, if any is triggered, is one the front end has passed and
\* whose interrupt has been taken.
LEMMA OldestPassed ==
    ASSUME RInv, Timing, NEW i \in EventIDs, Oldest(i), Triggered # {}
    PROVE  queues[i] \in Commits /\ queues[i] <= fe /\ i \notin raised
<1>1. ETypes /\ Passed
  BY DEF Timing
<1>2. PICK k \in pending : Busy(k)
  BY DEF Triggered
<1>3. Busy(i) /\ queues[i] <= queues[k] /\ queues[k] <= fe /\ k \in EventIDs
  BY <1>1, <1>2 DEF Oldest, Passed, ETypes
<1>4. fe \in Nat /\ queues[i] \in Nat /\ queues[k] \in Nat /\ queues[i] \in Commits
  BY <1>1, <1>3, RecoveryAssumption DEF ETypes, RInv, RTypes, Busy, Commits
<1>5. queues[i] <= fe
  BY <1>3, <1>4
<1>6. i \notin raised
  BY <1>1, <1>2, <1>3, <1>4 DEF Passed
<1>. QED
  BY <1>4, <1>5, <1>6

\* A walk claims what the front end has passed.
LEMMA ClaimTiming ==
    ASSUME RInv, Timing, NEW w \in Walkers, Claim(w) PROVE Timing'
<1>1. /\ ETypes /\ Counters /\ InSlots /\ PendingEventIs /\ Passed /\ WalkedPassed
      /\ SkippedHeld /\ InReset /\ Watch /\ Counted
  BY DEF Timing
<1>2. /\ Triggered # {}
      /\ UNCHANGED <<submit, lastCommitStamp, ring, fe, hung, raised, pendingEvent,
                     interruptCount, wake, monitor, recovery, late, performed, skipped>>
  BY DEF Claim, submitVars, feVars, countVars, monitorVars, histVars
<1>3. PICK i \in EventIDs :
        /\ Oldest(i)
        /\ pending' = pending \ {i}
        /\ notify' = [notify EXCEPT ![w] = [at |-> "walk", commit |-> queues[i]]]
        /\ queues' = [queues EXCEPT ![i] = 0]
  BY DEF Claim
<1>4. queues[i] \in Commits /\ queues[i] <= fe /\ i \notin raised
  BY <1>2, <1>3, OldestPassed
<1>5. /\ fe \in Nat /\ queues[i] \in Nat /\ Len(ring) \in Nat /\ fe <= Len(ring)
      /\ monitor.address \in Nat
  BY <1>1, <1>4 DEF ETypes, Commits
<1>6. \A j \in EventIDs : queues'[j] = IF j = i THEN 0 ELSE queues[j]
  BY <1>1, <1>3 DEF RInv, RTypes
<1>7. \A j \in EventIDs : Busy(j)' <=> Busy(j) /\ j # i
  BY <1>6 DEF Busy
<1>8. \A v \in Walkers :
        notify'[v] = IF v = w THEN [at |-> "walk", commit |-> queues[i]] ELSE notify[v]
  BY <1>1, <1>3 DEF RInv, RTypes
<1>9. ETypes' /\ Counters'
  BY <1>1, <1>2, <1>3 DEF ETypes, Counters
<1>10. InSlots'
  <2>1. ASSUME NEW c \in fe + 1 .. Len(ring) PROVE queues'[ring[c]] = c
    <3>1. c \in Int /\ c > fe /\ c \in 1 .. Len(ring)
      BY <1>5
    <3>2. ring[c] \in EventIDs /\ queues[ring[c]] = c
      BY <1>1, <3>1 DEF InSlots, ETypes
    <3>3. ring[c] # i
      BY <1>4, <1>5, <3>1, <3>2
    <3>. QED
      BY <1>6, <3>2, <3>3
  <2>2. InSubmit => queues'[submit.id] = submit.commit
    <3>1. SUFFICES ASSUME InSubmit PROVE queues'[submit.id] = submit.commit
      OBVIOUS
    <3>2. queues[submit.id] = submit.commit /\ submit.id \in EventIDs
      BY <1>1, <3>1 DEF InSlots, ETypes
    <3>3. queues[submit.id] > fe
      BY <1>1, <3>1, Submitting
    <3>4. submit.id # i
      BY <1>4, <1>5, <3>3
    <3>. QED
      BY <1>6, <3>2, <3>4
  <2>. QED
    BY <1>2, <2>1, <2>2 DEF InSlots, InSubmit
<1>11. PendingEventIs'
  <2>1. ~(queues[i] > fe)
    BY <1>4, <1>5
  <2>2. \A x \in EventIDs : Busy(x)' /\ queues'[x] > fe <=> Busy(x) /\ queues[x] > fe
    BY <1>6, <1>7, <2>1
  <2>3. \A x \in EventIDs : Busy(x)' => queues'[x] = queues[x]
    BY <1>6, <1>7
  <2>. QED
    BY <1>1, <1>2, <2>2, <2>3 DEF PendingEventIs
<1>12. \A x \in EventIDs : x # i => queues'[x] = queues[x] /\ (Busy(x)' <=> Busy(x))
  BY <1>6, <1>7
<1>13. Passed'
  <2>1. \A x \in raised \cup pending : x \in EventIDs
    BY <1>1 DEF ETypes
  <2>2. \A x \in raised : x # i
    BY <1>4
  <2>. QED
    BY <1>1, <1>2, <1>3, <1>12, <2>1, <2>2 DEF Passed
<1>14. WalkedPassed'
  BY <1>1, <1>2, <1>4, <1>8 DEF WalkedPassed
<1>15. SkippedHeld'
  <2>1. 0 \notin skipped
    BY <1>1 DEF ETypes, Commits
  <2>2. \A x \in EventIDs : queues'[x] \in skipped => x # i /\ queues[x] \in skipped
    BY <1>6, <2>1
  <2>. QED
    BY <1>1, <1>2, <1>3, <2>2 DEF SkippedHeld
<1>16. MaskReused' => MaskReused
  <2>1. \A x \in monitor.mask : x \in EventIDs
    BY <1>1 DEF ETypes
  <2>. QED
    BY <1>2, <1>5, <1>6, <2>1 DEF MaskReused
<1>17. InReset'
  <2>1. \A x \in EventIDs :
          Busy(x)' /\ fe < queues'[x] /\ queues'[x] <= monitor.address <=>
          Busy(x) /\ fe < queues[x] /\ queues[x] <= monitor.address
    BY <1>4, <1>5, <1>7, <1>12
  <2>2. \A x \in raised : queues'[x] = queues[x]
    BY <1>1, <1>4, <1>12 DEF ETypes
  <2>. QED
    BY <1>1, <1>2, <1>16, <2>1, <2>2 DEF InReset
<1>18. Watch'
  <2>1. SUFFICES ASSUME Steady PROVE Watch'
    BY <1>2 DEF Watch, Steady
  <2>2. MaskReused => MaskReused'
    <3>1. SUFFICES ASSUME NEW k \in monitor.mask, queues[k] > monitor.address
                   PROVE  queues'[k] = queues[k]
      BY <1>2 DEF MaskReused
    <3>2. k \in EventIDs /\ k # i
      BY <1>1, <1>4, <1>5, <2>1, <3>1 DEF ETypes, Steady
    <3>. QED
      BY <1>12, <3>2
  <2>3. Changed => Changed'
    BY <1>2, <2>2 DEF Changed
  <2>. QED
    BY <1>1, <1>2, <2>1, <2>3 DEF Watch
<1>19. Counted'
  BY <1>1, <1>2 DEF Counted
<1>. QED
  BY <1>9, <1>10, <1>11, <1>13, <1>14, <1>15, <1>17, <1>18, <1>19 DEF Timing

\* Performing records changes nothing that is looked at.
LEMMA WalkTiming ==
    ASSUME RInv, Timing, NEW w \in Walkers, Walk(w) PROVE Timing'
<1>1. /\ ETypes /\ Counters /\ InSlots /\ PendingEventIs /\ Passed /\ WalkedPassed
      /\ SkippedHeld /\ InReset /\ Watch /\ Counted
  BY DEF Timing
<1>2. /\ notify[w].at = "walk"
      /\ performed' = [performed EXCEPT ![notify[w].commit] = @ + 1]
      /\ notify' = [notify EXCEPT ![w] = [at |-> "loop", commit |-> 0]]
      /\ UNCHANGED <<queues, submit, lastCommitStamp, ring, fe, hung, raised,
                     pendingEvent, interruptCount, pending, wake, monitor, recovery, late,
                     skipped>>
  BY DEF Walk, eventVars, submitVars, feVars, countVars, monitorVars
<1>3. \A v \in Walkers :
        notify'[v] = IF v = w THEN [at |-> "loop", commit |-> 0] ELSE notify[v]
  BY <1>1, <1>2 DEF RInv, RTypes
<1>4. \A c \in Commits : c # notify[w].commit => performed'[c] = performed[c]
  BY <1>1, <1>2 DEF RInv, RTypes
<1>5. ETypes' /\ Counters'
  BY <1>1, <1>2 DEF ETypes, Counters
<1>6. InSlots' /\ PendingEventIs' /\ Passed'
  BY <1>1, <1>2 DEF Busy, InSlots, InSubmit, PendingEventIs, Passed
<1>7. WalkedPassed'
  <2>1. notify[w].commit <= fe
    BY <1>1, <1>2 DEF WalkedPassed
  <2>. QED
    BY <1>1, <1>2, <1>3, <1>4, <2>1 DEF WalkedPassed
<1>8. SkippedHeld' /\ InReset'
  BY <1>1, <1>2 DEF SkippedHeld, InReset, MaskReused, Busy
<1>9. Watch'
  BY <1>1, <1>2 DEF Watch, Steady, Changed, MaskReused
<1>10. Counted'
  BY <1>1, <1>2 DEF Counted
<1>. QED
  BY <1>5, <1>6, <1>7, <1>8, <1>9, <1>10 DEF Timing

\* A walk ends when no slot with records is pending: none that the reset has
\* jumped over, when it is the monitor's.
LEMMA EndNotifyTiming ==
    ASSUME RInv, MonitorWalk, Timing, NEW w \in Walkers, EndNotify(w) PROVE Timing'
<1>1. /\ ETypes /\ Counters /\ InSlots /\ PendingEventIs /\ Passed /\ WalkedPassed
      /\ SkippedHeld /\ InReset /\ Watch /\ Counted
  BY DEF Timing
<1>2. /\ notify[w].at = "loop" /\ Triggered = {} /\ pending' = {}
      /\ notify' = [notify EXCEPT ![w].at = "idle"]
      /\ w # "monitor" => UNCHANGED <<monitor, recovery>>
      /\ w = "monitor" => recovery' = "idle" /\ monitor' = [monitor EXCEPT !.monitoring = FALSE]
      /\ late' = late \ {IF w = "interrupt" THEN "notify" ELSE w}
      /\ UNCHANGED <<queues, submit, lastCommitStamp, ring, fe, hung, raised,
                     pendingEvent, interruptCount, wake, performed, skipped>>
  BY DEF EndNotify, eventVars, submitVars, feVars, countVars, monitorVars, histVars
<1>3. w = "monitor" => recovery = "notify"
  BY <1>2 DEF MonitorWalk
<1>4. \A x \in EventIDs : queues[x] \in skipped => x \notin pending
  <2>1. \A x \in EventIDs : queues[x] \in skipped => Busy(x)
    BY <1>1 DEF ETypes, Commits, Busy
  <2>. QED
    BY <1>2, <2>1 DEF Triggered
<1>5. /\ \A v \in Walkers : notify'[v].at = "walk" => notify[v].at = "walk"
      /\ \A v \in Walkers : notify'[v].commit = notify[v].commit
  BY <1>1, <1>2 DEF RInv, RTypes
<1>6. /\ monitor'.mask = monitor.mask /\ monitor'.address = monitor.address
      /\ monitor'.stamp = monitor.stamp
      /\ monitor' \in [monitoring : BOOLEAN, timer : Nat, stamp : Nat, address : Nat,
                       mask : SUBSET EventIDs]
      /\ recovery' \in {"idle", "reset", "set", "clear", "notify"}
  BY <1>1, <1>2 DEF ETypes
<1>7. ETypes' /\ Counters'
  BY <1>1, <1>2, <1>6 DEF ETypes, Counters
<1>8. InSlots'
  BY <1>1, <1>2 DEF InSlots, InSubmit
<1>9. PendingEventIs'
  BY <1>1, <1>2, <1>3, <1>6 DEF PendingEventIs, Busy
<1>10. Passed'
  BY <1>1, <1>2 DEF Passed, Busy
<1>11. WalkedPassed' /\ Counted'
  BY <1>1, <1>2, <1>5 DEF WalkedPassed, Counted
<1>12. CASE w = "monitor"
  <2>1. ~monitor'.monitoring /\ recovery' = "idle"
    BY <1>1, <1>2, <1>12 DEF ETypes
  <2>2. SkippedHeld'
    BY <1>1, <1>2, <1>3, <1>4, <1>12 DEF SkippedHeld
  <2>3. InReset' /\ Watch'
    BY <2>1 DEF InReset, Watch, Steady
  <2>. QED
    BY <1>7, <1>8, <1>9, <1>10, <1>11, <2>2, <2>3 DEF Timing
<1>13. CASE w = "interrupt"
  <2>1. UNCHANGED <<monitor, recovery>> /\ late' = late \ {"notify"}
    BY <1>2, <1>13
  <2>2. SkippedHeld'
    BY <1>1, <1>2, <1>4, <2>1 DEF SkippedHeld
  <2>3. InReset'
    BY <1>1, <1>2, <2>1 DEF InReset, MaskReused, Busy
  <2>4. Watch'
    BY <1>1, <1>2, <2>1 DEF Watch, Steady, Changed, MaskReused
  <2>. QED
    BY <1>7, <1>8, <1>9, <1>10, <1>11, <2>2, <2>3, <2>4 DEF Timing
<1>. QED
  BY <1>12, <1>13 DEF Walkers

\* A state that looks unchanged from the first look to the third: the front end
\* hangs and no interrupt is under way, or a slot of the mask was given away.
LEMMA TwiceUnchanged ==
    ASSUME Timing, Steady, monitor.timer = 1, late = {}, monitor.mask = pendingEvent,
           ~MaskReused
    PROVE  hung /\ raised = {} /\ submit.at # "execute"
<1>1. /\ ETypes /\ Counters /\ InSlots /\ PendingEventIs /\ Watch
  BY DEF Timing
<1>2. hung /\ raised = {}
  BY <1>1 DEF Watch, Changed
<1>3. submit.at # "execute"
  <2>1. SUFFICES ASSUME submit.at = "execute" PROVE FALSE
    OBVIOUS
  <2>2. InSubmit
    BY <2>1 DEF InSubmit
  <2>3. /\ submit.id \in EventIDs /\ Busy(submit.id) /\ queues[submit.id] > fe
        /\ queues[submit.id] > monitor.address
    BY <1>1, <2>2, Submitting
  <2>4. submit.id \in pendingEvent
    BY <1>1, <2>1, <2>3 DEF PendingEventIs
  <2>. QED
    BY <2>3, <2>4 DEF MaskReused
<1>. QED
  BY <1>2, <1>3

\* A look of the monitor.
LEMMA TickTiming ==
    ASSUME RInv, Timing, Tick, ~mistaken' PROVE Timing'
<1>1. /\ ETypes /\ Counters /\ InSlots /\ PendingEventIs /\ Passed /\ WalkedPassed
      /\ SkippedHeld /\ InReset /\ Watch /\ Counted
  BY DEF Timing
<1>2. /\ recovery = "idle" /\ late = {} /\ interruptCount' = Pending /\ late' = UnderWay
      /\ UNCHANGED <<queues, submit, lastCommitStamp, ring, fe, hung, raised,
                     pendingEvent, pending, wake, notify, performed, skipped>>
      /\ recovery' = "reset" => ~MaskReused'
  BY DEF Tick, eventVars, submitVars, feVars
<1>3. Pending = interruptCount /\ interruptCount \in Nat
  <2>1. Cardinality(pendingEvent) \in Nat
    BY <1>1, EventsFinite DEF ETypes
  <2>. QED
    BY <1>1, <2>1 DEF Pending, Counted
<1>4. Len(ring) \in Nat /\ lastWaitLink = Len(ring) /\ fe \in Nat /\ fe <= Len(ring)
  BY <1>1 DEF ETypes, lastWaitLink
<1>5. /\ WalkedPassed' /\ InSlots' /\ Counted'
  BY <1>1, <1>2, <1>3 DEF WalkedPassed, InSlots, InSubmit, Counted
<1>6. CASE Pending > 0 /\ monitor.monitoring /\ Unchanged /\ Expired
  <2>1. recovery' = "reset" /\ monitor' = [monitor EXCEPT !.timer = @ + 1]
    BY <1>3, <1>6 DEF Tick
  <2>2. /\ monitor'.mask = monitor.mask /\ monitor'.address = monitor.address
        /\ monitor'.stamp = monitor.stamp
        /\ monitor' \in [monitoring : BOOLEAN, timer : Nat, stamp : Nat, address : Nat,
                         mask : SUBSET EventIDs]
    BY <1>1, <2>1 DEF ETypes
  <2>3. monitor.timer = 1 /\ Steady /\ monitor.mask = pendingEvent
    BY <1>1, <1>2, <1>6 DEF InReset, Expired, Steady, Unchanged, lastWaitLink
  <2>4. ~MaskReused
    BY <1>2, <2>1, <2>2 DEF MaskReused
  <2>5. hung /\ raised = {} /\ submit.at # "execute"
    BY <1>2, <2>3, <2>4, TwiceUnchanged
  <2>6. \A x \in EventIDs :
          x \in monitor.mask <=> Busy(x) /\ fe < queues[x] /\ queues[x] <= monitor.address
    <3>1. \A x \in EventIDs : queues[x] \in Nat
      BY <1>1, RecoveryAssumption DEF RInv, RTypes
    <3>. QED
      BY <1>1, <1>2, <1>4, <2>3, <2>5, <3>1 DEF PendingEventIs, Steady
  <2>7. ETypes' /\ Counters'
    BY <1>1, <1>2, <1>3, <2>1, <2>2 DEF ETypes, Counters
  <2>8. PendingEventIs' /\ Passed' /\ SkippedHeld'
    BY <1>1, <1>2, <2>1, <2>2 DEF PendingEventIs, Passed, SkippedHeld, Busy
  <2>9. InReset'
    BY <1>2, <1>4, <2>1, <2>2, <2>3, <2>5, <2>6 DEF InReset, Busy, Steady
  <2>10. Watch'
    BY <2>1 DEF Watch, Steady
  <2>. QED
    BY <1>5, <2>7, <2>8, <2>9, <2>10 DEF Timing
<1>7. CASE ~(Pending > 0 /\ monitor.monitoring /\ Unchanged /\ Expired)
  <2>1. recovery' = "idle"
    BY <1>7 DEF Tick
  <2>2. /\ \/ monitor' = [monitor EXCEPT !.monitoring = FALSE]
           \/ /\ Pending > 0
              /\ monitor' = [monitoring |-> TRUE, timer |-> 0, stamp |-> lastCommitStamp,
                             address |-> lastWaitLink, mask |-> pendingEvent]
           \/ /\ monitor.monitoring /\ Unchanged /\ ~Expired
              /\ monitor' = [monitor EXCEPT !.timer = @ + 1]
    BY <1>3, <1>7 DEF Tick
  <2>3. /\ monitor' \in [monitoring : BOOLEAN, timer : Nat, stamp : Nat, address : Nat,
                         mask : SUBSET EventIDs]
        /\ monitor'.address <= Len(ring) /\ monitor'.stamp <= lastCommitStamp
    <3>1. /\ monitor \in [monitoring : BOOLEAN, timer : Nat, stamp : Nat, address : Nat,
                          mask : SUBSET EventIDs]
          /\ monitor.address <= Len(ring) /\ monitor.stamp <= lastCommitStamp
          /\ pendingEvent \in SUBSET EventIDs /\ lastCommitStamp \in Nat
      BY <1>1 DEF ETypes, Counters
    <3>2. CASE monitor' = [monitor EXCEPT !.monitoring = FALSE]
      BY <3>1, <3>2
    <3>3. CASE monitor' = [monitoring |-> TRUE, timer |-> 0, stamp |-> lastCommitStamp,
                           address |-> lastWaitLink, mask |-> pendingEvent]
      BY <1>4, <3>1, <3>3
    <3>4. CASE monitor' = [monitor EXCEPT !.timer = @ + 1]
      BY <3>1, <3>4
    <3>. QED
      BY <2>2, <3>2, <3>3, <3>4
  <2>4. ETypes' /\ Counters'
    BY <1>1, <1>2, <1>3, <2>1, <2>3 DEF ETypes, Counters
  <2>5. PendingEventIs' /\ Passed' /\ SkippedHeld'
    BY <1>1, <1>2, <2>1 DEF PendingEventIs, Passed, SkippedHeld, Busy
  <2>6. CASE monitor' = [monitor EXCEPT !.monitoring = FALSE]
    <3>1. ~monitor'.monitoring
      BY <1>1, <2>6 DEF ETypes
    <3>2. InReset' /\ Watch'
      BY <2>1, <3>1 DEF InReset, Watch, Steady
    <3>. QED
      BY <1>5, <2>4, <2>5, <3>2 DEF Timing
  <2>7. CASE /\ Pending > 0
             /\ monitor' = [monitoring |-> TRUE, timer |-> 0, stamp |-> lastCommitStamp,
                            address |-> lastWaitLink, mask |-> pendingEvent]
    <3>1. monitor'.timer = 0 /\ monitor'.mask = pendingEvent
      BY <2>7
    <3>2. InReset'
      BY <2>1, <3>1 DEF InReset
    <3>3. InSubmit => "submit" \in late'
      BY <1>2 DEF InSubmit, UnderWay
    <3>4. "submit" \in late' \/ hung \/ raised # {} \/ "frontEnd" \in late'
      <4>1. CASE submit.at = "event"
        BY <3>3, <4>1 DEF InSubmit
      <4>2. CASE submit.at # "event"
        <5>1. pendingEvent # {}
          <6>1. SUFFICES ASSUME pendingEvent = {} PROVE Pending = 0
            BY <2>7
          <6>2. Cardinality(pendingEvent) = 0
            BY <6>1, FS_EmptySet
          <6>. QED
            BY <1>1, <1>3, <4>2, <6>2 DEF Counted
        <5>2. PICK x \in pendingEvent : TRUE
          BY <5>1
        <5>3. \/ x \in raised
              \/ submit.at = "execute"
              \/ Busy(x) /\ queues[x] > fe /\ queues[x] <= Len(ring)
          BY <1>1, <1>2, <5>2 DEF PendingEventIs, ETypes
        <5>4. x \in EventIDs /\ queues[x] \in Nat
          BY <1>1, <5>2, RecoveryAssumption DEF ETypes, RInv, RTypes
        <5>5. Busy(x) /\ queues[x] > fe /\ queues[x] <= Len(ring) => fe < Len(ring)
          BY <1>4, <5>4
        <5>6. fe < Len(ring) => hung \/ "frontEnd" \in late'
          BY <1>2 DEF UnderWay
        <5>. QED
          BY <3>3, <5>3, <5>5, <5>6 DEF InSubmit
      <4>. QED
        BY <4>1, <4>2
    <3>5. Watch'
      BY <1>2, <3>1, <3>4 DEF Watch, Changed
    <3>. QED
      BY <1>5, <2>4, <2>5, <3>2, <3>5 DEF Timing
  <2>8. CASE /\ monitor.monitoring /\ Unchanged /\ ~Expired
             /\ monitor' = [monitor EXCEPT !.timer = @ + 1]
    <3>1. /\ monitor.timer = 0 /\ Steady /\ monitor.mask = pendingEvent
      BY <1>1, <1>2, <2>8 DEF InReset, Expired, Steady, Unchanged, lastWaitLink
    <3>2. /\ monitor'.timer = 1 /\ monitor'.mask = pendingEvent
          /\ monitor'.address = monitor.address
      BY <1>1, <2>8, <3>1 DEF ETypes
    <3>3. InReset'
      BY <2>1, <3>2 DEF InReset
    <3>4. MaskReused \/ hung \/ raised # {}
      BY <1>1, <1>2, <3>1 DEF Watch, Changed
    <3>5. raised # {} => "interrupt" \in late'
      BY <1>2 DEF UnderWay
    <3>6. MaskReused => MaskReused'
      BY <1>2, <3>1, <3>2 DEF MaskReused
    <3>7. Watch'
      BY <1>2, <3>2, <3>4, <3>5, <3>6 DEF Watch, Changed
    <3>. QED
      BY <1>5, <2>4, <2>5, <3>3, <3>7 DEF Timing
  <2>. QED
    BY <2>2, <2>6, <2>7, <2>8
<1>. QED
  BY <1>6, <1>7

\* The GPU goes on where the recorded queue ended.
LEMMA ResetTiming ==
    ASSUME RInv, Timing, Reset PROVE Timing'
<1>1. /\ ETypes /\ Counters /\ InSlots /\ PendingEventIs /\ Passed /\ WalkedPassed
      /\ SkippedHeld /\ InReset /\ Watch /\ Counted
  BY DEF Timing
<1>2. /\ recovery = "reset" /\ recovery' = "set" /\ hung' = FALSE /\ fe' = monitor.address
      /\ raised' = {} /\ skipped' = skipped \cup (fe + 1 .. monitor.address)
      /\ UNCHANGED <<queues, submit, lastCommitStamp, ring, pendingEvent,
                     interruptCount, pending, wake, notify, monitor, performed>>
  BY DEF Reset, eventVars, submitVars, countVars
<1>3. /\ fe \in Nat /\ fe' \in Nat /\ fe <= fe' /\ fe' <= Len(ring) /\ Len(ring) \in Nat
      /\ raised = {} /\ monitor.mask \subseteq EventIDs /\ monitor.address \in Nat
  BY <1>1, <1>2 DEF ETypes, Counters, InReset
<1>4. \A x \in EventIDs : queues[x] \in Nat
  BY <1>1, RecoveryAssumption DEF RInv, RTypes
<1>5. \A x \in EventIDs : x \in monitor.mask <=> Busy(x) /\ fe < queues[x] /\ queues[x] <= fe'
  BY <1>1, <1>2 DEF InReset
<1>6. ETypes' /\ Counters'
  <2>1. skipped' \subseteq Commits
    <3>1. Len(ring) <= MaxCommits /\ MaxCommits \in Nat
      BY <1>1, RecoveryAssumption DEF ETypes, Counters
    <3>2. \A c \in fe + 1 .. monitor.address : c \in Commits
      BY <1>2, <1>3, <3>1 DEF Commits
    <3>. QED
      BY <1>1, <1>2, <3>2 DEF ETypes
  <2>2. raised' \subseteq EventIDs
    BY <1>2
  <2>. QED
    BY <1>1, <1>2, <1>3, <2>1, <2>2 DEF ETypes, Counters
<1>7. InSlots'
  <2>1. PICK f \in Nat, g \in Nat, n \in Nat : f = fe /\ g = fe' /\ n = Len(ring) /\ f <= g
    BY <1>3
  <2>2. \A c \in g + 1 .. n : c \in f + 1 .. n
    <3>1. f <= g
      BY <2>1
    <3>. QED
      BY <3>1
  <2>3. \A c \in g + 1 .. n : queues[ring[c]] = c
    BY <1>1, <2>1, <2>2 DEF InSlots
  <2>4. \A c \in fe' + 1 .. Len(ring) : queues[ring[c]] = c
    BY <2>1, <2>3
  <2>. QED
    BY <1>1, <1>2, <2>4 DEF InSlots, InSubmit
<1>8. PendingEventIs'
  <2>1. ASSUME NEW x \in EventIDs
        PROVE  Busy(x) /\ queues[x] > fe /\ (queues[x] <= Len(ring) \/ submit.at = "execute") <=>
               \/ Busy(x) /\ queues[x] > fe' /\ (queues[x] <= Len(ring) \/ submit.at = "execute")
               \/ x \in monitor.mask
    <3>1. queues[x] \in Nat /\ (x \in monitor.mask <=> Busy(x) /\ fe < queues[x] /\ queues[x] <= fe')
      BY <1>4, <1>5
    <3>. QED
      BY <1>3, <3>1
  <2>. QED
    BY <1>1, <1>2, <1>3, <2>1 DEF PendingEventIs, Busy
<1>9. Passed'
  <2>1. \A x \in pending : x \in EventIDs
    BY <1>1 DEF ETypes
  <2>2. \A x \in pending : Busy(x) /\ queues[x] <= fe
    BY <1>1, <1>2 DEF Passed
  <2>3. \A x \in pending : Busy(x) /\ queues[x] <= fe'
    BY <1>3, <1>4, <2>1, <2>2
  <2>. QED
    BY <1>2, <2>3 DEF Passed, Busy
<1>10. WalkedPassed'
  <2>1. \A c \in Commits : c \in Nat
    BY DEF Commits
  <2>2. \A w \in Walkers : notify[w].commit \in Nat
    BY <1>1, RecoveryAssumption DEF RInv, RTypes
  <2>. QED
    BY <1>1, <1>2, <1>3, <2>1, <2>2 DEF WalkedPassed
<1>11. SkippedHeld'
  <2>1. \A c \in skipped : c \in Nat /\ c <= fe
    BY <1>1 DEF ETypes, Commits, SkippedHeld
  <2>2. \A c \in skipped' : c <= fe'
    BY <1>2, <1>3, <2>1
  <2>3. \A x \in EventIDs : queues[x] \notin skipped
    BY <1>1, <1>2 DEF SkippedHeld
  <2>4. \A x \in EventIDs : queues[x] \in skipped' => x \in monitor.mask
    <3>1. SUFFICES ASSUME NEW x \in EventIDs, queues[x] \in fe + 1 .. monitor.address
                   PROVE  x \in monitor.mask
      BY <1>2, <2>3
    <3>2. queues[x] # 0 /\ fe < queues[x] /\ queues[x] <= fe'
      BY <1>2, <1>3, <3>1
    <3>. QED
      BY <1>5, <3>2 DEF Busy
  <2>. QED
    BY <1>2, <2>2, <2>4 DEF SkippedHeld
<1>12. InReset'
  <2>1. ~MaskReused'
    <3>1. \A x \in monitor.mask : queues[x] \in Nat /\ queues[x] <= monitor.address
      BY <1>2, <1>3, <1>4, <1>5
    <3>. QED
      BY <1>2, <1>3, <3>1 DEF MaskReused
  <2>2. monitor.mask \subseteq pendingEvent
    BY <1>1, <1>2 DEF InReset
  <2>. QED
    BY <1>2, <1>3, <2>1, <2>2 DEF InReset
<1>13. Watch' /\ Counted'
  BY <1>1, <1>2 DEF Watch, Steady, Counted
<1>. QED
  BY <1>6, <1>7, <1>8, <1>9, <1>10, <1>11, <1>12, <1>13 DEF Timing

\* The recorded mask becomes the pending events.  What the interrupt routine has
\* merged since is behind the mask.
LEMMA SetPendingTiming ==
    ASSUME RInv, Timing, SetPending PROVE Timing'
<1>1. /\ ETypes /\ Counters /\ InSlots /\ PendingEventIs /\ Passed /\ WalkedPassed
      /\ SkippedHeld /\ InReset /\ Watch /\ Counted
  BY DEF Timing
<1>2. /\ recovery = "set" /\ recovery' = "clear" /\ pending' = monitor.mask
      /\ UNCHANGED <<queues, submit, lastCommitStamp, ring, fe, hung, raised,
                     pendingEvent, interruptCount, wake, notify, monitor, late, performed,
                     skipped>>
  BY DEF SetPending, eventVars, submitVars, feVars, countVars, histVars
<1>3. /\ monitor.mask \subseteq EventIDs /\ raised \subseteq EventIDs
      /\ fe \in Nat /\ monitor.address \in Nat /\ monitor.address <= fe
  BY <1>1, <1>2 DEF InReset, ETypes
<1>4. \A x \in EventIDs : queues[x] \in Nat
  BY <1>1, RecoveryAssumption DEF RInv, RTypes
<1>5. \A x \in monitor.mask : queues[x] <= monitor.address /\ queues[x] <= fe
  <2>1. ~MaskReused
    BY <1>1, <1>2 DEF InReset
  <2>. QED
    BY <1>3, <1>4, <2>1 DEF MaskReused
<1>6. ETypes' /\ Counters'
  BY <1>1, <1>2, <1>3 DEF ETypes, Counters
<1>7. InSlots' /\ PendingEventIs'
  BY <1>1, <1>2 DEF Busy, InSlots, InSubmit, PendingEventIs
<1>8. Passed'
  <2>1. \A x \in monitor.mask, y \in raised : queues[x] < queues[y]
    <3>1. \A y \in raised : queues[y] > monitor.address
      BY <1>1, <1>2 DEF InReset
    <3>. QED
      BY <1>3, <1>4, <1>5, <3>1
  <2>. QED
    BY <1>1, <1>2, <1>5, <2>1 DEF Passed, Busy
<1>9. WalkedPassed' /\ Watch' /\ Counted'
  BY <1>1, <1>2 DEF WalkedPassed, Watch, Steady, Counted
<1>10. SkippedHeld'
  BY <1>1, <1>2 DEF SkippedHeld
<1>11. InReset'
  BY <1>1, <1>2 DEF InReset, MaskReused, Busy
<1>. QED
  BY <1>6, <1>7, <1>8, <1>9, <1>10, <1>11 DEF Timing

\* The interrupts that will not come are taken off the mask and the count.
LEMMA ClearPendingEventTiming ==
    ASSUME RInv, Timing, ClearPendingEvent PROVE Timing'
<1>1. /\ ETypes /\ Counters /\ InSlots /\ PendingEventIs /\ Passed /\ WalkedPassed
      /\ SkippedHeld /\ InReset /\ Watch /\ Counted
  BY DEF Timing
<1>2. /\ recovery = "clear" /\ recovery' = "notify"
      /\ interruptCount' = interruptCount - Cardinality(monitor.mask)
      /\ pendingEvent' = pendingEvent \ monitor.mask
      /\ notify' = [notify EXCEPT !["monitor"].at = "loop"]
      /\ UNCHANGED <<queues, submit, lastCommitStamp, ring, fe, hung, raised,
                     pending, wake, monitor, late, performed, skipped>>
  BY DEF ClearPendingEvent, eventVars, submitVars, feVars, histVars
<1>3. /\ monitor.mask \subseteq EventIDs /\ raised \subseteq EventIDs
      /\ monitor.mask \subseteq pendingEvent
      /\ fe \in Nat /\ monitor.address \in Nat /\ monitor.address <= fe
  BY <1>1, <1>2 DEF InReset, ETypes
<1>4. \A x \in EventIDs : queues[x] \in Nat
  BY <1>1, RecoveryAssumption DEF RInv, RTypes
<1>5. \A x \in monitor.mask : ~(queues[x] > fe) /\ x \notin raised
  <2>1. ~MaskReused /\ \A y \in raised : queues[y] > monitor.address
    BY <1>1, <1>2 DEF InReset
  <2>. QED
    BY <1>3, <1>4, <2>1 DEF MaskReused
<1>6. /\ \A w \in Walkers : notify'[w].at = "walk" => notify[w].at = "walk"
      /\ \A w \in Walkers : notify'[w].commit = notify[w].commit
  BY <1>1, <1>2 DEF RInv, RTypes, Walkers
<1>7. ETypes' /\ Counters'
  BY <1>1, <1>2, <1>3, EventsFinite DEF ETypes, Counters
<1>8. InSlots'
  BY <1>1, <1>2 DEF InSlots, InSubmit
<1>9. PendingEventIs'
  BY <1>1, <1>2, <1>5 DEF PendingEventIs, Busy
<1>10. Passed'
  BY <1>1, <1>2 DEF Passed, Busy
<1>11. WalkedPassed' /\ SkippedHeld'
  BY <1>1, <1>2, <1>6 DEF WalkedPassed, SkippedHeld
<1>12. InReset' /\ Watch'
  BY <1>1, <1>2 DEF InReset, MaskReused, Watch, Steady
<1>13. Counted'
  <2>1. /\ IsFiniteSet(pendingEvent) /\ Cardinality(pendingEvent) \in Nat
        /\ IsFiniteSet(monitor.mask) /\ Cardinality(monitor.mask) \in Nat
    BY <1>1, <1>3, EventsFinite DEF ETypes
  <2>2. Cardinality(pendingEvent') = Cardinality(pendingEvent) - Cardinality(monitor.mask)
    <3>1. pendingEvent \cap monitor.mask = monitor.mask
      BY <1>3
    <3>2. Cardinality(pendingEvent \ monitor.mask) =
            Cardinality(pendingEvent) - Cardinality(pendingEvent \cap monitor.mask)
      BY <2>1, FS_Difference
    <3>. QED
      BY <1>2, <3>1, <3>2
  <2>. QED
    BY <1>1, <1>2, <2>1, <2>2 DEF Counted, ETypes
<1>. QED
  BY <1>7, <1>8, <1>9, <1>10, <1>11, <1>12, <1>13 DEF Timing

\* A recovery that was mistaken once stays so in the history.
LEMMA MistakenStays ==
    ASSUME [RecoveryNext]_recoveryVars
    PROVE  mistaken' = mistaken \/ ((GetSlot \/ Tick) /\ (mistaken => mistaken'))
<1>1. CASE GetSlot \/ Tick
  BY <1>1 DEF GetSlot, Tick
<1>2. CASE BeginSubmit \/ Count \/ WriteEvent \/ ExecuteEvent \/ Pass \/ Hang \/ TakeInterrupt
  BY <1>2 DEF BeginSubmit, Count, WriteEvent, ExecuteEvent, Pass, Hang, TakeInterrupt, histVars
<1>3. CASE WakeThread \/ Recover
  BY <1>3 DEF WakeThread, Recover, Reset, SetPending, ClearPendingEvent, histVars
<1>4. CASE \E w \in Walkers : Notify(w)
  BY <1>4 DEF Notify, Claim, Walk, EndNotify, histVars
<1>5. CASE UNCHANGED recoveryVars
  BY <1>5 DEF recoveryVars, histVars
<1>. QED
  BY <1>1, <1>2, <1>3, <1>4, <1>5 DEF RecoveryNext, FinishSubmit

\* Every step, whoever goes on beside the recovery.
LEMMA StepEInv ==
    ASSUME EInv, [RecoveryNext]_recoveryVars PROVE EInv'
<1>1. RInv /\ MonitorWalk /\ RInv' /\ MonitorWalk'
  BY RInvNext, MonitorWalkNext DEF EInv, RInv
<1> SUFFICES ASSUME ~mistaken' PROVE Timing'
  BY <1>1 DEF EInv
<1>2. Timing
  BY MistakenStays DEF EInv
<1>3. CASE BeginSubmit
  BY <1>1, <1>2, <1>3, BeginSubmitTiming
<1>4. CASE GetSlot
  BY <1>1, <1>2, <1>4, GetSlotTiming
<1>5. CASE Count
  BY <1>1, <1>2, <1>5, CountTiming
<1>6. CASE WriteEvent
  BY <1>1, <1>2, <1>6, WriteEventTiming
<1>7. CASE ExecuteEvent
  BY <1>1, <1>2, <1>7, ExecuteEventTiming
<1>8. CASE Pass
  BY <1>1, <1>2, <1>8, PassTiming
<1>9. CASE Hang
  BY <1>1, <1>2, <1>9, HangTiming
<1>10. CASE TakeInterrupt
  BY <1>1, <1>2, <1>10, TakeInterruptTiming
<1>11. CASE WakeThread
  BY <1>1, <1>2, <1>11, WakeThreadTiming
<1>12. CASE \E w \in Walkers : Notify(w)
  BY <1>1, <1>2, <1>12, ClaimTiming, WalkTiming, EndNotifyTiming DEF Notify
<1>13. CASE Tick
  BY <1>1, <1>2, <1>13, TickTiming
<1>14. CASE Recover
  BY <1>1, <1>2, <1>14, ResetTiming, SetPendingTiming, ClearPendingEventTiming DEF Recover
<1>15. CASE UNCHANGED recoveryVars
  <2>1. UNCHANGED <<queues, submit, lastCommitStamp, ring, fe, hung, raised,
                    pendingEvent, interruptCount, pending, wake, notify, monitor, recovery,
                    late, performed, skipped>>
    BY <1>15 DEF recoveryVars, eventVars, submitVars, feVars, countVars, monitorVars, histVars
  <2>2. ETypes' /\ Counters' /\ InSlots'
    BY <1>2, <2>1 DEF Timing, ETypes, Counters, InSlots, InSubmit
  <2>3. PendingEventIs' /\ Passed' /\ WalkedPassed' /\ SkippedHeld'
    BY <1>2, <2>1 DEF Timing, PendingEventIs, Passed, WalkedPassed, SkippedHeld, Busy
  <2>4. InReset' /\ Watch' /\ Counted'
    BY <1>2, <2>1 DEF Timing, InReset, Watch, Steady, Changed, MaskReused, Busy, Counted
  <2>. QED
    BY <2>2, <2>3, <2>4 DEF Timing
<1>. QED
  BY <1>3, <1>4, <1>5, <1>6, <1>7, <1>8, <1>9, <1>10, <1>11, <1>12, <1>13, <1>14, <1>15
  DEF RecoveryNext, FinishSubmit

\* The property NoneEarly of the run allocators_recovery: the records of a commit
\* are performed behind the front end, also while submits wait for slots and
\* while the restarted GPU and its interrupts go on beside gckKERNEL_Recovery.
THEOREM NothingEarly == RecoverySpec => []NoneEarly
<1>1. RecoveryInit => EInv
  BY InitEInv
<1>2. EInv /\ [RecoveryNext]_recoveryVars => EInv'
  BY StepEInv
<1>3. EInv => NoneEarly
  BY DEF EInv, Timing, WalkedPassed, NoneEarly
<1>. QED
  BY <1>1, <1>2, <1>3, PTL DEF RecoverySpec

\* The property NoFalseAlarm of the run allocators_recovery: the only way in
\* which _MonitorTimerFunction resets a front end that does not hang is that a
\* slot of its mask holds a commit behind the recorded end of the queue.
THEOREM OnlyHungReset == RecoverySpec => []NoFalseAlarm
<1>1. RecoveryInit => EInv
  BY InitEInv
<1>2. EInv /\ [RecoveryNext]_recoveryVars => EInv'
  BY StepEInv
<1>3. EInv => NoFalseAlarm
  BY DEF EInv, Timing, InReset, NoFalseAlarm
<1>. QED
  BY <1>1, <1>2, <1>3, PTL DEF RecoverySpec

\* The property CountExact of the run allocators_recovery: interruptCount is the
\* number of the pending events, although the interrupts of the restarted GPU
\* are counted beside gckKERNEL_Recovery, which takes its mask back.
THEOREM CountKept == RecoverySpec => []CountExact
<1>1. RecoveryInit => EInv
  BY InitEInv
<1>2. EInv /\ [RecoveryNext]_recoveryVars => EInv'
  BY StepEInv
<1>3. EInv => CountExact
  BY DEF EInv, Timing, Counted, CountExact
<1>. QED
  BY <1>1, <1>2, <1>3, PTL DEF RecoverySpec

\* The property SkippedHandled of the run allocators_recovery: when
\* gckKERNEL_Recovery is over, the records of all commits that the reset has
\* jumped over have been taken, although the interrupt thread walks beside it
\* and drops what is left in pending.
THEOREM SkippedTaken == RecoverySpec => []SkippedHandled
<1>1. RecoveryInit => EInv
  BY InitEInv
<1>2. EInv /\ [RecoveryNext]_recoveryVars => EInv'
  BY StepEInv
<1>3. EInv => SkippedHandled
  BY DEF EInv, Timing, SkippedHeld, SkippedHandled
<1>. QED
  BY <1>1, <1>2, <1>3, PTL DEF RecoverySpec

-----------------------------------------------------------------------------
(* Types, whatever the timing.                                              *)

\* The types; the monitor has recorded a place of the ring, which has no more commands
\* than there were commits.
TInv ==
    /\ RecoveryTypeOK
    /\ Len(ring) = IF submit.at = "idle" THEN submit.commit ELSE submit.commit - 1
    /\ submit.at # "idle" => submit.commit > 0
    /\ monitor.address <= Len(ring)

LEMMA InitTInv == RecoveryInit => TInv
<1> SUFFICES ASSUME RecoveryInit PROVE TInv
  OBVIOUS
<1> USE RecoveryAssumption
<1>1. 0 \in EventIDs /\ 0 \in 0 .. MaxCommits /\ 0 \in 0 .. MaxHangs /\ Len(<< >>) = 0
  BY DEF EventIDs
<1>2. monitor \in [monitoring : BOOLEAN, timer : Nat, stamp : Nat, address : Nat,
                   mask : SUBSET EventIDs] /\ monitor.address = 0
  BY DEF RecoveryInit
<1>3. /\ submit \in [at : {"idle", "get", "count", "event", "execute"}, id : EventIDs,
                     commit : 0 .. MaxCommits]
      /\ submit.at = "idle" /\ submit.commit = 0
  BY <1>1 DEF RecoveryInit
<1>4. notify \in [Walkers -> [at : {"idle", "loop", "walk"}, commit : 0 .. MaxCommits]]
  BY <1>1 DEF RecoveryInit
<1>5. ring \in Seq(EventIDs) /\ Len(ring) = 0 /\ fe \in 0 .. Len(ring)
  BY <1>1 DEF RecoveryInit
<1>6. queues \in [EventIDs -> 0 .. MaxCommits]
  BY <1>1 DEF RecoveryInit
<1>7. /\ lastID \in EventIDs /\ lastCommitStamp \in Nat /\ hung \in BOOLEAN
      /\ hangs \in 0 .. MaxHangs
  BY <1>1 DEF RecoveryInit
<1>8. interruptCount \in Int
  BY DEF RecoveryInit
<1>9. /\ raised \subseteq EventIDs /\ pendingEvent \subseteq EventIDs
      /\ pending \subseteq EventIDs /\ wake \in BOOLEAN
  BY DEF RecoveryInit
<1>10. /\ recovery \in {"idle", "reset", "set", "clear", "notify"}
      /\ late \subseteq {"submit", "frontEnd", "interrupt", "notify"}
      /\ performed \in [Commits -> Nat] /\ skipped \subseteq Commits
  BY DEF RecoveryInit
<1>11. wiped \subseteq Commits /\ mistaken \in BOOLEAN
  BY DEF RecoveryInit
<1>12. RecoveryTypeOK
  BY <1>2, <1>3, <1>4, <1>5, <1>6, <1>7, <1>9, <1>8, <1>10, <1>11 DEF RecoveryTypeOK
<1>13. monitor.address <= Len(ring)
  BY <1>2, <1>5
<1> QED
  BY <1>3, <1>5, <1>12, <1>13 DEF TInv

LEMMA MaskSize ==
    ASSUME NEW m, m \subseteq EventIDs
    PROVE  Cardinality(m) \in Nat
<1>1. IsFiniteSet(EventIDs)
  BY RecoveryAssumption, FS_Interval DEF EventIDs
<1> QED
  BY <1>1, FS_Subset, FS_CardinalityType

LEMMA TInvNext ==
    ASSUME TInv, [RecoveryNext]_recoveryVars PROVE TInv'
<1> USE RecoveryAssumption
<1>1. /\ queues \in [EventIDs -> 0 .. MaxCommits] /\ lastID \in EventIDs
      /\ submit \in [at : {"idle", "get", "count", "event", "execute"}, id : EventIDs,
                     commit : 0 .. MaxCommits]
      /\ lastCommitStamp \in Nat
      /\ ring \in Seq(EventIDs) /\ fe \in 0 .. Len(ring)
      /\ hung \in BOOLEAN /\ hangs \in 0 .. MaxHangs
      /\ raised \subseteq EventIDs /\ pendingEvent \subseteq EventIDs
      /\ pending \subseteq EventIDs
      /\ interruptCount \in Int /\ wake \in BOOLEAN
      /\ notify \in [Walkers -> [at : {"idle", "loop", "walk"}, commit : 0 .. MaxCommits]]
      /\ monitor \in [monitoring : BOOLEAN, timer : Nat, stamp : Nat, address : Nat,
                      mask : SUBSET EventIDs]
      /\ recovery \in {"idle", "reset", "set", "clear", "notify"}
      /\ late \subseteq {"submit", "frontEnd", "interrupt", "notify"}
      /\ performed \in [Commits -> Nat] /\ skipped \subseteq Commits
      /\ wiped \subseteq Commits /\ mistaken \in BOOLEAN
  BY DEF TInv, RecoveryTypeOK
<1>2. /\ Len(ring) = IF submit.at = "idle" THEN submit.commit ELSE submit.commit - 1
      /\ submit.at # "idle" => submit.commit > 0
      /\ monitor.address <= Len(ring) /\ monitor.address \in Nat
      /\ submit.commit \in 0 .. MaxCommits /\ submit.id \in EventIDs
      /\ Len(ring) \in Nat
  BY <1>1 DEF TInv
<1>3. CASE BeginSubmit
  <2>1. /\ submit' = [submit EXCEPT !.at = "get", !.commit = submit.commit + 1]
        /\ submit.at = "idle" /\ submit.commit < MaxCommits
        /\ lastCommitStamp' = lastCommitStamp + 1
        /\ UNCHANGED <<queues, lastID, ring, fe, hung, hangs, raised, pendingEvent,
                       interruptCount, pending, wake, notify, monitor, recovery, late,
                       performed, skipped, wiped, mistaken>>
    BY <1>3 DEF BeginSubmit, eventVars, feVars, countVars, monitorVars, histVars
  <2>2. submit.commit + 1 \in 0 .. MaxCommits
    BY <1>2, <2>1
  <2>3. /\ submit' \in [at : {"idle", "get", "count", "event", "execute"}, id : EventIDs,
                        commit : 0 .. MaxCommits]
        /\ submit'.at = "get" /\ submit'.commit = submit.commit + 1
    BY <1>1, <2>1, <2>2
  <2>4. RecoveryTypeOK'
    <3>1. lastCommitStamp' \in Nat
      BY <1>1, <2>1
    <3> QED
      BY <1>1, <2>1, <2>3, <3>1 DEF RecoveryTypeOK
  <2> QED
    BY <1>2, <2>1, <2>3, <2>4 DEF TInv
<1>4. CASE GetSlot
  <2>1. PICK i \in EventIDs :
          /\ queues' = [queues EXCEPT ![i] = submit.commit]
          /\ lastID' = (i + 1) % NumEvents
          /\ submit' = [submit EXCEPT !.at = "count", !.id = i]
    BY <1>4 DEF GetSlot
  <2>2. /\ submit.at = "get"
        /\ UNCHANGED <<lastCommitStamp, ring, fe, hung, hangs, raised, pendingEvent,
                       interruptCount, pending, wake, notify, monitor, recovery, late,
                       performed, skipped, wiped>>
    BY <1>4 DEF GetSlot, feVars, countVars, monitorVars
  <2>3. lastID' \in EventIDs
    BY <2>1 DEF EventIDs
  <2>4. queues' \in [EventIDs -> 0 .. MaxCommits]
    BY <1>1, <1>2, <2>1
  <2>5. /\ submit' \in [at : {"idle", "get", "count", "event", "execute"}, id : EventIDs,
                        commit : 0 .. MaxCommits]
        /\ submit'.at = "count" /\ submit'.commit = submit.commit
    BY <1>1, <2>1
  <2>6. mistaken' \in BOOLEAN
    BY <1>1, <1>4 DEF GetSlot
  <2>7. RecoveryTypeOK'
    BY <1>1, <2>2, <2>3, <2>4, <2>5, <2>6 DEF RecoveryTypeOK
  <2> QED
    BY <1>2, <2>2, <2>5, <2>7 DEF TInv
<1>5. CASE Count \/ WriteEvent
  <2>1. /\ UNCHANGED <<queues, lastID, lastCommitStamp, ring, fe, hung, hangs, raised, pending,
                       wake, notify, monitor, recovery, late, performed, skipped, wiped, mistaken>>
        /\ interruptCount' \in Int /\ pendingEvent' \subseteq EventIDs
    BY <1>1, <1>2, <1>5 DEF Count, WriteEvent, eventVars, feVars, monitorVars, histVars
  <2>2. PICK a \in {"event", "execute"} : submit' = [submit EXCEPT !.at = a] /\ submit.at # "idle"
    BY <1>5 DEF Count, WriteEvent
  <2>3. /\ submit' \in [at : {"idle", "get", "count", "event", "execute"}, id : EventIDs,
                        commit : 0 .. MaxCommits]
        /\ submit'.at # "idle" /\ submit'.commit = submit.commit
    BY <1>1, <2>2
  <2> QED
    BY <1>1, <1>2, <2>1, <2>2, <2>3 DEF TInv, RecoveryTypeOK
<1>6. CASE ExecuteEvent
  <2>1. /\ ring' = Append(ring, submit.id) /\ submit.at = "execute"
        /\ submit' = [submit EXCEPT !.at = "idle"]
        /\ late' = late \ {"submit"}
        /\ UNCHANGED <<queues, lastID, lastCommitStamp, fe, hung, hangs, raised, pendingEvent,
                       interruptCount, pending, wake, notify, monitor, recovery,
                       performed, skipped, wiped, mistaken>>
    BY <1>6 DEF ExecuteEvent, eventVars, countVars, monitorVars, histVars
  <2>2. ring' \in Seq(EventIDs) /\ Len(ring') = Len(ring) + 1
    BY <1>1, <1>2, <2>1, SMTT(30)
  <2>3. fe' \in 0 .. Len(ring')
    <3>1. fe \in Nat /\ fe <= Len(ring) /\ fe' = fe
      BY <1>1, <1>2, <2>1
    <3> QED
      BY <1>2, <2>2, <3>1
  <2>4. /\ submit' \in [at : {"idle", "get", "count", "event", "execute"}, id : EventIDs,
                        commit : 0 .. MaxCommits]
        /\ submit'.at = "idle" /\ submit'.commit = submit.commit
    BY <1>1, <2>1
  <2>5. RecoveryTypeOK'
    BY <1>1, <2>1, <2>2, <2>3, <2>4 DEF RecoveryTypeOK
  <2> QED
    BY <1>2, <2>1, <2>2, <2>4, <2>5 DEF TInv
<1>7. CASE Pass
  <2>1. /\ fe < Len(ring) /\ fe' = fe + 1 /\ raised' = raised \cup {ring[fe + 1]}
        /\ late' = late \ {"frontEnd"}
        /\ UNCHANGED <<queues, lastID, submit, lastCommitStamp, ring, hung, hangs, pendingEvent,
                       interruptCount, pending, wake, notify, monitor, recovery,
                       performed, skipped, wiped, mistaken>>
    BY <1>7 DEF Pass, eventVars, submitVars, countVars, monitorVars, histVars
  <2>2. fe' \in 0 .. Len(ring) /\ ring[fe + 1] \in EventIDs
    BY <1>1, <1>2, <2>1
  <2> QED
    BY <1>1, <1>2, <2>1, <2>2 DEF TInv, RecoveryTypeOK
<1>8. CASE Hang
  <2>1. /\ hung' = TRUE /\ hangs < MaxHangs /\ hangs' = hangs + 1 /\ late' = late \ {"frontEnd"}
        /\ UNCHANGED <<queues, lastID, submit, lastCommitStamp, ring, fe, raised, pendingEvent,
                       interruptCount, pending, wake, notify, monitor, recovery,
                       performed, skipped, wiped, mistaken>>
    BY <1>8 DEF Hang, eventVars, submitVars, countVars, monitorVars, histVars
  <2> QED
    BY <1>1, <1>2, <2>1 DEF TInv, RecoveryTypeOK
<1>9. CASE TakeInterrupt
  <2>1. /\ raised' = {} /\ pendingEvent' = pendingEvent \ raised /\ pending' = pending \cup raised
        /\ interruptCount' = interruptCount - Cardinality(raised)
        /\ wake' = TRUE /\ late' = late \ {"interrupt"}
        /\ UNCHANGED <<queues, lastID, submit, lastCommitStamp, ring, fe, hung, hangs, notify,
                       monitor, recovery, performed, skipped, wiped, mistaken>>
    BY <1>9 DEF TakeInterrupt, eventVars, submitVars, feVars, monitorVars, histVars
  <2>2. interruptCount' \in Int
    <3>1. Cardinality(raised) \in Nat
      BY <1>1, MaskSize
    <3> QED
      BY <1>1, <2>1, <3>1
  <2> QED
    BY <1>1, <1>2, <2>1, <2>2 DEF TInv, RecoveryTypeOK
<1>10. CASE WakeThread
  <2>1. /\ wake' = FALSE /\ notify' = [notify EXCEPT !["interrupt"].at = "loop"]
        /\ UNCHANGED <<queues, lastID, submit, lastCommitStamp, ring, fe, hung, hangs, raised,
                       pendingEvent, interruptCount, pending, monitor, recovery, late,
                       performed, skipped, wiped, mistaken>>
    BY <1>10 DEF WakeThread, eventVars, submitVars, feVars, countVars, monitorVars, histVars
  <2>2. notify' \in [Walkers -> [at : {"idle", "loop", "walk"}, commit : 0 .. MaxCommits]]
    BY <1>1, <2>1 DEF Walkers
  <2> QED
    BY <1>1, <1>2, <2>1, <2>2 DEF TInv, RecoveryTypeOK
<1>11. ASSUME NEW w \in Walkers, Claim(w) PROVE TInv'
  <2>1. PICK i \in EventIDs :
          /\ pending' = pending \ {i}
          /\ notify' = [notify EXCEPT ![w] = [at |-> "walk", commit |-> queues[i]]]
          /\ queues' = [queues EXCEPT ![i] = 0]
    BY <1>11 DEF Claim
  <2>2. UNCHANGED <<lastID, submit, lastCommitStamp, ring, fe, hung, hangs, raised,
                    pendingEvent, interruptCount, wake, monitor, recovery, late,
                    performed, skipped, wiped, mistaken>>
    BY <1>11 DEF Claim, submitVars, feVars, countVars, monitorVars, histVars
  <2>3. notify' \in [Walkers -> [at : {"idle", "loop", "walk"}, commit : 0 .. MaxCommits]]
    <3>1. [at |-> "walk", commit |-> queues[i]]
              \in [at : {"idle", "loop", "walk"}, commit : 0 .. MaxCommits]
      BY <1>1
    <3> QED
      BY <1>1, <2>1, <3>1
  <2>4. queues' \in [EventIDs -> 0 .. MaxCommits] /\ pending' \subseteq EventIDs
    BY <1>1, <2>1
  <2> QED
    BY <1>1, <1>2, <2>2, <2>3, <2>4 DEF TInv, RecoveryTypeOK
<1>12. ASSUME NEW w \in Walkers, Walk(w) PROVE TInv'
  <2>1. /\ performed' = [performed EXCEPT ![notify[w].commit] = @ + 1]
        /\ notify' = [notify EXCEPT ![w] = [at |-> "loop", commit |-> 0]]
        /\ UNCHANGED <<queues, lastID, submit, lastCommitStamp, ring, fe, hung, hangs, raised,
                       pendingEvent, interruptCount, pending, wake, monitor, recovery, late,
                       skipped, wiped, mistaken>>
    BY <1>12 DEF Walk, eventVars, submitVars, feVars, countVars, monitorVars
  <2>2. performed' \in [Commits -> Nat]
    <3>1. \A c \in Commits : performed[c] \in Nat /\ performed[c] + 1 \in Nat
      BY <1>1
    <3>2. PICK k : k = notify[w].commit
      OBVIOUS
    <3>3. performed' = [performed EXCEPT ![k] = performed[k] + 1]
      BY <2>1, <3>2
    <3> QED
      BY <1>1, <3>1, <3>3
  <2>3. notify' \in [Walkers -> [at : {"idle", "loop", "walk"}, commit : 0 .. MaxCommits]]
    BY <1>1, <2>1
  <2> QED
    BY <1>1, <1>2, <2>1, <2>2, <2>3 DEF TInv, RecoveryTypeOK
<1>13. ASSUME NEW w \in Walkers, EndNotify(w) PROVE TInv'
  <2>1. /\ pending' = {} /\ notify' = [notify EXCEPT ![w].at = "idle"]
        /\ late' = late \ {IF w = "interrupt" THEN "notify" ELSE w}
        /\ UNCHANGED <<queues, lastID, submit, lastCommitStamp, ring, fe, hung, hangs, raised,
                       pendingEvent, interruptCount, wake, performed, skipped, wiped, mistaken>>
    BY <1>13 DEF EndNotify, eventVars, submitVars, feVars, countVars, histVars
  <2>2. \/ recovery' = "idle" /\ monitor' = [monitor EXCEPT !.monitoring = FALSE]
        \/ recovery' = recovery /\ monitor' = monitor
    BY <1>13 DEF EndNotify, monitorVars
  <2>3. /\ monitor' \in [monitoring : BOOLEAN, timer : Nat, stamp : Nat, address : Nat,
                         mask : SUBSET EventIDs]
        /\ monitor'.address = monitor.address
        /\ recovery' \in {"idle", "reset", "set", "clear", "notify"}
    BY <1>1, <2>2
  <2>4. notify' \in [Walkers -> [at : {"idle", "loop", "walk"}, commit : 0 .. MaxCommits]]
    BY <1>1, <2>1
  <2> QED
    BY <1>1, <1>2, <2>1, <2>3, <2>4 DEF TInv, RecoveryTypeOK
<1>14. CASE Tick
  <2>1. /\ interruptCount' = Pending /\ late' = UnderWay /\ recovery' \in {"reset", "idle"}
        /\ UNCHANGED <<queues, lastID, submit, lastCommitStamp, ring, fe, hung, hangs, raised,
                       pendingEvent, pending, wake, notify, performed, skipped, wiped>>
    BY <1>14 DEF Tick, eventVars, submitVars, feVars
  <2>2. interruptCount' \in Int /\ late' \subseteq {"submit", "frontEnd", "interrupt", "notify"}
    BY <1>1, <2>1 DEF Pending, UnderWay
  <2>3. \/ monitor' = [monitor EXCEPT !.monitoring = FALSE]
        \/ monitor' = [monitoring |-> TRUE, timer |-> 0, stamp |-> lastCommitStamp,
                       address |-> lastWaitLink, mask |-> pendingEvent]
        \/ monitor' = [monitor EXCEPT !.timer = monitor.timer + 1]
    <3>1. Pending \in Nat
      BY <1>1 DEF Pending
    <3> QED
      BY <1>14, <3>1 DEF Tick
  <2>4. /\ monitor' \in [monitoring : BOOLEAN, timer : Nat, stamp : Nat, address : Nat,
                         mask : SUBSET EventIDs]
        /\ monitor'.address <= Len(ring)
    <3>1. CASE monitor' = [monitor EXCEPT !.monitoring = FALSE]
      BY <1>1, <1>2, <3>1
    <3>2. CASE monitor' = [monitoring |-> TRUE, timer |-> 0, stamp |-> lastCommitStamp,
                           address |-> lastWaitLink, mask |-> pendingEvent]
      BY <1>1, <1>2, <3>2 DEF lastWaitLink
    <3>3. CASE monitor' = [monitor EXCEPT !.timer = monitor.timer + 1]
      <4>1. monitor.timer + 1 \in Nat
        BY <1>1
      <4> QED
        BY <1>1, <1>2, <3>3, <4>1
    <3> QED
      BY <2>3, <3>1, <3>2, <3>3
  <2>5. mistaken' \in BOOLEAN
    BY <1>1, <1>14 DEF Tick
  <2> QED
    BY <1>1, <1>2, <2>1, <2>2, <2>4, <2>5 DEF TInv, RecoveryTypeOK
<1>15. CASE Reset
  <2>1. /\ hung' = FALSE /\ fe' = monitor.address /\ raised' = {} /\ recovery' = "set"
        /\ skipped' = skipped \cup (fe + 1 .. monitor.address)
        /\ late' = late \ {"frontEnd", "interrupt"}
        /\ UNCHANGED <<queues, lastID, submit, lastCommitStamp, ring, hangs, pendingEvent,
                       interruptCount, pending, wake, notify, monitor, performed, wiped, mistaken>>
    BY <1>15 DEF Reset, eventVars, submitVars, countVars
  <2>2. fe' \in 0 .. Len(ring)
    BY <1>2, <2>1
  <2>3. skipped' \subseteq Commits
    <3>1. Len(ring) <= MaxCommits /\ fe \in Nat
      BY <1>1, <1>2
    <3>2. \A c \in fe + 1 .. monitor.address : c \in Commits
      BY <1>2, <3>1 DEF Commits
    <3> QED
      BY <1>1, <2>1, <3>2
  <2> QED
    BY <1>1, <1>2, <2>1, <2>2, <2>3 DEF TInv, RecoveryTypeOK
<1>16. CASE SetPending
  <2>1. /\ pending' = monitor.mask /\ recovery' = "clear"
        /\ wiped' = wiped \cup {queues[i] : i \in Triggered \ monitor.mask}
        /\ UNCHANGED <<queues, lastID, submit, lastCommitStamp, ring, fe, hung, hangs, raised,
                       pendingEvent, interruptCount, wake, notify, monitor, late,
                       performed, skipped, mistaken>>
    BY <1>16 DEF SetPending, eventVars, submitVars, feVars, countVars
  <2>2. pending' \subseteq EventIDs
    BY <1>1, <2>1
  <2>3. wiped' \subseteq Commits
    <3>1. \A i \in Triggered : queues[i] \in Commits
      BY <1>1 DEF Triggered, Busy, Commits
    <3> QED
      BY <1>1, <2>1, <3>1
  <2> QED
    BY <1>1, <1>2, <2>1, <2>2, <2>3 DEF TInv, RecoveryTypeOK
<1>17. CASE ClearPendingEvent
  <2>1. /\ interruptCount' = interruptCount - Cardinality(monitor.mask)
        /\ pendingEvent' = pendingEvent \ monitor.mask /\ recovery' = "notify"
        /\ notify' = [notify EXCEPT !["monitor"].at = "loop"]
        /\ UNCHANGED <<queues, lastID, submit, lastCommitStamp, ring, fe, hung, hangs, raised,
                       pending, wake, monitor, late, performed, skipped, wiped, mistaken>>
    BY <1>17 DEF ClearPendingEvent, eventVars, submitVars, feVars, histVars
  <2>2. interruptCount' \in Int
    <3>1. monitor.mask \subseteq EventIDs
      BY <1>1
    <3>2. Cardinality(monitor.mask) \in Nat
      BY <3>1, MaskSize
    <3> QED
      BY <1>1, <2>1, <3>2
  <2>3. notify' \in [Walkers -> [at : {"idle", "loop", "walk"}, commit : 0 .. MaxCommits]]
    BY <1>1, <2>1 DEF Walkers
  <2> QED
    BY <1>1, <1>2, <2>1, <2>2, <2>3 DEF TInv, RecoveryTypeOK
<1>18. CASE UNCHANGED recoveryVars
  <2>1. UNCHANGED <<queues, lastID, submit, lastCommitStamp, ring, fe, hung, hangs, raised,
                    pendingEvent, interruptCount, pending, wake, notify, monitor, recovery,
                    late, performed, skipped, wiped, mistaken>>
    BY <1>18 DEF recoveryVars, eventVars, submitVars, feVars, countVars, monitorVars, histVars
  <2> QED
    BY <1>1, <1>2, <2>1 DEF TInv, RecoveryTypeOK
<1> QED
  BY <1>3, <1>4, <1>5, <1>6, <1>7, <1>8, <1>9, <1>10, <1>11, <1>12, <1>13, <1>14, <1>15,
     <1>16, <1>17, <1>18
  DEF RecoveryNext, FinishSubmit, Notify, Recover

(* The slots, the fields of the monitor and the places of both walks keep    *)
(* their types; gckKERNEL_Recovery leaves the front end inside the ring.     *)
THEOREM RecoveryTyped == RecoverySpec => []RecoveryTypeOK
<1>1. TInv => RecoveryTypeOK
  BY DEF TInv
<1>2. TInv /\ [RecoveryNext]_recoveryVars => TInv'
  BY TInvNext
<1> QED
  BY <1>1, <1>2, InitTInv, PTL DEF RecoverySpec

=============================================================================
