---------------------------- MODULE CommandQueue ----------------------------
(***************************************************************************)
(* The kernel command queue of the WAIT/LINK front end, gckCOMMAND         *)
(* (hal/kernel/gc_hal_kernel_command.c).                                   *)
(*                                                                         *)
(* The queue is a ring of pages.  The front end (FE) of the GPU spins on a *)
(* WAIT/LINK at the end of what was written.  To have a user's command     *)
(* buffer or an EVENT executed, the driver writes a new WAIT/LINK behind   *)
(* it and only then turns the old WAIT into a LINK to it.  A page that is  *)
(* full is given back by a signal, which an event raises when the FE has   *)
(* left the page: _NewQueue waits for that signal before it writes to a    *)
(* page again.                                                             *)
(*                                                                         *)
(* The unit of space is a WAIT/LINK; an EVENT or a flush of the MMU takes  *)
(* one unit as well.  The event manager is used as EventDelivery describes *)
(* it.                                                                     *)
(***************************************************************************)
EXTENDS Integers, Sequences, FiniteSets

CONSTANTS
    Threads,    \* kernel threads that commit and submit
    Power,      \* the power management of the core, or the driver's start
    NoOne,      \* holder of a free lock
    Contexts,   \* gckCONTEXT objects
    NoContext,  \* gcvNULL
    NumPages,   \* gcdCOMMAND_QUEUES: 2 in the driver
    PageSize,   \* units of a page: 4096 bytes, some 256 WAIT/LINKs
    MaxChain,   \* bound on the command buffers of a commit (cmdLoc->next)
    MaxItems,   \* bound on the commands linked when new work starts
    MaxFlushes, \* bound on the flushes of the MMU
    MaxFails,   \* bound on the commits that fail
    MaxStops    \* bound on the power transitions

ASSUME ActorsAssumption == Power \notin Threads /\ NoOne \notin Threads \cup {Power}
ASSUME ContextsAssumption == NoContext \notin Contexts
ASSUME SizesAssumption ==
    /\ NumPages \in Nat /\ NumPages >= 2 /\ PageSize \in Nat /\ PageSize >= 2
    /\ MaxChain \in Nat \ {0} /\ MaxItems \in Nat
    /\ MaxFlushes \in Nat /\ MaxFails \in Nat /\ MaxStops \in Nat

Actors == Threads \cup {Power}
Pages == 0 .. NumPages - 1
gcvKERNEL_COMMAND == 0
gcvKERNEL_PIXEL == 4

\* Where the FE can be: in a page, in a user's command buffer (number item,
\* made for context ctx, entered through the context's own buffer if load,
\* whose tail links to back), paused by the END in a page, or stopped.
At(p, o) == [kind |-> "page", page |-> p, off |-> o]
InBuffer(n, c, load, back) ==
    [kind |-> "buffer", item |-> n, ctx |-> c, load |-> load, back |-> back]
Paused(p, o) == [kind |-> "paused", page |-> p, off |-> o]
Stopped == [kind |-> "stopped"]

\* The commands of a page.  Those of the kernel itself are the EVENT of a batch
\* of records, the flush of the MMU, and the EVENT and END that pause the FE.
Unwritten == [op |-> "none"]
Wait == [op |-> "wait"]
End == [op |-> "end"]
Link(to) == [op |-> "link", to |-> to]
KernelCommands == {"event", "flush", "pause"}
KernelCommand(op, n, pages) == [op |-> op, item |-> n, pages |-> pages]

VARIABLES
    mem,            \* contents of the pages
    index, offset, newQueue, waitPos, running, currContext, \* of gckCOMMAND
    pageSignal,     \* queues[i].signal, reset by the wait that takes it
    powerSemaphore, mutexQueue, commitMutex, \* their holders
    list,           \* the event manager's list: source and page signals
    command, batch, \* the kernel command being reserved, and its page signals
    raised,         \* page signals of EVENTs the FE has executed
    pc, left, ctx,  \* of each actor: place, buffers left, Context
    loading,        \* whether the commit goes through the context's buffer
    fe,             \* where the FE is
    gpuCtx,         \* the context whose state the GPU has
    issued,         \* number of items linked
    executed,       \* number of items the FE has executed
    flushes, fails, stops \* counters of the bounds

queueVars == <<mem, index, offset, newQueue, waitPos>>
lockVars == <<powerSemaphore, mutexQueue, commitMutex>>
eventVars == <<list, command, batch, raised>>
actorVars == <<pc, left, ctx, loading>>
gpuVars == <<fe, gpuCtx, executed>>
boundVars == <<flushes, fails, stops>>
vars == <<queueVars, running, currContext, pageSignal, lockVars, eventVars, actorVars,
          gpuVars, issued, boundVars>>

\* The driver is loaded, its queue not started.
Init ==
    /\ mem = [p \in Pages |-> [o \in 0 .. PageSize - 1 |-> Unwritten]]
    /\ index = -1 /\ offset = 0 /\ newQueue = FALSE /\ waitPos = At(0, 0)
    /\ running = FALSE /\ currContext = NoContext
    /\ pageSignal = [p \in Pages |-> TRUE]
    /\ powerSemaphore = Power /\ mutexQueue = NoOne /\ commitMutex = NoOne
    /\ list = <<>> /\ command = "event" /\ batch = {} /\ raised = {}
    /\ pc = [a \in Actors |-> IF a = Power THEN "off" ELSE "idle"]
    /\ left = [t \in Threads |-> 0] /\ ctx = [t \in Threads |-> NoContext]
    /\ loading = FALSE
    /\ fe = Stopped /\ gpuCtx = NoContext /\ executed = 0
    /\ issued = 0 /\ flushes = 0 /\ fails = 0 /\ stops = 0

Goto(a, place) == pc' = [pc EXCEPT ![a] = place]

Room == PageSize - offset

-----------------------------------------------------------------------------
(* Events.  A record joins the last queue of the list unless that is of an *)
(* earlier source (gckEVENT_AddList).                                      *)

AddRecord(source, pages) ==
    list' = IF list = <<>> \/ list[Len(list)].source < source
            THEN Append(list, [source |-> source, pages |-> pages])
            ELSE [list EXCEPT ![Len(list)].pages = @ \cup pages]

\* The interrupt thread signals a page whose EVENT was executed.
NotifyPage ==
    /\ \E p \in raised :
        /\ raised' = raised \ {p}
        /\ pageSignal' = [pageSignal EXCEPT ![p] = TRUE]
    /\ UNCHANGED <<queueVars, running, currContext, lockVars, list, command, batch, actorVars,
                   gpuVars, issued, boundVars>>

-----------------------------------------------------------------------------
(* _NewQueue waits for the next page and gives the current one back: at    *)
(* once when the FE is stopped, else with the next events.                 *)

NextPage == (index + 1) % NumPages

TakePage == index' = NextPage /\ offset' = 0 /\ newQueue' = TRUE

\* Seeded fault: the page is given back without waiting for the FE.
NewQueueAtOnce ==
    /\ pageSignal[NextPage]
    /\ TakePage
    /\ pageSignal' = [pageSignal EXCEPT ![NextPage] = FALSE, ![index] = TRUE]
    /\ UNCHANGED list

\* Seeded fault: the signal of the next page is not waited for.
NewQueueUnwaited ==
    /\ TakePage
    /\ pageSignal' = [pageSignal EXCEPT ![NextPage] = FALSE]
    /\ AddRecord(gcvKERNEL_COMMAND, {index})

\* Seeded fault: the page left is never given back.
NewQueueKeep ==
    /\ pageSignal[NextPage]
    /\ TakePage
    /\ pageSignal' = [pageSignal EXCEPT ![NextPage] = FALSE]
    /\ UNCHANGED list

NewQueue ==
    /\ pageSignal[NextPage]
    /\ TakePage
    /\ pageSignal' = [pageSignal EXCEPT ![NextPage] = FALSE]
    /\ AddRecord(gcvKERNEL_COMMAND, {index})

NewQueueStalled ==
    /\ pageSignal[NextPage]
    /\ TakePage
    /\ pageSignal' = [p \in Pages |-> IF p = NextPage THEN FALSE
                                      ELSE p = index \/ pageSignal[p]]

\* Where the commands now written are entered.
Entry == At(index, IF newQueue THEN 0 ELSE offset)

\* The old WAIT becomes a LINK, the WAIT of size units further is the last.
LinkTo(to, size) ==
    /\ mem' = [mem EXCEPT ![waitPos.page][waitPos.off] = Link(to)]
    /\ waitPos' = At(index, offset + size - 1)
    /\ offset' = offset + size
    /\ newQueue' = FALSE
    /\ issued' = issued + 1

-----------------------------------------------------------------------------
(* gckCOMMAND_EnterCommit and gckCOMMAND_ExitCommit.  Power management     *)
(* already has the power semaphore (FromPower).                            *)

EnterCommit(a, here, next) ==
    /\ pc[a] = here /\ mutexQueue = NoOne
    /\ IF a = Power THEN UNCHANGED powerSemaphore
       ELSE powerSemaphore = NoOne /\ powerSemaphore' = a
    /\ mutexQueue' = a
    /\ Goto(a, next)

ExitCommit(a) ==
    /\ mutexQueue' = NoOne
    /\ powerSemaphore' = IF a = Power THEN Power ELSE NoOne

-----------------------------------------------------------------------------
(* The commit ioctl (_Commit): gckCOMMAND_Commit runs _CommitWaitLinkOnce  *)
(* for each command buffer of the chain, the context only for the first,   *)
(* and gckEVENT_Commit submits the events at the end.  Device->commitMutex *)
(* is held throughout.                                                     *)

StartCommit(t) ==
    /\ pc[t] = "idle" /\ commitMutex = NoOne
    /\ commitMutex' = t
    /\ \E n \in 1 .. MaxChain : issued + n <= MaxItems /\ left' = [left EXCEPT ![t] = n]
    /\ \E c \in Contexts \cup {NoContext} : ctx' = [ctx EXCEPT ![t] = c]
    /\ Goto(t, "enter")
    /\ UNCHANGED <<queueVars, running, currContext, pageSignal, powerSemaphore, mutexQueue,
                   eventVars, loading, gpuVars, issued, boundVars>>

CommitEnter(t) ==
    /\ EnterCommit(t, "enter", "flush")
    /\ UNCHANGED <<queueVars, running, currContext, pageSignal, commitMutex, eventVars,
                   left, ctx, loading, gpuVars, issued, boundVars>>

\* _CheckFlushMMU: when the page table has changed, a command of the kernel is
\* reserved and executed first.  A dummy draw (_DummyDraw) and a wait for the
\* other engine (_WaitForAsyncCommandStamp) are commands of the same kind.
CommitFlush(t) ==
    /\ pc[t] = "flush"
    /\ \/ Goto(t, "space") /\ UNCHANGED <<command, flushes>>
       \/ /\ flushes < MaxFlushes /\ flushes' = flushes + 1
          /\ command' = "flush" /\ Goto(t, "reserve")
    /\ UNCHANGED <<queueVars, running, currContext, pageSignal, lockVars, list, batch, raised,
                   left, ctx, loading, gpuVars, issued, fails, stops>>

\* "Is there enough space in the current command queue?"
CommitSpace(t) ==
    /\ pc[t] = "space"
    /\ IF Room >= 1
       THEN UNCHANGED <<index, offset, newQueue, pageSignal, list>>
       ELSE NewQueue
    /\ Goto(t, "write")
    /\ UNCHANGED <<mem, waitPos, running, currContext, lockVars, command, batch, raised, left,
                   ctx, loading, gpuVars, issued, boundVars>>

\* The ioctl returns, and does not submit the events.
AbandonCommit(t) ==
    /\ ExitCommit(t) /\ commitMutex' = NoOne
    /\ left' = [left EXCEPT ![t] = 0] /\ ctx' = [ctx EXCEPT ![t] = NoContext]
    /\ loading' = FALSE
    /\ Goto(t, "idle")

\* The patch list or the pipe of the buffer is wrong, or the merge of the state
\* deltas fails (gckCONTEXT_Update).
CommitFail(t) ==
    /\ pc[t] = "write" /\ fails < MaxFails
    /\ fails' = fails + 1
    /\ AbandonCommit(t)
    /\ UNCHANGED <<queueVars, running, currContext, pageSignal, eventVars, gpuVars, issued,
                   flushes, stops>>

Switches(c) == c # NoContext /\ c # currContext

\* "Context switch required?"; the WAIT/LINK to come back to is written.
CommitWrite(t) ==
    /\ pc[t] = "write"
    /\ mem' = [mem EXCEPT ![index][offset] = Wait]
    /\ loading' = Switches(ctx[t])
    /\ currContext' = ctx[t]
    /\ Goto(t, "link")
    /\ UNCHANGED <<index, offset, newQueue, waitPos, running, pageSignal, lockVars, eventVars,
                   left, ctx, gpuVars, issued, boundVars>>

\* The last WAIT is turned into the LINK to the buffer, whose tail links back
\* to the new WAIT; the queue is released for the next buffer of the chain.
CommitLink(t) ==
    /\ pc[t] = "link"
    /\ LinkTo(InBuffer(issued + 1, ctx[t], loading, Entry), 1)
    /\ ExitCommit(t)
    /\ left' = [left EXCEPT ![t] = @ - 1]
    /\ ctx' = [ctx EXCEPT ![t] = NoContext] /\ loading' = FALSE
    /\ Goto(t, IF left[t] = 1 THEN "events" ELSE "enter")
    /\ UNCHANGED <<index, running, currContext, pageSignal, commitMutex, eventVars, gpuVars,
                   boundVars>>

-----------------------------------------------------------------------------
(* gckEVENT_Commit and gckCOMMAND_Stall end in gckEVENT_Submit.            *)

\* gckEVENT_Commit adds the user's own events, if there are any.
UserEvents(t) ==
    /\ pc[t] = "events"
    /\ AddRecord(gcvKERNEL_PIXEL, {}) \/ UNCHANGED list
    /\ Goto(t, "check")
    /\ UNCHANGED <<queueVars, running, currContext, pageSignal, lockVars, command, batch, raised,
                   left, ctx, loading, gpuVars, issued, boundVars>>

\* gckCOMMAND_Stall of a thread that has nothing to commit.
Stall(t) ==
    /\ pc[t] = "idle" /\ issued < MaxItems
    /\ AddRecord(gcvKERNEL_PIXEL, {})
    /\ Goto(t, "check")
    /\ UNCHANGED <<queueVars, running, currContext, pageSignal, lockVars, command, batch, raised,
                   left, ctx, loading, gpuVars, issued, boundVars>>

Return(a) ==
    /\ Goto(a, IF a = Power THEN "stall" ELSE "idle")
    /\ commitMutex' = IF commitMutex = a THEN NoOne ELSE commitMutex

\* "Are there event queues?"
SubmitCheck(a) ==
    /\ pc[a] = "check"
    /\ IF list = <<>> THEN Return(a) ELSE Goto(a, "submit") /\ UNCHANGED commitMutex
    /\ UNCHANGED <<queueVars, running, currContext, pageSignal, powerSemaphore, mutexQueue,
                   eventVars, left, ctx, loading, gpuVars, issued, boundVars>>

SubmitEnter(a) ==
    /\ EnterCommit(a, "submit", "loop")
    /\ UNCHANGED <<queueVars, running, currContext, pageSignal, commitMutex, eventVars,
                   left, ctx, loading, gpuVars, issued, boundVars>>

\* The first queue of the list gets an event slot.
SubmitNext(a) ==
    /\ pc[a] = "loop" /\ list # <<>>
    /\ command' = "event" /\ batch' = list[1].pages /\ list' = Tail(list)
    /\ Goto(a, "reserve")
    /\ UNCHANGED <<queueVars, running, currContext, pageSignal, lockVars, raised, left, ctx,
                   loading, gpuVars, issued, boundVars>>

SubmitExit(a) ==
    /\ pc[a] = "loop" /\ list = <<>>
    /\ ExitCommit(a)
    /\ Return(a)
    /\ UNCHANGED <<queueVars, running, currContext, pageSignal, eventVars, left, ctx, loading,
                   gpuVars, issued, boundVars>>

\* gckCOMMAND_Reserve: room for the command and for the WAIT/LINK behind it.
Reserve(a) ==
    /\ pc[a] = "reserve"
    /\ IF Room >= 2
       THEN UNCHANGED <<index, offset, newQueue, pageSignal, list>>
       ELSE NewQueue
    /\ Goto(a, "fill")
    /\ UNCHANGED <<mem, waitPos, running, currContext, lockVars, command, batch, raised, left,
                   ctx, loading, gpuVars, issued, boundVars>>

\* The command and the WAIT/LINK behind it are written ...
Fill(a) ==
    /\ pc[a] = "fill"
    /\ mem' = [mem EXCEPT ![index] =
                  [@ EXCEPT ![offset] = KernelCommand(command, issued + 1, batch),
                            ![offset + 1] = Wait]]
    /\ Goto(a, "execute")
    /\ UNCHANGED <<index, offset, newQueue, waitPos, running, currContext, pageSignal, lockVars,
                   eventVars, left, ctx, loading, gpuVars, issued, boundVars>>

\* ... and gckCOMMAND_Execute turns the last WAIT into the LINK to it.  The FE
\* is paused behind a flush if it may have prefetched by the old page table.
Execute(a) ==
    /\ pc[a] = "execute"
    /\ LinkTo(Entry, 2)
    /\ batch' = {}
    /\ \/ command = "event" /\ Goto(a, "loop") /\ UNCHANGED command
       \/ command # "event" /\ Goto(a, "space") /\ UNCHANGED command
       \/ command = "flush" /\ command' = "pause" /\ Goto(a, "reserve")
    /\ UNCHANGED <<index, running, currContext, pageSignal, lockVars, list, raised, left, ctx,
                   loading, gpuVars, boundVars>>

-----------------------------------------------------------------------------
(* The FE (external).                                                      *)

Cell == mem[fe.page][fe.off]

FetchLink ==
    /\ fe.kind = "page" /\ Cell.op = "link"
    /\ fe' = Cell.to
    /\ UNCHANGED <<gpuCtx, executed, raised>>

FetchCommand ==
    /\ fe.kind = "page" /\ Cell.op \in {"event", "flush"}
    /\ fe' = At(fe.page, fe.off + 1)
    /\ raised' = raised \cup Cell.pages
    /\ executed' = executed + 1
    /\ UNCHANGED gpuCtx

FetchPause ==
    /\ fe.kind = "page" /\ Cell.op = "pause"
    /\ fe' = Paused(fe.page, fe.off)
    /\ executed' = executed + 1
    /\ UNCHANGED <<gpuCtx, raised>>

FetchEnd ==
    /\ fe.kind = "page" /\ Cell.op = "end"
    /\ fe' = Stopped
    /\ UNCHANGED <<gpuCtx, executed, raised>>

LoadContext ==
    /\ fe.kind = "buffer" /\ fe.load
    /\ gpuCtx' = fe.ctx /\ fe' = [fe EXCEPT !.load = FALSE]
    /\ UNCHANGED <<executed, raised>>

\* A buffer without a context leaves the GPU in a state of its own.
ExecuteBuffer ==
    /\ fe.kind = "buffer" /\ ~fe.load
    /\ fe' = fe.back
    /\ executed' = executed + 1
    /\ gpuCtx' = IF fe.ctx = NoContext THEN NoContext ELSE gpuCtx
    /\ UNCHANGED raised

FrontEnd ==
    /\ FetchLink \/ FetchCommand \/ FetchPause \/ FetchEnd \/ LoadContext \/ ExecuteBuffer
    /\ UNCHANGED <<queueVars, running, currContext, pageSignal, lockVars, list, command, batch,
                   actorVars, issued, boundVars>>

\* The interrupt routine lets a paused FE go on behind the END.
ResumeWaitLinkFE ==
    /\ fe.kind = "paused"
    /\ fe' = At(fe.page, fe.off + 1)
    /\ UNCHANGED <<queueVars, running, currContext, pageSignal, lockVars, eventVars, actorVars,
                   gpuCtx, executed, issued, boundVars>>

Spinning == fe.kind = "page" /\ fe = waitPos /\ Cell = Wait

-----------------------------------------------------------------------------
(* Power management (gckHARDWARE_SetPowerManagementState) and the driver's *)
(* start.  It takes the power semaphore, so that no commit is under way;   *)
(* then it stalls, or, for a state broadcast by the driver itself, goes on *)
(* only if the GPU is idle.                                                *)

PowerAcquire ==
    /\ pc[Power] = "on" /\ powerSemaphore = NoOne /\ stops < MaxStops
    /\ powerSemaphore' = Power /\ stops' = stops + 1
    /\ \/ Spinning /\ Goto(Power, "stop") /\ UNCHANGED list
       \/ issued < MaxItems /\ AddRecord(gcvKERNEL_PIXEL, {}) /\ Goto(Power, "check")
    /\ UNCHANGED <<queueVars, running, currContext, pageSignal, mutexQueue, commitMutex, command,
                   batch, raised, left, ctx, loading, gpuVars, issued, flushes, fails>>

\* The signal of gckCOMMAND_Stall cannot come before the FE got past it.
PowerStalled ==
    /\ pc[Power] = "stall" /\ Spinning
    /\ Goto(Power, "stop")
    /\ UNCHANGED <<queueVars, running, currContext, pageSignal, lockVars, eventVars, left, ctx,
                   loading, gpuVars, issued, boundVars>>

\* gckCOMMAND_Stop replaces the last WAIT by an END and waits for idle.
Stop ==
    /\ pc[Power] = "stop" /\ running
    /\ mem' = [mem EXCEPT ![waitPos.page][waitPos.off] = End]
    /\ Goto(Power, "stopping")
    /\ UNCHANGED <<index, offset, newQueue, waitPos, running, currContext, pageSignal, lockVars,
                   eventVars, left, ctx, loading, gpuVars, issued, boundVars>>

Stopping ==
    /\ pc[Power] = "stopping" /\ fe = Stopped
    /\ running' = FALSE
    /\ Goto(Power, "off")
    /\ UNCHANGED <<queueVars, currContext, pageSignal, lockVars, eventVars, left, ctx, loading,
                   gpuVars, issued, boundVars>>

\* Seeded fault: the driver forgets that the GPU has lost the context.
InitializeHardwareKeep ==
    /\ pc[Power] = "off"
    /\ gpuCtx' = NoContext
    /\ Goto(Power, "start")
    /\ UNCHANGED <<queueVars, running, currContext, pageSignal, lockVars, eventVars, left, ctx,
                   loading, fe, executed, issued, boundVars>>

\* The GPU was without power: the context is to be loaded again.
InitializeHardware ==
    /\ pc[Power] = "off"
    /\ gpuCtx' = NoContext /\ currContext' = NoContext
    /\ Goto(Power, "start")
    /\ UNCHANGED <<queueVars, running, pageSignal, lockVars, eventVars, left, ctx,
                   loading, fe, executed, issued, boundVars>>

\* gckCOMMAND_Start, from a suspended GPU or after InitializeHardware, first
\* takes a new page if there is none or no room.
StartPage ==
    /\ pc[Power] \in {"off", "start"} /\ ~running
    /\ IF index # -1 /\ Room >= 1
       THEN UNCHANGED <<index, offset, newQueue, pageSignal>>
       ELSE NewQueueStalled
    /\ Goto(Power, "run")
    /\ UNCHANGED <<mem, waitPos, running, currContext, lockVars, eventVars, left, ctx, loading,
                   gpuVars, issued, boundVars>>

\* Then it writes a WAIT/LINK and lets the FE execute it.
Start ==
    /\ pc[Power] = "run"
    /\ mem' = [mem EXCEPT ![index][offset] = Wait]
    /\ waitPos' = At(index, offset)
    /\ offset' = offset + 1 /\ newQueue' = FALSE
    /\ fe' = At(index, offset) /\ running' = TRUE
    /\ powerSemaphore' = NoOne
    /\ Goto(Power, "on")
    /\ UNCHANGED <<index, currContext, pageSignal, mutexQueue, commitMutex, eventVars, left, ctx,
                   loading, gpuCtx, executed, issued, boundVars>>

-----------------------------------------------------------------------------
Commit(t) ==
    \/ StartCommit(t) \/ CommitEnter(t) \/ CommitFlush(t) \/ CommitSpace(t)
    \/ CommitFail(t) \/ CommitWrite(t) \/ CommitLink(t)

Submit(a) ==
    \/ SubmitCheck(a) \/ SubmitEnter(a) \/ SubmitNext(a) \/ SubmitExit(a)
    \/ Reserve(a) \/ Fill(a) \/ Execute(a)

PowerManagement ==
    \/ PowerAcquire \/ PowerStalled \/ Stop \/ Stopping
    \/ InitializeHardware \/ StartPage \/ Start

Next ==
    \/ \E t \in Threads : Commit(t) \/ UserEvents(t) \/ Stall(t)
    \/ \E a \in Actors : Submit(a)
    \/ PowerManagement \/ FrontEnd \/ ResumeWaitLinkFE \/ NotifyPage

Spec == Init /\ [][Next]_vars

\* A thread in the driver runs on, the semaphores and mutexes are granted to
\* every waiter, the FE runs, executed events are notified, and a GPU that was
\* switched off is switched on again (gckCOMMAND_EnterCommit broadcasts the
\* commit to power management before it takes the semaphore).
Fairness ==
    /\ \A t \in Threads :
        /\ SF_vars(CommitEnter(t)) /\ WF_vars(CommitFlush(t)) /\ WF_vars(CommitSpace(t))
        /\ WF_vars(CommitWrite(t)) /\ WF_vars(CommitLink(t)) /\ WF_vars(UserEvents(t))
    /\ \A a \in Actors : SF_vars(SubmitEnter(a)) /\ WF_vars(Submit(a))
    /\ WF_vars(PowerStalled) /\ WF_vars(Stop) /\ WF_vars(Stopping)
    /\ WF_vars(StartPage) /\ WF_vars(Start)
    /\ WF_vars(FrontEnd) /\ WF_vars(ResumeWaitLinkFE) /\ WF_vars(NotifyPage)

LiveSpec == Spec /\ Fairness

-----------------------------------------------------------------------------
(* The error path behind the choice of the context, kept out of Next: the  *)
(* handle of the command buffer is looked up (gckVIDMEM_HANDLE_Lookup)     *)
(* when currContext has been set and the WAIT/LINK written.                *)

CommitFailLate(t) ==
    /\ pc[t] = "link" /\ fails < MaxFails
    /\ fails' = fails + 1
    /\ AbandonCommit(t)
    /\ UNCHANGED <<queueVars, running, currContext, pageSignal, eventVars, gpuVars, issued,
                   flushes, stops>>

FailingSpec == Init /\ [][Next \/ \E t \in Threads : CommitFailLate(t)]_vars

-----------------------------------------------------------------------------
PagePlaces == [kind : {"page"}, page : Pages, off : 0 .. PageSize - 1]
Places ==
    PagePlaces \cup [kind : {"paused"}, page : Pages, off : 0 .. PageSize - 1]
    \cup [kind : {"stopped"}]
    \cup [kind : {"buffer"}, item : Nat \ {0}, ctx : Contexts \cup {NoContext}, load : BOOLEAN,
          back : PagePlaces]
Commands ==
    [op : {"none", "wait", "end"}] \cup [op : {"link"}, to : Places]
    \cup [op : KernelCommands, item : Nat \ {0}, pages : SUBSET Pages]
PCs == {"idle", "enter", "flush", "space", "write", "link", "events", "check", "submit", "loop",
        "reserve", "fill", "execute", "on", "stall", "stop", "stopping", "off", "start", "run"}

\* The variables hold values of their types.
TypeOK ==
    /\ mem \in [Pages -> [0 .. PageSize - 1 -> Commands]]
    /\ index \in Pages \cup {-1} /\ offset \in 0 .. PageSize
    /\ newQueue \in BOOLEAN /\ running \in BOOLEAN /\ waitPos \in PagePlaces
    /\ currContext \in Contexts \cup {NoContext}
    /\ pageSignal \in [Pages -> BOOLEAN]
    /\ powerSemaphore \in Actors \cup {NoOne} /\ mutexQueue \in Actors \cup {NoOne}
    /\ commitMutex \in Threads \cup {NoOne}
    /\ list \in Seq([source : {gcvKERNEL_COMMAND, gcvKERNEL_PIXEL}, pages : SUBSET Pages])
    /\ command \in KernelCommands /\ batch \subseteq Pages /\ raised \subseteq Pages
    /\ pc \in [Actors -> PCs] /\ left \in [Threads -> 0 .. MaxChain]
    /\ ctx \in [Threads -> Contexts \cup {NoContext}] /\ loading \in BOOLEAN
    /\ fe \in Places /\ gpuCtx \in Contexts \cup {NoContext}
    /\ issued \in Nat /\ executed \in Nat
    /\ flushes \in 0 .. MaxFlushes /\ fails \in 0 .. MaxFails /\ stops \in 0 .. MaxStops

\* The FE only ever finds commands that were written for it: each command
\* buffer and EVENT once and in the order of the commits, no remains of the
\* last time round the ring, and it waits only at the last WAIT/LINK, with
\* everything executed.
ExecutesInOrder ==
    /\ fe.kind = "page" =>
        /\ Cell # Unwritten
        /\ Cell.op = "event" => Cell.item = executed + 1
        /\ Cell.op = "wait" => fe = waitPos /\ executed = issued
        /\ Cell.op = "end" => pc[Power] = "stopping"
    /\ fe.kind = "buffer" => fe.item = executed + 1
    /\ fe.kind = "stopped" => executed = issued

\* The EVENTs not executed yet hold these page signals.
InEvents ==
    {page \in Pages : \E p \in Pages, o \in 0 .. PageSize - 1 :
        mem[p][o].op = "event" /\ mem[p][o].item > executed /\ page \in mem[p][o].pages}
OnList == UNION {list[k].pages : k \in DOMAIN list}

Owners(p) ==
    {who \in {"free", "current", "list", "event", "raised"} :
        \/ who = "free" /\ pageSignal[p]
        \/ who = "current" /\ p = index
        \/ who = "list" /\ p \in OnList
        \/ who = "event" /\ p \in InEvents \cup batch
        \/ who = "raised" /\ p \in raised}

\* A page is free, in use, or on its way back through the events, and only one
\* of these: no page is lost and none is given back twice.
PageAccounting == \A p \in Pages : Cardinality(Owners(p)) = 1

\* A page that is given back has been left by the FE for good.
PageLeft ==
    \A p \in Pages : running /\ (pageSignal[p] \/ p \in raised) =>
        /\ waitPos.page # p
        /\ fe.kind \in {"page", "paused"} => fe.page # p
        /\ fe.kind = "buffer" => fe.back.page # p

\* A command buffer made for a context is executed with that context's state
\* in the GPU, also after commits without a context, failures and power-off.
ContextLoaded ==
    fe.kind = "buffer" /\ ~fe.load /\ fe.ctx # NoContext => gpuCtx = fe.ctx

\* A commit, stall or power transition returns: nobody waits for a page whose
\* signal only the waiting thread could submit.
CommitsReturn == \A t \in Threads : pc[t] # "idle" ~> pc[t] = "idle"

\* gc_hal_kernel.h:970: "we commit event queues every time we commit command
\* buffers", so that the page waited for in _NewQueue is on its way back.
WaitedPageSubmitted ==
    \A t \in Threads : pc[t] = "space" /\ Room < 1 => NextPage \notin OnList
=============================================================================
