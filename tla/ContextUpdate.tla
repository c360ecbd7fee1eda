---------------------------- MODULE ContextUpdate ----------------------------
(***************************************************************************)
(* The contexts of the GPU (gckCONTEXT, hal/kernel/arch/gc_hal_kernel_     *)
(* context.c), their deltas in the user library (hal/user/arch/            *)
(* gc_hal_user_hardware.c) and the commits that switch between them.       *)
(*                                                                         *)
(* The GPU has one set of registers.  A client thinks of it as its own:    *)
(* what its commits have set stays set.  To make this true the library     *)
(* records in a delta what a commit sets, and the driver keeps two context *)
(* buffers for each client, lists of commands that set every register.     *)
(* When another client's commands come in between, one of the two is       *)
(* brought up to date with the deltas recorded since it was used last, and *)
(* executed in front of the commit.  Deltas are a ring of three in memory  *)
(* that the library and the driver share.                                  *)
(*                                                                         *)
(* A State is a register, or a field of a register that is written with a  *)
(* mask.  The ring of pages is in CommandQueue, the way of an event in     *)
(* EventManager: here commands is what the front end has still to execute, *)
(* and a record goes from list to commands to passed.                      *)
(***************************************************************************)
EXTENDS Integers, Sequences, FiniteSets

CONSTANTS
    Clients, NoClient,
    States, Values,
    ResetValue,         \* what a register of a new context holds
    Unset,
    MaxCommits          \* bound on the commits

ASSUME ContextAssumption ==
    /\ NoClient \notin Clients /\ Unset \notin Values /\ ResetValue \in Values
    /\ MaxCommits \in Nat

\* gcdCONTEXT_BUFFER_COUNT is 2.
Buffers == 0 .. 1
NoBuffer == 2
Deltas == 0 .. 2

Recordings == [States -> Values \cup {Unset}]
Nothing == [s \in States |-> Unset]
Fresh == [s \in States |-> ResetValue]

\* What is in the registers, a buffer or a delta when r has been set in it.
Set(old, r) == [s \in States |-> IF r[s] = Unset THEN old[s] ELSE r[s]]

\* What raises the signal of a buffer, when it is performed.
Records == [client : Clients, buffer : Buffers]

\* What the front end executes: a context buffer, what a command buffer sets,
\* the events behind it.  history: expects, what the client relies on.
Job == [client : Clients, context : Clients \cup {NoClient}, load : Buffers \cup {NoBuffer},
        sets : Recordings, events : SUBSET Records, expects : Recordings]

\* Where a commit is: before the command queue is entered, in front of the
\* context switch, of the LINK, of gckEVENT_Submit.
Places == {"idle", "enter", "switch", "link", "submit"}

VARIABLES
    attached,       \* the clients that have a context
    refCount, records, \* of gcsSTATE_DELTA
    delta,          \* Hardware->delta, the delta that is recorded
    signal,         \* gcsCONTEXT.signal: the buffer is not busy
    state,          \* gcsCONTEXT.logical
    first, deltaCount, \* gcsCONTEXT.delta and its number of pending deltas
    buffer,         \* gckCONTEXT.buffer, the buffer that is used next
    currContext,    \* gckCOMMAND.currContext
    commit,         \* the thread that has commitMutex: where it is, its client,
                    \* its context, what its commands set, the buffer in front
    list,           \* the buffers whose record is on the event list
    commands,       \* what the front end has not executed
    passed,         \* the buffers whose event the GPU has passed
    registers,
    written,        \* history: what the commits of a client have set
    commits         \* history: how many there were

libraryVars == <<refCount, records, delta>>
contextVars == <<signal, state, first, deltaCount, buffer>>
eventVars == <<list, passed>>
contextUpdateVars == <<attached, libraryVars, contextVars, currContext, commit, eventVars,
                       commands, registers, written, commits>>

NoCommit == [at |-> "idle", client |-> NoClient, context |-> NoClient, sets |-> Nothing,
             load |-> NoBuffer]

ContextInit ==
    /\ attached = {}
    /\ refCount = [c \in Clients |-> [d \in Deltas |-> 0]]
    /\ records = [c \in Clients |-> [d \in Deltas |-> Nothing]]
    /\ delta = [c \in Clients |-> 0]
    /\ signal = [c \in Clients |-> [b \in Buffers |-> TRUE]]
    /\ state = [c \in Clients |-> [b \in Buffers |-> Fresh]]
    /\ first = [c \in Clients |-> [b \in Buffers |-> 0]]
    /\ deltaCount = [c \in Clients |-> [b \in Buffers |-> 0]]
    /\ buffer = [c \in Clients |-> 0]
    /\ currContext = NoClient
    /\ commit = NoCommit
    /\ list = {} /\ commands = <<>> /\ passed = {}
    /\ registers = Nothing
    /\ written = [c \in Clients |-> Fresh] /\ commits = 0

-----------------------------------------------------------------------------
(* A client comes and goes.                                                 *)

\* _Attach and gckCONTEXT_Construct: everything is new, if in the memory of
\* an old context.  The contents of the buffers are the same.
Attach(c) ==
    /\ c \notin attached
    /\ attached' = attached \cup {c}
    /\ refCount' = [refCount EXCEPT ![c] = [d \in Deltas |-> 0]]
    /\ records' = [records EXCEPT ![c] = [d \in Deltas |-> Nothing]]
    /\ delta' = [delta EXCEPT ![c] = 0]
    /\ signal' = [signal EXCEPT ![c] = [b \in Buffers |-> TRUE]]
    /\ state' = [state EXCEPT ![c] = [b \in Buffers |-> Fresh]]
    /\ written' = [written EXCEPT ![c] = Fresh]
    /\ deltaCount' = [deltaCount EXCEPT ![c] = [b \in Buffers |-> 0]]
    /\ UNCHANGED <<first, buffer, currContext, commit, eventVars, commands, registers,
                   commits>>

\* _DestroyContext frees the buffers, and the command queue forgets the context
\* (_DetachWaitLinkFECommand).
\* Seeded fault: it keeps a context that is freed.
DestroyKeepingCurrent(c) == attached' = attached \ {c} /\ UNCHANGED currContext

Destroy(c) ==
    /\ attached' = attached \ {c}
    /\ currContext' = IF currContext = c THEN NoClient ELSE currContext

\* Nothing of a client is with the GPU or on its way back.
Finished(c) ==
    /\ \A r \in list \cup passed : r.client # c
    /\ \A k \in 1 .. Len(commands) :
          commands[k].client # c /\ \A r \in commands[k].events : r.client # c

\* gcoHARDWARE_Destroy: the library stalls before it detaches.
Detach(c) ==
    /\ c \in attached /\ commit.client # c /\ Finished(c)
    /\ Destroy(c)
    /\ UNCHANGED <<libraryVars, contextVars, commit, eventVars, commands, registers,
                   written, commits>>

-----------------------------------------------------------------------------
(* A commit.  Device->commitMutex is held from StartCommit to Return, the   *)
(* command queue and Command->mutexContext from EnterCommit to Link.        *)

\* The library has filled a command buffer, and with each state it has called
\* gcoHARDWARE_UpdateDelta.  A buffer for the 2D pipe alone sets no state and
\* has no context.
StartCommit(c) ==
    /\ c \in attached /\ commit = NoCommit /\ commits < MaxCommits
    /\ commits' = commits + 1
    /\ \/ \E r \in Recordings :
            /\ records' = [records EXCEPT ![c][delta[c]] = Set(@, r)]
            /\ commit' = [NoCommit EXCEPT !.at = "enter", !.client = c, !.context = c,
                                         !.sets = r]
       \/ /\ commit' = [NoCommit EXCEPT !.at = "enter", !.client = c]
          /\ UNCHANGED records
    /\ UNCHANGED <<attached, refCount, delta, contextVars, currContext, eventVars, commands,
                   registers, written>>

\* From here on no other thread submits events, and the power stays on.
EnterCommit ==
    /\ commit.at = "enter"
    /\ commit' = [commit EXCEPT !.at = "switch"]
    /\ UNCHANGED <<attached, libraryVars, contextVars, currContext, eventVars, commands,
                   registers, written, commits>>

QueueHeld == commit.at \in {"switch", "link"}

NextDelta(d) == IF d = 2 THEN 0 ELSE d + 1
PrevDelta(d) == IF d = 0 THEN 2 ELSE d - 1

\* The deltas that buffer b has still to merge: deltaCount of them, from first.
Pending(c, b) ==
    LET d == first[c][b]
    IN  CASE deltaCount[c][b] = 0 -> {}
          [] deltaCount[c][b] = 1 -> {d}
          [] deltaCount[c][b] = 2 -> {d, NextDelta(d)}
          [] OTHER -> Deltas

\* Buffer b with its pending deltas, oldest first.
Merged(c, b) ==
    LET d == first[c][b]
        one == Set(state[c][b], records[c][d])
        two == Set(one, records[c][NextDelta(d)])
    IN  CASE deltaCount[c][b] = 0 -> state[c][b]
          [] deltaCount[c][b] = 1 -> one
          [] deltaCount[c][b] = 2 -> two
          [] OTHER -> Set(two, records[c][PrevDelta(d)])

\* "Context switch required?"  gckCONTEXT_Update waits until the buffer is not
\* busy, brings it up to date, attaches the commit's delta to both buffers,
\* adds the event that will raise the buffer's signal, and advances.
Update(c) ==
    LET b == buffer[c]
        new == delta[c]
    IN  /\ commit.at = "switch" /\ commit.context = c /\ currContext # c
        /\ signal[c][b]
        /\ signal' = [signal EXCEPT ![c][b] = FALSE]
        /\ state' = [state EXCEPT ![c][b] = Merged(c, b)]
        /\ refCount' = [refCount EXCEPT ![c] =
              [d \in Deltas |-> @[d] - (IF d \in Pending(c, b) THEN 1 ELSE 0)
                                     + (IF d = new THEN 2 ELSE 0)]]
        /\ first' = [first EXCEPT ![c] =
              [x \in Buffers |-> IF x = b \/ deltaCount[c][x] = 0 THEN new ELSE @[x]]]
        /\ deltaCount' = [deltaCount EXCEPT ![c] =
              [x \in Buffers |-> IF x = b THEN 1 ELSE @[x] + 1]]
        /\ list' = list \cup {[client |-> c, buffer |-> b]}
        /\ buffer' = [buffer EXCEPT ![c] = 1 - b]
        /\ commit' = [commit EXCEPT !.at = "link", !.load = b]
        /\ UNCHANGED <<attached, records, delta, currContext, passed, commands, registers,
                       written, commits>>

\* Without a switch the buffer is executed as it is.
NoUpdate ==
    /\ commit.at = "switch" /\ commit.context \in {currContext, NoClient}
    /\ commit' = [commit EXCEPT !.at = "link"]
    /\ UNCHANGED <<attached, libraryVars, contextVars, currContext, eventVars, commands,
                   registers, written, commits>>

\* The commands are linked to the ring, and the queue is released.  currContext
\* is set at the switch already, but nobody acts on it in between.
Link ==
    /\ commit.at = "link"
    /\ commands' = Append(commands,
          [client |-> commit.client, context |-> commit.context, load |-> commit.load,
           sets |-> commit.sets, events |-> {}, expects |-> written[commit.client]])
    /\ currContext' = commit.context
    /\ written' = [written EXCEPT ![commit.client] = Set(@, commit.sets)]
    /\ commit' = [commit EXCEPT !.at = "submit"]
    /\ UNCHANGED <<attached, libraryVars, contextVars, eventVars, registers, commits>>

\* gckEVENT_Submit of the commit, or of another thread, with the queue held.
Submit ==
    /\ list # {} /\ ~ QueueHeld
    /\ list' = {}
    /\ IF commands = <<>> THEN passed' = passed \cup list /\ UNCHANGED commands
       ELSE /\ commands' = [commands EXCEPT ![Len(commands)].events = @ \cup list]
            /\ UNCHANGED passed
    /\ UNCHANGED <<attached, libraryVars, contextVars, currContext, commit, registers,
                   written, commits>>

\* _MergeDelta and _ResetDelta: a delta that is not attached goes into the one
\* before it, whose records are to be merged still.
MergeDelta(c, d) ==
    records' = [records EXCEPT ![c][PrevDelta(d)] = Set(@, records[c][d]), ![c][d] = Nothing]

\* _UpdateDelta: the library looks whether its delta was attached.
\* Seeded fault: it takes the next delta in either case.
UpdateDeltaAdvancing(c) ==
    /\ delta' = [delta EXCEPT ![c] = NextDelta(@)]
    /\ records' = [records EXCEPT ![c][NextDelta(delta[c])] = Nothing]

UpdateDelta(c) ==
    LET d == delta[c]
    IN  \/ refCount[c][d] = 0 /\ MergeDelta(c, d) /\ UNCHANGED delta
        \/ /\ refCount[c][d] # 0
           /\ delta' = [delta EXCEPT ![c] = NextDelta(d)]
           /\ records' = [records EXCEPT ![c][NextDelta(d)] = Nothing]

\* gckEVENT_Commit has submitted the list, and the ioctl returns.
\* Seeded fault: a commit without events of its own submits nothing.
ReturnUnsubmitted ==
    /\ commit.at = "submit"
    /\ UpdateDelta(commit.client)
    /\ commit' = NoCommit
    /\ UNCHANGED <<attached, refCount, contextVars, currContext, eventVars, commands,
                   registers, written, commits>>

Return ==
    /\ commit.at = "submit" /\ list = {}
    /\ UpdateDelta(commit.client)
    /\ commit' = NoCommit
    /\ UNCHANGED <<attached, refCount, contextVars, currContext, eventVars, commands,
                   registers, written, commits>>

-----------------------------------------------------------------------------
(* The GPU, the interrupt thread, and the power.                            *)

Loaded(j) == IF j.load = NoBuffer THEN registers ELSE state[j.client][j.load]

\* The registers are the 2D pipe's after a buffer without a context, as far as
\* the driver knows.
ExecuteJob ==
    /\ commands # <<>>
    /\ LET j == Head(commands)
       IN  /\ registers' = IF j.context = NoClient THEN Nothing ELSE Set(Loaded(j), j.sets)
           /\ passed' = passed \cup j.events
    /\ commands' = Tail(commands)
    /\ UNCHANGED <<attached, libraryVars, contextVars, currContext, commit, list, written,
                   commits>>

\* gckEVENT_Notify raises a signal.
Raise ==
    /\ \E r \in passed :
        /\ signal' = [signal EXCEPT ![r.client][r.buffer] = TRUE]
        /\ passed' = passed \ {r}
    /\ UNCHANGED <<attached, libraryVars, state, first, deltaCount, buffer, currContext,
                   commit, list, commands, registers, written, commits>>

\* The power goes off and comes back; gckHARDWARE_InitializeHardware forgets
\* the context.
PowerCycle ==
    /\ commands = <<>> /\ ~ QueueHeld
    /\ registers' = Nothing /\ currContext' = NoClient
    /\ UNCHANGED <<attached, libraryVars, contextVars, commit, eventVars, commands, written,
                   commits>>

ContextNext ==
    \/ \E c \in Clients : Attach(c) \/ Detach(c) \/ StartCommit(c) \/ Update(c)
    \/ EnterCommit \/ NoUpdate \/ Link \/ Submit \/ Return
    \/ ExecuteJob \/ Raise \/ PowerCycle

ContextFairness ==
    /\ \A c \in Clients : WF_contextUpdateVars(Update(c))
    /\ WF_contextUpdateVars(EnterCommit) /\ WF_contextUpdateVars(NoUpdate)
    /\ WF_contextUpdateVars(Link)
    /\ WF_contextUpdateVars(commit.at = "submit" /\ Submit) /\ WF_contextUpdateVars(Return)
    /\ WF_contextUpdateVars(ExecuteJob) /\ WF_contextUpdateVars(Raise)

ContextSpec == ContextInit /\ [][ContextNext]_contextUpdateVars /\ ContextFairness

-----------------------------------------------------------------------------

\* Type correctness.
ContextTypeOK ==
    /\ attached \subseteq Clients
    /\ refCount \in [Clients -> [Deltas -> 0 .. 2]]
    /\ records \in [Clients -> [Deltas -> Recordings]]
    /\ delta \in [Clients -> Deltas]
    /\ signal \in [Clients -> [Buffers -> BOOLEAN]]
    /\ state \in [Clients -> [Buffers -> Recordings]]
    /\ first \in [Clients -> [Buffers -> Deltas]]
    /\ deltaCount \in [Clients -> [Buffers -> 0 .. 2]]
    /\ buffer \in [Clients -> Buffers]
    /\ currContext \in Clients \cup {NoClient}
    /\ commit \in [at : Places, client : Clients \cup {NoClient},
                  context : Clients \cup {NoClient}, sets : Recordings,
                  load : Buffers \cup {NoBuffer}]
    /\ list \in SUBSET Records /\ passed \in SUBSET Records
    /\ commands \in Seq(Job)
    /\ registers \in Recordings
    /\ written \in [Clients -> Recordings]
    /\ commits \in 0 .. MaxCommits

\* A command buffer finds the registers as its client has left them: whatever
\* others have executed in between, whether its context was loaded or left
\* alone, after a power-off, and in a context that has another one's memory.
RegistersRight ==
    commands # <<>> /\ Head(commands).context # NoClient =>
        Loaded(Head(commands)) = Head(commands).expects

\* A context buffer that the GPU has still to read is not free, so
\* gckCONTEXT_Update does not write to it (gc_hal_kernel_context.c:3657).
BufferQuiet ==
    \A c \in Clients, b \in Buffers :
        signal[c][b] => \A k \in 1 .. Len(commands) :
                            ~ (commands[k].client = c /\ commands[k].load = b)

\* The delta that a client records is attached to no buffer, and the one it
\* moves to is not either (the assertions at gc_hal_user_hardware.c:107 and
\* 4876): three deltas are enough for two buffers.
DeltaFree ==
    \A c \in attached :
        LET d == delta[c]
        IN  IF commit.client = c /\ commit.at \in {"link", "submit"} /\ refCount[c][d] # 0
            THEN refCount[c][NextDelta(d)] = 0
            ELSE refCount[c][d] = 0

\* A commit returns, although gckCONTEXT_Update waits without a time-out, with
\* the command queue held, for a signal that only a submitted event raises.
UpdateReturns == commit.at # "idle" ~> commit.at = "idle"

=============================================================================
