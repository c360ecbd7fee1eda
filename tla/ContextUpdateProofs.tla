------------------------- MODULE ContextUpdateProofs -------------------------
(***************************************************************************)
(* That the registers are right, for every number of clients, registers    *)
(* and values.  The argument has four parts, each an invariant:            *)
(*   RingOK    which deltas wait for which buffer (so three are enough);   *)
(*   Content   a buffer with its pending deltas is what its client has set;*)
(*   InFlight  a buffer whose signal is set is nowhere in the GPU;         *)
(*   Chain     what each command leaves in the registers is what the next  *)
(*             one relies on, unless that loads a buffer.                  *)
(***************************************************************************)
EXTENDS ContextUpdate, TLAPS

-----------------------------------------------------------------------------
(* Recordings.                                                              *)

LEMMA SetTyped ==
    ASSUME NEW old \in Recordings, NEW r \in Recordings PROVE Set(old, r) \in Recordings
BY DEF Set, Recordings

LEMMA SetNothing == ASSUME NEW old \in Recordings PROVE Set(old, Nothing) = old
BY DEF Set, Recordings, Nothing

LEMMA SetOnNothing == ASSUME NEW r \in Recordings PROVE Set(Nothing, r) = r
BY DEF Set, Recordings, Nothing

LEMMA SetTwice ==
    ASSUME NEW old \in Recordings, NEW r \in Recordings, NEW q \in Recordings
    PROVE  Set(Set(old, r), q) = Set(old, Set(r, q))
BY DEF Set, Recordings

LEMMA Constants == Nothing \in Recordings /\ Fresh \in Recordings
BY ContextAssumption DEF Nothing, Fresh, Recordings

-----------------------------------------------------------------------------
(* Types.                                                                   *)

\* A buffer is in front of a commit from its context switch on.
CommitTyped ==
    /\ commit \in [at : Places, client : Clients \cup {NoClient},
                   context : Clients \cup {NoClient}, sets : Recordings,
                   load : Buffers \cup {NoBuffer}]
    /\ commit.context \in {commit.client, NoClient}
    /\ commit.client = NoClient <=> commit.at = "idle"
    /\ commit.context = NoClient => commit.sets = Nothing
    /\ commit.load # NoBuffer =>
          commit.at \in {"link", "submit"} /\ commit.context = commit.client

JobTyped(j) ==
    /\ j.client \in Clients /\ j.context \in {j.client, NoClient}
    /\ j.load \in Buffers \cup {NoBuffer}
    /\ j.sets \in Recordings /\ j.expects \in Recordings /\ j.events \in SUBSET Records

Typed ==
    /\ attached \subseteq Clients
    /\ refCount \in [Clients -> [Deltas -> Int]]
    /\ records \in [Clients -> [Deltas -> Recordings]]
    /\ delta \in [Clients -> Deltas]
    /\ signal \in [Clients -> [Buffers -> BOOLEAN]]
    /\ state \in [Clients -> [Buffers -> Recordings]]
    /\ first \in [Clients -> [Buffers -> Deltas]]
    /\ deltaCount \in [Clients -> [Buffers -> Nat]]
    /\ buffer \in [Clients -> Buffers]
    /\ currContext \in Clients \cup {NoClient}
    /\ CommitTyped
    /\ list \in SUBSET Records /\ passed \in SUBSET Records
    /\ commands \in Seq(Job) /\ \A k \in 1 .. Len(commands) : JobTyped(commands[k])
    /\ registers \in Recordings
    /\ written \in [Clients -> Recordings]
    /\ commits \in 0 .. MaxCommits

-----------------------------------------------------------------------------
(* The ring of deltas.                                                      *)

\* The delta of the commit under way is attached to the buffers.
Associated(c) == commit.client = c /\ commit.load # NoBuffer

\* The delta that is recorded next.
NextFree(c) == IF Associated(c) THEN NextDelta(delta[c]) ELSE delta[c]

\* n is free.  The buffer that was used last has to merge the delta before n,
\* the other one that and maybe the one before it.
RingAt(c, n) ==
    LET last == PrevDelta(n)
        older == NextDelta(n)
        b == buffer[c]
        other == 1 - buffer[c]
    IN  /\ refCount[c][n] = 0
        /\ \/ /\ deltaCount[c][b] = 0 /\ deltaCount[c][other] = 0
              /\ refCount[c][last] = 0 /\ refCount[c][older] = 0
           \/ /\ deltaCount[c][b] = 1 /\ deltaCount[c][other] = 1
              /\ first[c][b] = last /\ first[c][other] = last
              /\ refCount[c][last] = 2 /\ refCount[c][older] = 0
           \/ /\ deltaCount[c][b] = 2 /\ deltaCount[c][other] = 1
              /\ first[c][b] = older /\ first[c][other] = last
              /\ refCount[c][last] = 2 /\ refCount[c][older] = 1

RingOK ==
    \A c \in Clients :
        /\ RingAt(c, NextFree(c))
        /\ Associated(c) => \A b \in Buffers : deltaCount[c][b] # 0

LEMMA DeltaSteps ==
    ASSUME NEW d \in Deltas
    PROVE  /\ NextDelta(d) \in Deltas /\ PrevDelta(d) \in Deltas
           /\ NextDelta(NextDelta(d)) = PrevDelta(d) /\ PrevDelta(PrevDelta(d)) = NextDelta(d)
           /\ PrevDelta(NextDelta(d)) = d /\ NextDelta(PrevDelta(d)) = d
           /\ NextDelta(d) # d /\ PrevDelta(d) # d /\ NextDelta(d) # PrevDelta(d)
           /\ \A e \in Deltas : e = d \/ e = NextDelta(d) \/ e = PrevDelta(d)
BY DEF Deltas, NextDelta, PrevDelta

LEMMA OtherBuffer ==
    ASSUME NEW b \in Buffers
    PROVE  /\ 1 - b \in Buffers /\ 1 - b # b /\ 1 - (1 - b) = b
           /\ \A x \in Buffers : x = b \/ x = 1 - b
BY DEF Buffers

\* What the counts are.
LEMMA RingCounts ==
    ASSUME Typed, RingOK, NEW c \in Clients
    PROVE  /\ \A b \in Buffers : deltaCount[c][b] \in 0 .. 2
           /\ \A d \in Deltas : refCount[c][d] \in 0 .. 2
           /\ NextFree(c) \in Deltas
  <1> DEFINE n == NextFree(c)
  <1>1. n \in Deltas /\ delta[c] \in Deltas
    BY DeltaSteps DEF Typed, NextFree
  <1>2. buffer[c] \in Buffers
    BY DEF Typed
  <1>3. RingAt(c, n)
    BY DEF RingOK
  <1> HIDE DEF n
  <1>4. \A b \in Buffers : b = buffer[c] \/ b = 1 - buffer[c]
    BY <1>2, OtherBuffer
  <1>5. \A d \in Deltas : d = n \/ d = NextDelta(n) \/ d = PrevDelta(n)
    BY <1>1, DeltaSteps
  <1>6. (\A b \in Buffers : deltaCount[c][b] \in 0 .. 2) /\ \A d \in Deltas : refCount[c][d] \in 0 .. 2
    BY <1>3, <1>4, <1>5 DEF RingAt
  <1> QED
    BY <1>1, <1>6 DEF n

\* The steps that do not touch deltas.
LEMMA RingStutters ==
    ASSUME Typed, RingOK, UNCHANGED <<refCount, delta, first, deltaCount, buffer>>,
           commit'.load = commit.load,
           commit.load # NoBuffer => commit'.client = commit.client
    PROVE  RingOK'
  <1>1. \A c \in Clients : Associated(c)' <=> Associated(c)
    BY DEF Associated
  <1>2. \A c \in Clients : NextFree(c)' = NextFree(c)
    BY <1>1 DEF NextFree
  <1>3. \A c \in Clients : RingAt(c, NextFree(c))' <=> RingAt(c, NextFree(c))
    BY <1>2 DEF RingAt
  <1> QED
    BY <1>1, <1>3 DEF RingOK

LEMMA RingAttach ==
    ASSUME Typed, RingOK, NEW c \in Clients, Attach(c), commit.client # c
    PROVE  RingOK'
  <1> SUFFICES ASSUME NEW a \in Clients
               PROVE  /\ RingAt(a, NextFree(a))'
                      /\ (Associated(a) => \A b \in Buffers : deltaCount[a][b] # 0)'
    BY DEF RingOK
  <1>1. Associated(a)' <=> Associated(a)
    BY DEF Associated, Attach
  <1>2. CASE a = c
    <2>1. ~ Associated(c)' /\ NextFree(c)' = 0
      BY <1>1, <1>2 DEF Associated, NextFree, Attach, Typed
    <2>2. buffer'[c] \in Buffers /\ 1 - buffer'[c] \in Buffers
      BY OtherBuffer DEF Attach, Typed
    <2>3. /\ \A d \in Deltas : refCount'[c][d] = 0
          /\ \A b \in Buffers : deltaCount'[c][b] = 0
      BY DEF Attach, Typed
    <2>4. 0 \in Deltas /\ NextDelta(0) \in Deltas /\ PrevDelta(0) \in Deltas
      BY DEF Deltas, NextDelta, PrevDelta
    <2> QED
      BY <1>2, <2>1, <2>2, <2>3, <2>4 DEF RingAt
  <1>3. CASE a # c
    <2>1. /\ refCount'[a] = refCount[a] /\ deltaCount'[a] = deltaCount[a]
          /\ first'[a] = first[a] /\ buffer'[a] = buffer[a] /\ delta'[a] = delta[a]
      BY <1>3 DEF Attach, Typed
    <2>2. NextFree(a)' = NextFree(a)
      BY <1>1, <2>1 DEF NextFree
    <2>3. RingAt(a, NextFree(a))' <=> RingAt(a, NextFree(a))
      BY <2>1, <2>2 DEF RingAt
    <2> QED
      BY <1>1, <2>1, <2>3 DEF RingOK
  <1> QED
    BY <1>2, <1>3

\* What a switch finds: the deltas that the buffer has still to merge.
LEMMA RingUpdate ==
    ASSUME Typed, RingOK, NEW c \in Clients, Update(c)
    PROVE  RingOK'
  <1>b. PICK b : b = buffer[c]
    OBVIOUS
  <1>y. PICK y : y = 1 - b
    OBVIOUS
  <1>n. PICK n : n = delta[c]
    OBVIOUS
  <1>p. PICK p : p = PrevDelta(n)
    OBVIOUS
  <1>q. PICK q : q = NextDelta(n)
    OBVIOUS
  <1>1. /\ commit.load = NoBuffer /\ commit.client = c
        /\ commit'.load = b /\ commit'.client = c
        /\ b \in Buffers /\ y \in Buffers /\ y # b /\ 1 - y = b /\ b # NoBuffer
    <2>1. commit.load = NoBuffer /\ commit.client = c
      BY ContextAssumption DEF Update, Typed, CommitTyped
    <2>2. commit'.load = b /\ commit'.client = c
      BY <2>1, <1>b DEF Update, Typed, CommitTyped
    <2>3. b \in Buffers
      BY <1>b DEF Typed
    <2> QED
      BY <2>1, <2>2, <2>3, <1>y DEF Buffers, NoBuffer
  <1>2. ~ Associated(c) /\ Associated(c)' /\ NextFree(c) = n /\ NextFree(c)' = q
    BY <1>1, <1>n, <1>q DEF Associated, NextFree, Update
  <1>3. n \in Deltas /\ p \in Deltas /\ q \in Deltas /\ PrevDelta(q) = n /\ NextDelta(q) = p
        /\ NextDelta(p) = n /\ p # n /\ q # n /\ p # q
    BY <1>n, <1>p, <1>q, DeltaSteps DEF Typed
  <1>4. RingAt(c, n)
    BY <1>2 DEF RingOK
  <1>5. /\ deltaCount'[c][b] = 1 /\ deltaCount'[c][y] = deltaCount[c][y] + 1
        /\ first'[c][b] = n
        /\ first'[c][y] = IF deltaCount[c][y] = 0 THEN n ELSE first[c][y]
        /\ buffer'[c] = y /\ 1 - buffer'[c] = b
    BY <1>1, <1>b, <1>y, <1>n DEF Update, Typed
  <1>6. \A d \in Deltas :
            refCount'[c][d] = refCount[c][d] - (IF d \in Pending(c, b) THEN 1 ELSE 0)
                                             + (IF d = n THEN 2 ELSE 0)
    BY <1>b, <1>n DEF Update, Typed
  <1>7. RingAt(c, q)'
    <2>1. CASE deltaCount[c][b] = 0 /\ deltaCount[c][y] = 0
               /\ refCount[c][p] = 0 /\ refCount[c][q] = 0 /\ refCount[c][n] = 0
      <3>1. Pending(c, b) = {}
        BY <2>1 DEF Pending
      <3>2. refCount'[c][n] = 2 /\ refCount'[c][p] = 0 /\ refCount'[c][q] = 0
        BY <2>1, <3>1, <1>3, <1>6
      <3> QED
        BY <2>1, <3>2, <1>1, <1>3, <1>5 DEF RingAt
    <2>2. CASE deltaCount[c][b] = 1 /\ deltaCount[c][y] = 1 /\ first[c][b] = p /\ first[c][y] = p
               /\ refCount[c][p] = 2 /\ refCount[c][q] = 0 /\ refCount[c][n] = 0
      <3>1. Pending(c, b) = {p}
        BY <2>2 DEF Pending
      <3>2. refCount'[c][n] = 2 /\ refCount'[c][p] = 1 /\ refCount'[c][q] = 0
        BY <2>2, <3>1, <1>3, <1>6
      <3> QED
        BY <2>2, <3>2, <1>1, <1>3, <1>5 DEF RingAt
    <2>3. CASE deltaCount[c][b] = 2 /\ deltaCount[c][y] = 1 /\ first[c][b] = q /\ first[c][y] = p
               /\ refCount[c][p] = 2 /\ refCount[c][q] = 1 /\ refCount[c][n] = 0
      <3>1. Pending(c, b) = {q, p}
        BY <2>3, <1>3 DEF Pending
      <3>2. refCount'[c][n] = 2 /\ refCount'[c][p] = 1 /\ refCount'[c][q] = 0
        BY <2>3, <3>1, <1>3, <1>6
      <3> QED
        BY <2>3, <3>2, <1>1, <1>3, <1>5 DEF RingAt
    <2> QED
      BY <2>1, <2>2, <2>3, <1>4, <1>b, <1>y, <1>p, <1>q DEF RingAt
  <1>8. ASSUME NEW a \in Clients, a # c
        PROVE  /\ RingAt(a, NextFree(a))'
               /\ (Associated(a) => \A x \in Buffers : deltaCount[a][x] # 0)'
    <2>1. /\ refCount'[a] = refCount[a] /\ deltaCount'[a] = deltaCount[a]
          /\ first'[a] = first[a] /\ buffer'[a] = buffer[a] /\ delta'[a] = delta[a]
      BY <1>8 DEF Update, Typed
    <2>2. ~ Associated(a) /\ ~ Associated(a)'
      BY <1>1, <1>8 DEF Associated
    <2>3. NextFree(a)' = NextFree(a)
      BY <2>1, <2>2 DEF NextFree
    <2>4. RingAt(a, NextFree(a))' <=> RingAt(a, NextFree(a))
      BY <2>1, <2>3 DEF RingAt
    <2> QED
      BY <2>2, <2>4 DEF RingOK
  <1>9. \A x \in Buffers : deltaCount'[c][x] # 0
    <2>1. \A x \in Buffers : x = b \/ x = y
      BY <1>1, <1>y, OtherBuffer
    <2>2. deltaCount[c][y] \in Nat
      BY <1>1 DEF Typed
    <2>3. deltaCount'[c][b] # 0 /\ deltaCount'[c][y] # 0
      BY <2>2, <1>5
    <2> QED
      BY <2>1, <2>3
  <1> QED
    BY <1>2, <1>7, <1>8, <1>9 DEF RingOK

\* Where the library finds its delta when the ioctl has returned.
LEMMA DeltaFound ==
    ASSUME Typed, RingOK, NEW c \in Clients
    PROVE  /\ Associated(c) => refCount[c][delta[c]] = 2
           /\ ~ Associated(c) => refCount[c][delta[c]] = 0
  <1>1. delta[c] \in Deltas /\ PrevDelta(NextDelta(delta[c])) = delta[c]
    BY DeltaSteps DEF Typed
  <1>2. buffer[c] \in Buffers
    BY DEF Typed
  <1> QED
    BY <1>1, <1>2 DEF RingOK, RingAt, NextFree

LEMMA RingReturn ==
    ASSUME Typed, RingOK, Return
    PROVE  RingOK'
  <1>c. PICK c : c = commit.client
    OBVIOUS
  <1>1. c \in Clients /\ ~ Associated(c)'
    BY <1>c, ContextAssumption DEF Return, Typed, CommitTyped, Associated, NoCommit
  <1>2. \A a \in Clients : ~ Associated(a)'
    BY DEF Return, Associated, NoCommit
  <1>3. NextFree(c)' = NextFree(c)
    <2>1. CASE Associated(c)
      <3>1. delta'[c] = NextDelta(delta[c])
        <4>1. refCount[c][delta[c]] # 0
          BY <1>1, <2>1, DeltaFound
        <4>2. delta' = [delta EXCEPT ![c] = NextDelta(delta[c])]
          BY <1>c, <4>1 DEF Return, UpdateDelta
        <4> QED
          BY <1>1, <4>2 DEF Typed
      <3> QED
        BY <1>1, <2>1, <3>1 DEF NextFree
    <2>2. CASE ~ Associated(c)
      <3>1. delta'[c] = delta[c]
        BY <1>c, <1>1, <2>2, DeltaFound DEF Return, UpdateDelta
      <3> QED
        BY <1>1, <2>2, <3>1 DEF NextFree
    <2> QED
      BY <2>1, <2>2
  <1>4. \A a \in Clients : a # c => NextFree(a)' = NextFree(a)
    <2>1. \A a \in Clients : a # c => delta'[a] = delta[a]
      BY <1>c DEF Return, UpdateDelta, Typed
    <2> QED
      BY <1>c, <1>2, <2>1 DEF NextFree, Associated
  <1>5. ASSUME NEW a \in Clients PROVE RingAt(a, NextFree(a))'
    <2>1. NextFree(a)' = NextFree(a)
      BY <1>3, <1>4
    <2>2. UNCHANGED <<refCount, deltaCount, first, buffer>>
      BY DEF Return, contextVars
    <2> QED
      BY <2>1, <2>2 DEF RingOK, RingAt
  <1> QED
    BY <1>2, <1>5 DEF RingOK

-----------------------------------------------------------------------------
(* What is in the buffers.                                                  *)

\* What buffer b will have when its pending deltas are merged.
HasSet(c, b) ==
    IF commit.client = c /\ commit.at = "link" /\ Associated(c)
    THEN Merged(c, b) = Set(written[c], commit.sets)
    ELSE IF commit.client = c /\ commit.at = "submit" /\ ~ Associated(c)
    THEN Set(Merged(c, b), commit.sets) = written[c]
    ELSE Merged(c, b) = written[c]

ContentOf(c) ==
    /\ ~ Associated(c) =>
          records[c][delta[c]] = IF commit.client = c THEN commit.sets ELSE Nothing
    /\ \A b \in Buffers : HasSet(c, b)
    /\ commit.at = "link" /\ Associated(c) => state[c][commit.load] = written[c]
    /\ \/ currContext = c
       \/ commit.context = c /\ commit.at \in {"link", "submit"}
       => \A b \in Buffers : deltaCount[c][b] # 0

Content == \A c \in Clients : ContentOf(c)

\* Merged for the counts that occur.
LEMMA MergedCases ==
    ASSUME NEW c, NEW b
    PROVE  /\ deltaCount[c][b] = 0 => Merged(c, b) = state[c][b]
           /\ deltaCount[c][b] = 1 => Merged(c, b) = Set(state[c][b], records[c][first[c][b]])
           /\ deltaCount[c][b] = 2 =>
                Merged(c, b) = Set(Set(state[c][b], records[c][first[c][b]]),
                                   records[c][NextDelta(first[c][b])])
BY DEF Merged

LEMMA PendingCases ==
    ASSUME NEW c, NEW b
    PROVE  /\ deltaCount[c][b] = 1 => first[c][b] \in Pending(c, b)
           /\ deltaCount[c][b] = 2 => first[c][b] \in Pending(c, b)
                                      /\ NextDelta(first[c][b]) \in Pending(c, b)
BY DEF Pending

LEMMA MergedTyped ==
    ASSUME Typed, RingOK, NEW c \in Clients, NEW b \in Buffers
    PROVE  Merged(c, b) \in Recordings
  <1>1. deltaCount[c][b] = 0 \/ deltaCount[c][b] = 1 \/ deltaCount[c][b] = 2
    BY RingCounts
  <1>2. first[c][b] \in Deltas /\ NextDelta(first[c][b]) \in Deltas
    BY DeltaSteps DEF Typed
  <1>3. /\ state[c][b] \in Recordings /\ records[c][first[c][b]] \in Recordings
        /\ records[c][NextDelta(first[c][b])] \in Recordings
    BY <1>2 DEF Typed
  <1> QED
    BY <1>1, <1>3, SetTyped, MergedCases

\* Merging reads the pending deltas only.
LEMMA MergedSame ==
    ASSUME Typed, RingOK, NEW c \in Clients, NEW b \in Buffers,
           state'[c][b] = state[c][b], first'[c][b] = first[c][b],
           deltaCount'[c][b] = deltaCount[c][b],
           \A d \in Pending(c, b) : records'[c][d] = records[c][d]
    PROVE  Merged(c, b)' = Merged(c, b)
  <1>1. deltaCount[c][b] = 0 \/ deltaCount[c][b] = 1 \/ deltaCount[c][b] = 2
    BY RingCounts
  <1>2. CASE deltaCount[c][b] = 0
    BY <1>2 DEF Merged
  <1>3. CASE deltaCount[c][b] = 1
    <2>1. records'[c][first[c][b]] = records[c][first[c][b]]
      BY <1>3, PendingCases
    <2> QED
      BY <1>3, <2>1 DEF Merged
  <1>4. CASE deltaCount[c][b] = 2
    <2>1. /\ records'[c][first[c][b]] = records[c][first[c][b]]
          /\ records'[c][NextDelta(first[c][b])] = records[c][NextDelta(first[c][b])]
      BY <1>4, PendingCases
    <2> QED
      BY <1>4, <2>1 DEF Merged
  <1> QED
    BY <1>1, <1>2, <1>3, <1>4

\* What is pending, seen from the free delta.
LEMMA PendingDeltas ==
    ASSUME Typed, RingOK, NEW c \in Clients, NEW b \in Buffers
    PROVE  LET n == NextFree(c)
           IN  /\ n \notin Pending(c, b)
               /\ deltaCount[c][b] = 1 => first[c][b] = PrevDelta(n)
               /\ deltaCount[c][b] = 2 => first[c][b] = NextDelta(n)
                                          /\ NextDelta(first[c][b]) = PrevDelta(n)
  <1>1. PICK n : n = NextFree(c)
    OBVIOUS
  <1>2. n \in Deltas /\ (deltaCount[c][b] = 0 \/ deltaCount[c][b] = 1 \/ deltaCount[c][b] = 2)
    BY <1>1, RingCounts
  <1>3. /\ PrevDelta(n) # n /\ NextDelta(n) # n
        /\ NextDelta(NextDelta(n)) = PrevDelta(n)
    BY <1>2, DeltaSteps
  <1>4. RingAt(c, n)
    BY <1>1 DEF RingOK
  <1>5. b = buffer[c] \/ b = 1 - buffer[c]
    BY OtherBuffer DEF Typed
  <1>6. /\ deltaCount[c][b] = 1 => first[c][b] = PrevDelta(n)
        /\ deltaCount[c][b] = 2 => first[c][b] = NextDelta(n)
    BY <1>4, <1>5 DEF RingAt
  <1>7. n \notin Pending(c, b)
    BY <1>2, <1>3, <1>6 DEF Pending
  <1> QED
    BY <1>1, <1>3, <1>6, <1>7

\* A client whose deltas and buffers a step leaves alone, and whose commit is
\* not under way.
LEMMA ContentOthers ==
    ASSUME Typed, RingOK, Content, NEW a \in Clients, commit.client # a, commit'.client # a,
           commit'.context \in {commit'.client, NoClient},
           records'[a] = records[a], delta'[a] = delta[a], state'[a] = state[a],
           first'[a] = first[a], deltaCount'[a] = deltaCount[a], written'[a] = written[a],
           currContext' = a => currContext = a
    PROVE  ContentOf(a)'
  <1>1. ~ Associated(a) /\ ~ Associated(a)' /\ commit'.context # a
    BY ContextAssumption DEF Associated
  <1>2. \A b \in Buffers : Merged(a, b)' = Merged(a, b)
    BY MergedSame
  <1> QED
    BY <1>1, <1>2 DEF Content, ContentOf, HasSet

LEMMA ContentStutters ==
    ASSUME Typed, RingOK, Content,
           UNCHANGED <<records, delta, state, first, deltaCount, written, commit>>,
           currContext' \in {currContext, NoClient}
    PROVE  Content'
  <1> SUFFICES ASSUME NEW c \in Clients PROVE ContentOf(c)'
    BY DEF Content
  <1>1. Associated(c)' <=> Associated(c)
    BY DEF Associated
  <1>2. \A b \in Buffers : Merged(c, b)' = Merged(c, b)
    BY MergedSame
  <1>3. \A b \in Buffers : HasSet(c, b)' <=> HasSet(c, b)
    BY <1>1, <1>2 DEF HasSet
  <1>4. currContext' = c => currContext = c
    BY ContextAssumption
  <1> QED
    BY <1>1, <1>3, <1>4 DEF Content, ContentOf

LEMMA ContentAttach ==
    ASSUME Typed, RingOK, Content, NEW c \in Clients, Attach(c), commit.client # c,
           currContext # c
    PROVE  Content'
  <1>1. ASSUME NEW a \in Clients, a = c PROVE ContentOf(a)'
    <2>1. ~ Associated(c)' /\ commit'.client # c /\ commit'.context # c /\ currContext' # c
      BY ContextAssumption DEF Associated, Attach, Typed, CommitTyped
    <2>2. /\ \A b \in Buffers : Merged(c, b)' = state'[c][b] /\ state'[c][b] = Fresh
          /\ written'[c] = Fresh /\ delta'[c] \in Deltas
          /\ \A d \in Deltas : records'[c][d] = Nothing
      BY DEF Attach, Typed, Merged, Deltas
    <2> QED
      BY <1>1, <2>1, <2>2 DEF ContentOf, HasSet
  <1>2. ASSUME NEW a \in Clients, a # c PROVE ContentOf(a)'
    <2>1. /\ records'[a] = records[a] /\ delta'[a] = delta[a] /\ state'[a] = state[a]
          /\ first'[a] = first[a] /\ deltaCount'[a] = deltaCount[a]
          /\ written'[a] = written[a]
      BY <1>2 DEF Attach, Typed
    <2>2. UNCHANGED <<commit, currContext>>
      BY DEF Attach
    <2>3. \A b \in Buffers : Merged(a, b)' = Merged(a, b)
      BY <2>1, MergedSame
    <2>4. Associated(a)' <=> Associated(a)
      BY <2>2 DEF Associated
    <2>5. \A b \in Buffers : HasSet(a, b)' <=> HasSet(a, b)
      BY <2>1, <2>2, <2>3, <2>4 DEF HasSet
    <2> QED
      BY <2>1, <2>2, <2>4, <2>5 DEF Content, ContentOf
  <1> QED
    BY <1>1, <1>2 DEF Content

LEMMA ContentStart ==
    ASSUME Typed, RingOK, Content, NEW c \in Clients, StartCommit(c)
    PROVE  Content'
  <1>1. /\ commit.client = NoClient /\ commit.load = NoBuffer /\ commit.at = "idle"
        /\ commit'.client = c /\ commit'.load = NoBuffer /\ commit'.at = "enter"
        /\ commit'.context \in {c, NoClient}
    BY DEF StartCommit, NoCommit
  <1>2. \A a \in Clients : commit.client # a /\ ~ Associated(a) /\ ~ Associated(a)'
    BY <1>1, ContextAssumption DEF Associated
  <1>3. ASSUME NEW a \in Clients, a # c PROVE ContentOf(a)'
    <2>1. records'[a] = records[a]
      BY <1>3 DEF StartCommit, Typed
    <2>2. UNCHANGED <<delta, state, first, deltaCount, written, currContext>>
      BY DEF StartCommit, contextVars
    <2> QED
      BY <1>1, <1>2, <1>3, <2>1, <2>2, ContentOthers
  <1>4. ContentOf(c)'
    <2>1. UNCHANGED <<delta, state, first, deltaCount, written, currContext>>
      BY DEF StartCommit, contextVars
    <2>2. records[c][delta[c]] = Nothing /\ delta[c] \in Deltas /\ delta[c] = NextFree(c)
      BY <1>2 DEF Content, ContentOf, NextFree, Typed
    <2>3. records'[c][delta[c]] = commit'.sets
      <3>1. CASE UNCHANGED records /\ commit' = [NoCommit EXCEPT !.at = "enter", !.client = c]
        BY <3>1, <2>2 DEF NoCommit
      <3>2. ASSUME NEW r \in Recordings,
                   records' = [records EXCEPT ![c][delta[c]] = Set(@, r)],
                   commit' = [NoCommit EXCEPT !.at = "enter", !.client = c, !.context = c,
                                              !.sets = r]
            PROVE  records'[c][delta[c]] = commit'.sets
        BY <3>2, <2>2, SetOnNothing DEF NoCommit, Typed
      <3> QED
        BY <3>1, <3>2 DEF StartCommit
    <2>4. \A d \in Deltas : d # delta[c] => records'[c][d] = records[c][d]
      <3>1. \/ UNCHANGED records
            \/ \E r \in Recordings : records' = [records EXCEPT ![c][delta[c]] = Set(@, r)]
        BY DEF StartCommit
      <3> QED
        BY <3>1 DEF Typed
    <2>5. ASSUME NEW b \in Buffers PROVE Merged(c, b)' = Merged(c, b)
      <3>1. Pending(c, b) \subseteq Deltas /\ delta[c] \notin Pending(c, b)
        BY <2>2, PendingDeltas, DeltaSteps DEF Pending, Typed
      <3> QED
        BY <2>1, <2>4, <3>1, MergedSame
    <2>6. \A b \in Buffers : Merged(c, b) = written[c]
      BY <1>1, <1>2, ContextAssumption DEF Content, ContentOf, HasSet
    <2>7. currContext = c => \A b \in Buffers : deltaCount[c][b] # 0
      BY DEF Content, ContentOf
    <2> QED
      BY <1>1, <1>2, <2>1, <2>3, <2>5, <2>6, <2>7 DEF ContentOf, HasSet
  <1> QED
    BY <1>3, <1>4 DEF Content

LEMMA ContentEnter ==
    ASSUME Typed, RingOK, Content, EnterCommit
    PROVE  Content'
  <1> SUFFICES ASSUME NEW c \in Clients PROVE ContentOf(c)'
    BY DEF Content
  <1>1. /\ commit.at = "enter" /\ commit'.at = "switch" /\ commit'.client = commit.client
        /\ commit'.load = commit.load /\ commit'.sets = commit.sets
        /\ commit'.context = commit.context
    BY DEF EnterCommit, Typed, CommitTyped
  <1>2. UNCHANGED <<records, delta, state, first, deltaCount, written, currContext>>
    BY DEF EnterCommit, contextVars, libraryVars
  <1>3. Associated(c)' <=> Associated(c)
    BY <1>1 DEF Associated
  <1>4. \A b \in Buffers : Merged(c, b)' = Merged(c, b)
    BY <1>2, MergedSame
  <1> QED
    BY <1>1, <1>2, <1>3, <1>4 DEF Content, ContentOf, HasSet

LEMMA ContentUpdate ==
    ASSUME Typed, RingOK, Content, NEW c \in Clients, Update(c)
    PROVE  Content'
  <1>1. /\ commit.client = c /\ commit.context = c /\ commit.load = NoBuffer
        /\ commit'.client = c /\ commit'.load = buffer[c] /\ commit'.at = "link"
        /\ commit'.context = c /\ commit'.sets = commit.sets /\ commit.at = "switch"
        /\ buffer[c] \in Buffers /\ buffer[c] # NoBuffer /\ commit.sets \in Recordings
    <2>1. commit.client = c /\ commit.load = NoBuffer
      BY ContextAssumption DEF Update, Typed, CommitTyped
    <2> QED
      BY <2>1 DEF Update, Typed, CommitTyped, Buffers, NoBuffer
  <1>2. ~ Associated(c) /\ Associated(c)'
    BY <1>1 DEF Associated
  <1>3. UNCHANGED <<records, delta, written, currContext>>
    BY DEF Update
  <1>4. /\ \A b \in Buffers : Merged(c, b) = written[c]
        /\ records[c][delta[c]] = commit.sets
    BY <1>1, <1>2 DEF Content, ContentOf, HasSet
  <1>5. ASSUME NEW a \in Clients, a # c PROVE ContentOf(a)'
    <2>1. state'[a] = state[a] /\ first'[a] = first[a] /\ deltaCount'[a] = deltaCount[a]
      BY <1>5 DEF Update, Typed
    <2> QED
      BY <1>1, <1>3, <1>5, <2>1, ContentOthers
  <1>6. state'[c][buffer[c]] = written[c]
    BY <1>1, <1>4 DEF Update, Typed
  <1>7. ASSUME NEW b \in Buffers
        PROVE  /\ Merged(c, b)' = Set(written[c], commit.sets)
               /\ deltaCount'[c][b] # 0
    <2>1. NextFree(c) = delta[c] /\ delta[c] \in Deltas
      BY <1>2 DEF NextFree, Typed
    <2>2. CASE b = buffer[c]
      <3>1. deltaCount'[c][b] = 1 /\ first'[c][b] = delta[c]
        BY <2>2 DEF Update, Typed
      <3>2. Merged(c, b)' = Set(state'[c][b], records'[c][delta[c]])
        BY <3>1 DEF Merged
      <3> QED
        BY <2>2, <1>3, <1>4, <1>6, <3>1, <3>2
    <2>3. CASE b # buffer[c]
      <3>1. /\ state'[c][b] = state[c][b] /\ deltaCount'[c][b] = deltaCount[c][b] + 1
            /\ first'[c][b] = IF deltaCount[c][b] = 0 THEN delta[c] ELSE first[c][b]
        BY <2>3 DEF Update, Typed
      <3>2. deltaCount[c][b] = 0 \/ deltaCount[c][b] = 1
        <4>1. b = 1 - buffer[c]
          BY <2>3, OtherBuffer DEF Typed
        <4>2. RingAt(c, delta[c])
          BY <2>1 DEF RingOK
        <4> QED
          BY <4>1, <4>2 DEF RingAt
      <3>3. CASE deltaCount[c][b] = 0
        <4>1. Merged(c, b) = state[c][b]
          BY <3>3, MergedCases
        <4>2. Merged(c, b)' = Set(state'[c][b], records'[c][delta[c]])
          BY <3>1, <3>3 DEF Merged
        <4> QED
          BY <4>1, <4>2, <3>1, <3>3, <1>3, <1>4
      <3>4. CASE deltaCount[c][b] = 1
        <4>1. Merged(c, b) = Set(state[c][b], records[c][first[c][b]])
          BY <3>4, MergedCases
        <4>2. NextDelta(first[c][b]) = delta[c]
          BY <2>1, <3>4, PendingDeltas, DeltaSteps
        <4>3. Merged(c, b)' = Set(Set(state'[c][b], records'[c][first'[c][b]]),
                                  records'[c][NextDelta(first'[c][b])])
          BY <3>1, <3>4 DEF Merged
        <4> QED
          BY <4>1, <4>2, <4>3, <3>1, <3>4, <1>3, <1>4
      <3> QED
        BY <3>2, <3>3, <3>4
    <2> QED
      BY <2>2, <2>3
  <1>8. ContentOf(c)'
    BY <1>1, <1>2, <1>3, <1>6, <1>7 DEF ContentOf, HasSet
  <1> QED
    BY <1>5, <1>8 DEF Content

LEMMA ContentNoUpdate ==
    ASSUME Typed, RingOK, Content, NoUpdate
    PROVE  Content'
  <1> SUFFICES ASSUME NEW c \in Clients PROVE ContentOf(c)'
    BY DEF Content
  <1>1. /\ commit.at = "switch" /\ commit'.at = "link" /\ commit'.client = commit.client
        /\ commit'.load = commit.load /\ commit'.sets = commit.sets /\ commit.load = NoBuffer
        /\ commit'.context = commit.context /\ commit.context \in {currContext, NoClient}
    BY DEF NoUpdate, Typed, CommitTyped
  <1>2. UNCHANGED <<records, delta, state, first, deltaCount, written, currContext>>
    BY DEF NoUpdate, contextVars, libraryVars
  <1>3. ~ Associated(c)' /\ ~ Associated(c)
    BY <1>1 DEF Associated
  <1>4. \A b \in Buffers : Merged(c, b)' = Merged(c, b)
    BY <1>2, MergedSame
  <1> QED
    BY <1>1, <1>2, <1>3, <1>4, ContextAssumption DEF Content, ContentOf, HasSet

LEMMA ContentLink ==
    ASSUME Typed, RingOK, Content, Link
    PROVE  Content'
  <1>0. PICK c : c = commit.client
    OBVIOUS
  <1>1. /\ commit.at = "link" /\ commit'.at = "submit" /\ commit'.client = c
        /\ commit'.load = commit.load /\ commit'.sets = commit.sets
        /\ commit'.context = commit.context /\ commit.context \in {c, NoClient}
        /\ c \in Clients
    BY <1>0 DEF Link, Typed, CommitTyped
  <1>2. UNCHANGED <<records, delta, state, first, deltaCount>>
    BY DEF Link, contextVars, libraryVars
  <1>3. written' = [written EXCEPT ![c] = Set(@, commit.sets)] /\ currContext' = commit.context
    BY <1>0 DEF Link
  <1>4. ASSUME NEW a \in Clients, a # c PROVE ContentOf(a)'
    <2>1. written'[a] = written[a] /\ currContext' # a
      BY <1>1, <1>3, <1>4, ContextAssumption DEF Typed
    <2> QED
      BY <1>0, <1>1, <1>2, <1>4, <2>1, ContentOthers
  <1>5. ContentOf(c)'
    <2>1. written'[c] = Set(written[c], commit.sets)
      BY <1>1, <1>3 DEF Typed
    <2>2. \A b \in Buffers : Merged(c, b)' = Merged(c, b)
      BY <1>1, <1>2, MergedSame
    <2>3. Associated(c)' <=> Associated(c)
      BY <1>0, <1>1 DEF Associated
    <2>4. currContext' = c \/ commit'.context = c => commit.context = c
      BY <1>1, <1>3
    <2> QED
      BY <1>0, <1>1, <1>2, <2>1, <2>2, <2>3, <2>4 DEF Content, ContentOf, HasSet
  <1> QED
    BY <1>4, <1>5 DEF Content

\* The delta of a commit without a switch goes into the one that both buffers
\* have to merge last.
LEMMA ContentMerge ==
    ASSUME Typed, RingOK, NEW c \in Clients, NEW b \in Buffers, ~ Associated(c),
           MergeDelta(c, delta[c]), deltaCount[c][b] # 0,
           UNCHANGED <<state, first, deltaCount>>
    PROVE  Merged(c, b)' = Set(Merged(c, b), records[c][delta[c]])
  <1>1. PICK n : n = delta[c]
    OBVIOUS
  <1>2. n = NextFree(c) /\ n \in Deltas /\ PrevDelta(n) \in Deltas /\ NextDelta(n) \in Deltas
        /\ PrevDelta(n) # n /\ NextDelta(n) # n /\ NextDelta(n) # PrevDelta(n)
    BY <1>1, DeltaSteps DEF NextFree, Typed
  <1>3. records'[c][PrevDelta(n)] = Set(records[c][PrevDelta(n)], records[c][n])
        /\ records'[c][NextDelta(n)] = records[c][NextDelta(n)]
    BY <1>1, <1>2 DEF MergeDelta, Typed
  <1>4. /\ state[c][b] \in Recordings /\ records[c][n] \in Recordings
        /\ records[c][PrevDelta(n)] \in Recordings /\ records[c][NextDelta(n)] \in Recordings
    BY <1>2 DEF Typed
  <1>5. deltaCount[c][b] = 1 \/ deltaCount[c][b] = 2
    BY RingCounts
  <1>6. CASE deltaCount[c][b] = 1
    <2>1. first[c][b] = PrevDelta(n)
      BY <1>2, <1>6, PendingDeltas
    <2>2. Merged(c, b) = Set(state[c][b], records[c][PrevDelta(n)])
      BY <1>6, <2>1, MergedCases
    <2>3. Merged(c, b)' = Set(state[c][b], records'[c][PrevDelta(n)])
      BY <1>6, <2>1 DEF Merged
    <2> QED
      BY <2>2, <2>3, <1>1, <1>3, <1>4, SetTwice
  <1>7. CASE deltaCount[c][b] = 2
    <2>1. first[c][b] = NextDelta(n) /\ NextDelta(first[c][b]) = PrevDelta(n)
      BY <1>2, <1>7, PendingDeltas
    <2>2. Merged(c, b) = Set(Set(state[c][b], records[c][NextDelta(n)]), records[c][PrevDelta(n)])
      BY <1>7, <2>1, MergedCases
    <2>3. Merged(c, b)' = Set(Set(state[c][b], records'[c][NextDelta(n)]),
                              records'[c][PrevDelta(n)])
      BY <1>7, <2>1 DEF Merged
    <2>4. Set(state[c][b], records[c][NextDelta(n)]) \in Recordings
      BY <1>4, SetTyped
    <2> QED
      BY <2>2, <2>3, <2>4, <1>1, <1>3, <1>4, SetTwice
  <1> QED
    BY <1>5, <1>6, <1>7

LEMMA ContentReturn ==
    ASSUME Typed, RingOK, Content, Return
    PROVE  Content'
  <1>0. PICK c : c = commit.client
    OBVIOUS
  <1>1. /\ commit.at = "submit" /\ commit' = NoCommit /\ c \in Clients
        /\ commit.context \in {c, NoClient} /\ commit.sets \in Recordings
        /\ commit'.client = NoClient /\ commit'.context = NoClient /\ commit'.at = "idle"
    BY <1>0 DEF Return, Typed, CommitTyped, NoCommit
  <1>2. UNCHANGED <<refCount, state, first, deltaCount, buffer, written, currContext>>
    BY DEF Return, contextVars
  <1>3. \A a \in Clients : ~ Associated(a)' /\ commit'.client # a
    BY <1>1, ContextAssumption DEF Associated
  <1>4. ASSUME NEW a \in Clients, a # c PROVE ContentOf(a)'
    <2>1. records'[a] = records[a] /\ delta'[a] = delta[a]
      BY <1>0, <1>4 DEF Return, UpdateDelta, MergeDelta, Typed
    <2> QED
      BY <1>0, <1>1, <1>2, <1>3, <1>4, <2>1, ContentOthers
  <1>5. ContentOf(c)'
    <2>1. (currContext' = c => \A b \in Buffers : deltaCount'[c][b] # 0)
      BY <1>1, <1>2 DEF Content, ContentOf
    <2>2. CASE Associated(c)
      <3>1. refCount[c][delta[c]] # 0 /\ delta[c] \in Deltas /\ NextFree(c) = NextDelta(delta[c])
            /\ NextDelta(delta[c]) \in Deltas
        BY <1>1, <2>2, DeltaFound, DeltaSteps DEF NextFree, Typed
      <3>2. /\ delta' = [delta EXCEPT ![c] = NextDelta(delta[c])]
            /\ records' = [records EXCEPT ![c][NextDelta(delta[c])] = Nothing]
        BY <1>0, <3>1 DEF Return, UpdateDelta
      <3>3. records'[c][delta'[c]] = Nothing
        BY <1>1, <3>1, <3>2 DEF Typed
      <3>4. ASSUME NEW b \in Buffers PROVE Merged(c, b)' = Merged(c, b)
        <4>1. NextDelta(delta[c]) \notin Pending(c, b)
          BY <1>1, <3>1, PendingDeltas
        <4>2. \A d \in Pending(c, b) : records'[c][d] = records[c][d]
          BY <4>1, <3>2, <1>1 DEF Typed
        <4> QED
          BY <4>2, <1>1, <1>2, MergedSame
      <3>5. \A b \in Buffers : Merged(c, b) = written[c]
        BY <1>1, <2>2 DEF Content, ContentOf, HasSet
      <3> QED
        BY <1>1, <1>2, <1>3, <2>1, <3>3, <3>4, <3>5 DEF ContentOf, HasSet
    <2>3. CASE ~ Associated(c)
      <3>1. refCount[c][delta[c]] = 0 /\ delta[c] \in Deltas /\ NextFree(c) = delta[c]
        BY <1>1, <2>3, DeltaFound DEF NextFree, Typed
      <3>2. MergeDelta(c, delta[c]) /\ delta' = delta
        BY <1>0, <3>1 DEF Return, UpdateDelta
      <3>3. records[c][delta[c]] = commit.sets
        BY <1>0, <1>1, <2>3 DEF Content, ContentOf
      <3>4. records'[c][delta'[c]] = Nothing
        BY <1>1, <3>1, <3>2 DEF MergeDelta, Typed
      <3>5. ASSUME NEW b \in Buffers PROVE Merged(c, b)' = written[c]
        <4>1. Set(Merged(c, b), commit.sets) = written[c]
          BY <1>0, <1>1, <2>3 DEF Content, ContentOf, HasSet
        <4>2. CASE deltaCount[c][b] # 0
          BY <4>1, <4>2, <1>1, <1>2, <2>3, <3>2, <3>3, ContentMerge
        <4>3. CASE deltaCount[c][b] = 0
          <5>1. commit.context = NoClient
            BY <4>3, <1>1 DEF Content, ContentOf
          <5>2. commit.sets = Nothing
            BY <5>1 DEF Typed, CommitTyped
          <5>3. Merged(c, b)' = state[c][b] /\ Merged(c, b) = state[c][b]
            BY <4>3, <1>2 DEF Merged
          <5>4. state[c][b] \in Recordings
            BY <1>1 DEF Typed
          <5> QED
            BY <4>1, <5>2, <5>3, <5>4, SetNothing
        <4> QED
          BY <4>2, <4>3
      <3> QED
        BY <1>1, <1>2, <1>3, <2>1, <3>4, <3>5 DEF ContentOf, HasSet
    <2> QED
      BY <2>2, <2>3
  <1> QED
    BY <1>4, <1>5 DEF Content

-----------------------------------------------------------------------------
(* What the front end has still to execute.                                 *)

\* What Link, Submit and ExecuteJob do to it, job by job.
LEMMA Linked ==
    ASSUME Typed, Link
    PROVE  LET k == Len(commands) + 1
           IN  /\ Len(commands') = k /\ k \in Nat
               /\ \A j \in 1 .. Len(commands) : commands'[j] = commands[j]
               /\ commands'[k] =
                    [client |-> commit.client, context |-> commit.context,
                     load |-> commit.load, sets |-> commit.sets, events |-> {},
                     expects |-> written[commit.client]]
               /\ JobTyped(commands'[k]) /\ commands' \in Seq(Job)
  <1>1. PICK new : new = [client |-> commit.client, context |-> commit.context,
                          load |-> commit.load, sets |-> commit.sets, events |-> {},
                          expects |-> written[commit.client]]
    OBVIOUS
  <1>2. commit.client \in Clients /\ written[commit.client] \in Recordings
    BY DEF Link, Typed, CommitTyped
  <1>3. JobTyped(new) /\ new \in Job
    BY <1>1, <1>2 DEF Typed, CommitTyped, JobTyped, Job
  <1>4. commands \in Seq(Job) /\ commands' = Append(commands, new)
    BY <1>1 DEF Link, Typed
  <1>5. /\ Len(commands') = Len(commands) + 1 /\ Len(commands) + 1 \in Nat
        /\ \A j \in 1 .. Len(commands) : commands'[j] = commands[j]
        /\ commands'[Len(commands) + 1] = new
        /\ commands' \in Seq(Job)
    BY <1>3, <1>4
  <1> QED
    BY <1>1, <1>3, <1>5

LEMMA Submitted ==
    ASSUME Typed, Submit, commands # <<>>
    PROVE  /\ Len(commands') = Len(commands) /\ commands' \in Seq(Job)
           /\ \A k \in 1 .. Len(commands) :
                /\ JobTyped(commands'[k])
                /\ commands'[k].client = commands[k].client
                /\ commands'[k].context = commands[k].context
                /\ commands'[k].load = commands[k].load
                /\ commands'[k].sets = commands[k].sets
                /\ commands'[k].expects = commands[k].expects
                /\ commands'[k].events = IF k = Len(commands) THEN commands[k].events \cup list
                                         ELSE commands[k].events
  <1>1. PICK n : n = Len(commands)
    OBVIOUS
  <1>2. commands \in Seq(Job) /\ n \in 1 .. Len(commands) /\ n \in Nat
    BY <1>1 DEF Typed
  <1>3. commands' = [commands EXCEPT ![n].events = @ \cup list]
    BY <1>1 DEF Submit
  <1>4. commands[n] \in Job /\ list \in SUBSET Records
    BY <1>2 DEF Typed
  <1>5. PICK new : new = [commands[n] EXCEPT !.events = @ \cup list]
    OBVIOUS
  <1>6. /\ new \in Job /\ new.client = commands[n].client /\ new.context = commands[n].context
        /\ new.load = commands[n].load /\ new.sets = commands[n].sets
        /\ new.expects = commands[n].expects /\ new.events = commands[n].events \cup list
    BY <1>4, <1>5 DEF Job
  <1>7. commands' = [commands EXCEPT ![n] = new]
    BY <1>3, <1>5
  <1>8. /\ Len(commands') = Len(commands) /\ commands' \in Seq(Job) /\ commands'[n] = new
        /\ \A k \in 1 .. Len(commands) : k # n => commands'[k] = commands[k]
    BY <1>2, <1>6, <1>7
  <1>9. JobTyped(new)
    BY <1>2, <1>4, <1>6 DEF JobTyped, Typed
  <1> QED
    BY <1>1, <1>6, <1>8, <1>9 DEF Typed

LEMMA Executed ==
    ASSUME Typed, ExecuteJob
    PROVE  /\ Len(commands) \in Nat \ {0} /\ Len(commands') = Len(commands) - 1
           /\ commands' \in Seq(Job) /\ Head(commands) = commands[1]
           /\ \A k \in 1 .. Len(commands') : commands'[k] = commands[k + 1]
                                            /\ k + 1 \in 1 .. Len(commands)
  <1>1. commands \in Seq(Job) /\ commands # <<>> /\ commands' = Tail(commands)
    BY DEF Typed, ExecuteJob
  <1> QED
    BY <1>1

-----------------------------------------------------------------------------
(* Every step keeps the types.                                              *)

LEMMA TypedInit == ContextInit => Typed
  <1> SUFFICES ASSUME ContextInit PROVE Typed
    OBVIOUS
  <1>1. CommitTyped
    BY Constants, ContextAssumption DEF ContextInit, CommitTyped, NoCommit, Places
  <1>2. commands \in Seq(Job) /\ \A k \in 1 .. Len(commands) : JobTyped(commands[k])
    BY DEF ContextInit
  <1> QED
    BY <1>1, <1>2, Constants, ContextAssumption DEF ContextInit, Typed, Deltas, Buffers

LEMMA TypedClients ==
    ASSUME Typed, NEW c \in Clients, Attach(c) \/ Detach(c) PROVE Typed'
  <1>1. CASE Attach(c)
    <2>1. CommitTyped'
      BY <1>1 DEF Attach, Typed, CommitTyped
    <2>2. \A k \in 1 .. Len(commands') : JobTyped(commands'[k])
      BY <1>1 DEF Attach, Typed
    <2> QED
      BY <1>1, <2>1, <2>2, Constants DEF Attach, Typed, Deltas, Buffers, eventVars
  <1>2. CASE Detach(c)
    <2>1. CommitTyped'
      BY <1>2 DEF Detach, Typed, CommitTyped
    <2>2. \A k \in 1 .. Len(commands') : JobTyped(commands'[k])
      BY <1>2 DEF Detach, Typed
    <2> QED
      BY <1>2, <2>1, <2>2 DEF Detach, Destroy, Typed, eventVars, contextVars, libraryVars
  <1> QED
    BY <1>1, <1>2

LEMMA TypedStart ==
    ASSUME Typed, NEW c \in Clients, StartCommit(c) PROVE Typed'
  <1>1. CommitTyped' /\ records' \in [Clients -> [Deltas -> Recordings]]
    <2>1. CASE UNCHANGED records /\ commit' = [NoCommit EXCEPT !.at = "enter", !.client = c]
      BY <2>1, Constants, ContextAssumption DEF Typed, CommitTyped, NoCommit, Places
    <2>2. ASSUME NEW r \in Recordings,
                 records' = [records EXCEPT ![c][delta[c]] = Set(@, r)],
                 commit' = [NoCommit EXCEPT !.at = "enter", !.client = c, !.context = c,
                                            !.sets = r]
          PROVE  CommitTyped' /\ records' \in [Clients -> [Deltas -> Recordings]]
      <3>1. Set(records[c][delta[c]], r) \in Recordings
        BY SetTyped DEF Typed
      <3> QED
        BY <2>2, <3>1, ContextAssumption DEF Typed, CommitTyped, NoCommit, Places
    <2> QED
      BY <2>1, <2>2 DEF StartCommit
  <1>2. \A k \in 1 .. Len(commands') : JobTyped(commands'[k])
    BY DEF StartCommit, Typed
  <1>3. commits' \in 0 .. MaxCommits
    <2>1. commits < MaxCommits /\ commits' = commits + 1
      BY DEF StartCommit
    <2>2. commits \in 0 .. MaxCommits
      BY DEF Typed
    <2> QED
      BY <2>1, <2>2, ContextAssumption
  <1> QED
    BY <1>1, <1>2, <1>3 DEF StartCommit, Typed, eventVars, contextVars

LEMMA TypedUpdate ==
    ASSUME Typed, RingOK, NEW c \in Clients, Update(c) PROVE Typed'
  <1>1. CommitTyped'
    <2>1. buffer[c] \in Buffers /\ commit.client = c
      BY ContextAssumption DEF Update, Typed, CommitTyped
    <2> QED
      BY <2>1, ContextAssumption DEF Update, Typed, CommitTyped, Places
  <1>2. state' \in [Clients -> [Buffers -> Recordings]]
    BY MergedTyped DEF Update, Typed
  <1>3. 1 - buffer[c] \in Buffers /\ [client |-> c, buffer |-> buffer[c]] \in Records
    BY OtherBuffer DEF Typed, Records
  <1>4. refCount' \in [Clients -> [Deltas -> Int]]
    <2>1. PICK f : f = [d \in Deltas |->
              refCount[c][d] - (IF d \in Pending(c, buffer[c]) THEN 1 ELSE 0)
                             + (IF d = delta[c] THEN 2 ELSE 0)]
      OBVIOUS
    <2>2. refCount' = [refCount EXCEPT ![c] = f]
      BY <2>1 DEF Update
    <2>3. f \in [Deltas -> Int]
      <3>1. \A d \in Deltas : refCount[c][d] \in Int
        BY DEF Typed
      <3> QED
        BY <2>1, <3>1
    <2> QED
      BY <2>2, <2>3 DEF Typed
  <1>5. first' \in [Clients -> [Buffers -> Deltas]]
    <2>1. PICK f : f = [x \in Buffers |-> IF x = buffer[c] \/ deltaCount[c][x] = 0 THEN delta[c]
                                         ELSE first[c][x]]
      OBVIOUS
    <2>2. first' = [first EXCEPT ![c] = f]
      BY <2>1 DEF Update
    <2>3. f \in [Buffers -> Deltas]
      BY <2>1 DEF Typed
    <2> QED
      BY <2>2, <2>3 DEF Typed
  <1>7. deltaCount' \in [Clients -> [Buffers -> Nat]]
    <2>1. PICK f : f = [x \in Buffers |-> IF x = buffer[c] THEN 1 ELSE deltaCount[c][x] + 1]
      OBVIOUS
    <2>2. deltaCount' = [deltaCount EXCEPT ![c] = f]
      BY <2>1 DEF Update
    <2>3. f \in [Buffers -> Nat]
      <3>1. \A x \in Buffers : deltaCount[c][x] \in Nat
        BY DEF Typed
      <3> QED
        BY <2>1, <3>1
    <2> QED
      BY <2>2, <2>3 DEF Typed
  <1>6. \A k \in 1 .. Len(commands') : JobTyped(commands'[k])
    BY DEF Update, Typed
  <1> QED
    BY <1>1, <1>2, <1>3, <1>4, <1>5, <1>6, <1>7 DEF Update, Typed

LEMMA TypedLink ==
    ASSUME Typed, Link PROVE Typed'
  <1>1. CommitTyped' /\ commit.client \in Clients
    BY DEF Link, Typed, CommitTyped, Places
  <1>2. written' \in [Clients -> Recordings]
    BY <1>1, SetTyped DEF Link, Typed, CommitTyped
  <1>3. commands' \in Seq(Job) /\ \A k \in 1 .. Len(commands') : JobTyped(commands'[k])
    <2>1. \A k \in 1 .. Len(commands') : k \in 1 .. Len(commands) \/ k = Len(commands) + 1
      BY Linked
    <2> QED
      BY <2>1, Linked DEF Typed
  <1>4. currContext' \in Clients \cup {NoClient}
    BY DEF Link, Typed, CommitTyped
  <1> QED
    BY <1>1, <1>2, <1>3, <1>4 DEF Link, Typed, eventVars, contextVars, libraryVars

LEMMA TypedReturn ==
    ASSUME Typed, Return PROVE Typed'
  <1>1. CommitTyped'
    BY Constants, ContextAssumption DEF Return, CommitTyped, NoCommit, Places
  <1>2. PICK c : c = commit.client
    OBVIOUS
  <1>3. c \in Clients /\ delta[c] \in Deltas /\ NextDelta(delta[c]) \in Deltas
        /\ PrevDelta(delta[c]) \in Deltas
    BY <1>2, DeltaSteps DEF Return, Typed, CommitTyped
  <1>4. records[c][PrevDelta(delta[c])] \in Recordings /\ records[c][delta[c]] \in Recordings
    BY <1>3 DEF Typed
  <1>5. Set(records[c][PrevDelta(delta[c])], records[c][delta[c]]) \in Recordings
    BY <1>4, SetTyped
  <1>6. records' \in [Clients -> [Deltas -> Recordings]] /\ delta' \in [Clients -> Deltas]
    <2>1. CASE MergeDelta(c, delta[c]) /\ UNCHANGED delta
      BY <2>1, <1>3, <1>5, Constants DEF MergeDelta, Typed
    <2>2. CASE /\ delta' = [delta EXCEPT ![c] = NextDelta(delta[c])]
               /\ records' = [records EXCEPT ![c][NextDelta(delta[c])] = Nothing]
      BY <2>2, <1>3, Constants DEF Typed
    <2> QED
      BY <1>2, <2>1, <2>2 DEF Return, UpdateDelta
  <1>7. \A k \in 1 .. Len(commands') : JobTyped(commands'[k])
    BY DEF Return, Typed
  <1> QED
    BY <1>1, <1>6, <1>7 DEF Return, Typed, eventVars, contextVars

LEMMA TypedSubmit ==
    ASSUME Typed, Submit PROVE Typed'
  <1>1. CommitTyped'
    BY DEF Submit, Typed, CommitTyped
  <1>2. commands' \in Seq(Job) /\ \A k \in 1 .. Len(commands') : JobTyped(commands'[k])
    <2>1. CASE commands = <<>>
      BY <2>1 DEF Submit, Typed
    <2>2. CASE commands # <<>>
      BY <2>2, Submitted
    <2> QED
      BY <2>1, <2>2
  <1> QED
    BY <1>1, <1>2 DEF Submit, Typed, contextVars, libraryVars

LEMMA TypedExecute ==
    ASSUME Typed, ExecuteJob PROVE Typed'
  <1>1. CommitTyped'
    BY DEF ExecuteJob, Typed, CommitTyped
  <1>2. commands' \in Seq(Job) /\ \A k \in 1 .. Len(commands') : JobTyped(commands'[k])
    BY Executed DEF Typed
  <1>3. PICK j : j = commands[1]
    OBVIOUS
  <1>4. JobTyped(j) /\ Head(commands) = j
    <2>1. 1 \in 1 .. Len(commands) /\ Head(commands) = commands[1]
      BY Executed
    <2> QED
      BY <1>3, <2>1 DEF Typed
  <1>5. Loaded(j) \in Recordings
    BY <1>4 DEF Loaded, JobTyped, Typed
  <1>6. Set(Loaded(j), j.sets) \in Recordings
    BY <1>4, <1>5, SetTyped DEF JobTyped
  <1>7. registers' \in Recordings /\ passed' \in SUBSET Records
    BY <1>4, <1>6, Constants DEF ExecuteJob, JobTyped, Typed
  <1> QED
    BY <1>1, <1>2, <1>7 DEF ExecuteJob, Typed, contextVars, libraryVars

LEMMA TypedOthers ==
    ASSUME Typed, EnterCommit \/ NoUpdate \/ Raise \/ PowerCycle \/ UNCHANGED contextUpdateVars
    PROVE  Typed'
  <1>1. CommitTyped'
    BY DEF EnterCommit, NoUpdate, Raise, PowerCycle, contextUpdateVars, Typed, CommitTyped, Places
  <1>2. UNCHANGED commands
    BY DEF EnterCommit, NoUpdate, Raise, PowerCycle, contextUpdateVars
  <1>3. commands' \in Seq(Job) /\ \A k \in 1 .. Len(commands') : JobTyped(commands'[k])
    BY <1>2 DEF Typed
  <1>4. signal' \in [Clients -> [Buffers -> BOOLEAN]]
    <2>1. CASE Raise
      <3>1. \A r \in passed : r.client \in Clients /\ r.buffer \in Buffers
        BY DEF Typed, Records
      <3>2. PICK r \in passed : signal' = [signal EXCEPT ![r.client][r.buffer] = TRUE]
        BY <2>1 DEF Raise
      <3>3. signal \in [Clients -> [Buffers -> BOOLEAN]]
        BY DEF Typed
      <3> QED
        BY <3>1, <3>2, <3>3
    <2>2. CASE EnterCommit \/ NoUpdate \/ PowerCycle \/ UNCHANGED contextUpdateVars
      BY <2>2 DEF EnterCommit, NoUpdate, PowerCycle, contextUpdateVars, contextVars, Typed
    <2> QED
      BY <2>1, <2>2
  <1> QED
    BY <1>1, <1>3, <1>4, Constants
    DEF EnterCommit, NoUpdate, Raise, PowerCycle, contextUpdateVars, contextVars, eventVars,
        libraryVars, Typed

-----------------------------------------------------------------------------
(* A buffer and its record are in one place.                                *)

LoadsAt(k, r) == commands[k].client = r.client /\ commands[k].load = r.buffer

\* The commit under way will load the buffer.
LoadComes(r) == commit.at = "link" /\ commit.client = r.client /\ commit.load = r.buffer

Behind(r) == \A k \in 1 .. Len(commands) : ~ LoadsAt(k, r) /\ r \notin commands[k].events

\* A free buffer is nowhere.
FreeBuffers ==
    \A r \in Records :
        signal[r.client][r.buffer] =>
            r \notin list /\ r \notin passed /\ ~ LoadComes(r) /\ Behind(r)

\* The GPU is through with a buffer whose event it has passed.
PassedBuffers ==
    \A r \in passed : r \notin list /\ ~ LoadComes(r) /\ Behind(r)

\* The event of a buffer is behind its load, and there is one.
EventBehind ==
    /\ \A r \in list : \A k \in 1 .. Len(commands) : r \notin commands[k].events
    /\ \A k \in 1 .. Len(commands) : \A r \in commands[k].events :
          /\ ~ LoadComes(r)
          /\ \A j \in 1 .. Len(commands) :
                (j > k => ~ LoadsAt(j, r)) /\ (j # k => r \notin commands[j].events)

\* A client that is not attached has nothing anywhere.
Absent ==
    \A c \in Clients \ attached : Finished(c) /\ commit.client # c /\ currContext # c

InFlight == FreeBuffers /\ PassedBuffers /\ EventBehind /\ Absent

\* The steps that do not touch events, buffers or what is to be executed.
LEMMA InFlightStutters ==
    ASSUME Typed, InFlight, UNCHANGED <<attached, signal, list, passed, commands>>,
           commit.at # "link" => commit'.at # "link" \/ commit'.load = NoBuffer,
           commit.at = "link" => commit'.client = commit.client /\ commit'.load = commit.load,
           commit'.client = commit.client \/ commit'.client \in attached \cup {NoClient},
           currContext' \in {currContext, NoClient}
    PROVE  InFlight'
  <1>1. \A r \in Records : LoadComes(r)' => LoadComes(r)
    BY DEF LoadComes, Records, Buffers, NoBuffer
  <1>2. \A r \in Records : Behind(r)' <=> Behind(r)
    BY DEF Behind, LoadsAt
  <1>3. \A c \in Clients : Finished(c)' <=> Finished(c)
    BY DEF Finished
  <1>4. FreeBuffers'
    BY <1>1, <1>2 DEF InFlight, FreeBuffers
  <1>5. PassedBuffers'
    BY <1>1, <1>2 DEF InFlight, PassedBuffers, Typed
  <1>6. EventBehind'
    <2>1. \A k \in 1 .. Len(commands) : commands[k].events \subseteq Records
      BY DEF Typed, JobTyped
    <2> QED
      BY <1>1, <2>1 DEF InFlight, EventBehind, LoadsAt
  <1>7. Absent'
    BY <1>3, ContextAssumption DEF InFlight, Absent
  <1> QED
    BY <1>4, <1>5, <1>6, <1>7 DEF InFlight

LEMMA InFlightAttach ==
    ASSUME Typed, InFlight, NEW c \in Clients, Attach(c)
    PROVE  InFlight'
  <1>1. c \notin attached /\ attached' = attached \cup {c}
        /\ UNCHANGED <<list, passed, commands, commit, currContext>>
    BY DEF Attach, eventVars
  <1>2. Finished(c) /\ commit.client # c
    BY <1>1 DEF InFlight, Absent
  <1>3. \A r : (LoadComes(r)' <=> LoadComes(r)) /\ (Behind(r)' <=> Behind(r))
    BY <1>1 DEF LoadComes, Behind, LoadsAt
  <1>4. FreeBuffers'
    <2> SUFFICES ASSUME NEW r \in Records, signal'[r.client][r.buffer]
                 PROVE  r \notin list /\ r \notin passed /\ ~ LoadComes(r) /\ Behind(r)
      BY <1>1, <1>3 DEF FreeBuffers
    <2>1. CASE r.client = c
      BY <2>1, <1>2 DEF Finished, LoadComes, Behind, LoadsAt
    <2>2. CASE r.client # c
      <3>1. signal[r.client][r.buffer]
        BY <2>2 DEF Attach, Typed, Records
      <3> QED
        BY <3>1 DEF InFlight, FreeBuffers
    <2> QED
      BY <2>1, <2>2
  <1>5. PassedBuffers' /\ EventBehind'
    BY <1>1, <1>3 DEF InFlight, PassedBuffers, EventBehind, LoadsAt
  <1>6. Absent'
    <2>1. \A a \in Clients : Finished(a)' <=> Finished(a)
      BY <1>1 DEF Finished
    <2> QED
      BY <1>1, <2>1 DEF InFlight, Absent
  <1> QED
    BY <1>4, <1>5, <1>6 DEF InFlight

LEMMA InFlightDetach ==
    ASSUME Typed, InFlight, NEW c \in Clients, Detach(c)
    PROVE  InFlight'
  <1>1. /\ attached' = attached \ {c} /\ Finished(c) /\ commit.client # c
        /\ currContext' = IF currContext = c THEN NoClient ELSE currContext
        /\ UNCHANGED <<signal, list, passed, commands, commit>>
    BY DEF Detach, Destroy, eventVars, contextVars
  <1>2. \A r : (LoadComes(r)' <=> LoadComes(r)) /\ (Behind(r)' <=> Behind(r))
    BY <1>1 DEF LoadComes, Behind, LoadsAt
  <1>3. FreeBuffers' /\ PassedBuffers' /\ EventBehind'
    BY <1>1, <1>2 DEF InFlight, FreeBuffers, PassedBuffers, EventBehind, LoadsAt
  <1>4. \A a \in Clients : Finished(a)' <=> Finished(a)
    BY <1>1 DEF Finished
  <1>5. Absent'
    BY <1>1, <1>4, ContextAssumption DEF InFlight, Absent
  <1> QED
    BY <1>3, <1>5 DEF InFlight

LEMMA InFlightUpdate ==
    ASSUME Typed, InFlight, NEW c \in Clients, Update(c)
    PROVE  InFlight'
  <1>1. PICK new : new = [client |-> c, buffer |-> buffer[c]]
    OBVIOUS
  <1>2. new \in Records /\ new.client = c /\ new.buffer = buffer[c]
    BY <1>1 DEF Typed, Records
  <1>3. /\ signal[c][buffer[c]] /\ signal' = [signal EXCEPT ![c][buffer[c]] = FALSE]
        /\ list' = list \cup {new} /\ UNCHANGED <<attached, passed, commands, currContext>>
    BY <1>1 DEF Update
  <1>4. /\ commit.client = c /\ commit.at # "link" /\ commit'.client = c
        /\ commit'.load = buffer[c]
    BY ContextAssumption DEF Update, Typed, CommitTyped
  <1>5. new \notin list /\ new \notin passed /\ Behind(new)
    BY <1>2, <1>3 DEF InFlight, FreeBuffers
  <1>6. \A r \in Records : LoadComes(r)' => r = new
    BY <1>2, <1>4 DEF LoadComes, Records
  <1>7. \A r : Behind(r)' <=> Behind(r)
    BY <1>3 DEF Behind, LoadsAt
  <1>8. FreeBuffers'
    <2> SUFFICES ASSUME NEW r \in Records, signal'[r.client][r.buffer]
                 PROVE  r \notin list' /\ r \notin passed' /\ ~ LoadComes(r)' /\ Behind(r)'
      BY DEF FreeBuffers
    <2>1. r # new
      <3>1. signal \in [Clients -> [Buffers -> BOOLEAN]] /\ buffer[c] \in Buffers
        BY DEF Typed
      <3>2. signal'[c][buffer[c]] = FALSE
        BY <3>1, <1>3
      <3> QED
        BY <3>2, <1>2
    <2>2. signal[r.client][r.buffer]
      BY <1>3 DEF Typed, Records
    <2> QED
      BY <2>1, <2>2, <1>3, <1>6, <1>7 DEF InFlight, FreeBuffers
  <1>9. PassedBuffers'
    BY <1>3, <1>5, <1>6, <1>7 DEF InFlight, PassedBuffers, Typed
  <1>10. EventBehind'
    <2>1. \A k \in 1 .. Len(commands) : commands[k].events \subseteq Records
      BY DEF Typed, JobTyped
    <2>2. \A k \in 1 .. Len(commands) : new \notin commands[k].events
      BY <1>5 DEF Behind
    <2> QED
      BY <1>3, <1>6, <2>1, <2>2 DEF InFlight, EventBehind, LoadsAt
  <1>11. Absent'
    <2>1. c \in attached
      BY <1>4 DEF InFlight, Absent
    <2>2. ASSUME NEW a \in Clients \ attached PROVE Finished(a)'
      BY <1>2, <1>3, <2>1, <2>2 DEF InFlight, Absent, Finished
    <2> QED
      BY <1>3, <1>4, <2>1, <2>2 DEF InFlight, Absent
  <1> QED
    BY <1>8, <1>9, <1>10, <1>11 DEF InFlight

LEMMA InFlightLink ==
    ASSUME Typed, InFlight, Link
    PROVE  InFlight'
  <1>1. PICK n : n = Len(commands)
    OBVIOUS
  <1>2. /\ n \in Nat /\ Len(commands') = n + 1
        /\ \A j \in 1 .. n : commands'[j] = commands[j]
        /\ commands'[n + 1].client = commit.client /\ commands'[n + 1].load = commit.load
        /\ commands'[n + 1].events = {}
    <2>1. n \in Nat
      BY <1>1 DEF Typed
    <2> QED
      BY <2>1, <1>1, Linked
  <1>3. /\ commit.at = "link" /\ commit'.at = "submit" /\ commit'.client = commit.client
        /\ commit.client \in Clients /\ currContext' \in {commit.client, NoClient}
        /\ UNCHANGED <<attached, signal, list, passed>>
    BY DEF Link, Typed, CommitTyped, eventVars, contextVars
  <1>4. \A k \in 1 .. Len(commands') : k \in 1 .. n \/ k = n + 1
    BY <1>2
  <1>5. \A r \in Records : ~ LoadComes(r)'
    BY <1>3 DEF LoadComes
  <1>6. \A r \in Records : ~ LoadComes(r) => ~ LoadsAt(n + 1, r)'
    BY <1>2, <1>3 DEF LoadComes, LoadsAt
  <1>7. \A r \in Records : ~ LoadComes(r) /\ Behind(r) => Behind(r)'
    BY <1>1, <1>2, <1>4, <1>6 DEF Behind, LoadsAt
  <1>8. FreeBuffers' /\ PassedBuffers'
    BY <1>3, <1>5, <1>7 DEF InFlight, FreeBuffers, PassedBuffers, Typed
  <1>9. EventBehind'
    <2>1. \A k \in 1 .. n : commands[k].events \subseteq Records
      BY <1>1 DEF Typed, JobTyped
    <2>2. \A r \in list' : \A k \in 1 .. Len(commands') : r \notin commands'[k].events
      BY <1>1, <1>2, <1>3, <1>4 DEF InFlight, EventBehind
    <2>3. ASSUME NEW k \in 1 .. Len(commands'), NEW r \in commands'[k].events
          PROVE  /\ ~ LoadComes(r)'
                 /\ \A j \in 1 .. Len(commands') :
                       (j > k => ~ LoadsAt(j, r)') /\ (j # k => r \notin commands'[j].events)
      <3>1. k \in 1 .. n /\ r \in commands[k].events /\ r \in Records
        BY <1>2, <1>4, <2>1
      <3>2. ~ LoadComes(r)
        BY <1>1, <3>1 DEF InFlight, EventBehind
      <3>3. ASSUME NEW j \in 1 .. n
            PROVE  (j > k => ~ LoadsAt(j, r)') /\ (j # k => r \notin commands'[j].events)
        BY <1>1, <1>2, <3>1 DEF InFlight, EventBehind, LoadsAt
      <3> QED
        BY <1>2, <1>4, <1>5, <1>6, <3>1, <3>2, <3>3
    <2> QED
      BY <2>2, <2>3 DEF EventBehind
  <1>10. Absent'
    <2>1. commit.client \in attached
      BY <1>3 DEF InFlight, Absent
    <2>2. ASSUME NEW a \in Clients \ attached PROVE Finished(a)'
      <3>1. Finished(a) /\ a # commit.client
        BY <2>1 DEF InFlight, Absent
      <3>2. commands'[n + 1].client # a /\ \A r \in commands'[n + 1].events : r.client # a
        BY <1>2, <3>1
      <3> QED
        BY <1>1, <1>2, <1>3, <1>4, <3>1, <3>2 DEF Finished
    <2> QED
      BY <1>3, <2>1, <2>2, ContextAssumption DEF InFlight, Absent
  <1> QED
    BY <1>8, <1>9, <1>10 DEF InFlight

LEMMA InFlightSubmit ==
    ASSUME Typed, InFlight, Submit
    PROVE  InFlight'
  <1>1. /\ commit.at # "link" /\ list' = {}
        /\ UNCHANGED <<attached, signal, commit, currContext>>
    BY DEF Submit, QueueHeld, contextVars
  <1>2. \A r : ~ LoadComes(r)'
    BY <1>1 DEF LoadComes
  <1>3. CASE commands = <<>>
    <2>1. passed' = passed \cup list /\ commands' = <<>> /\ Len(commands') = 0
      BY <1>3 DEF Submit
    <2>2. \A r : Behind(r)'
      BY <2>1 DEF Behind
    <2>3. FreeBuffers' /\ PassedBuffers' /\ EventBehind'
      BY <1>1, <1>2, <2>1, <2>2 DEF InFlight, FreeBuffers, PassedBuffers, EventBehind
    <2>4. \A a \in Clients : Finished(a) => Finished(a)'
      BY <1>1, <2>1 DEF Finished
    <2> QED
      BY <1>1, <2>3, <2>4 DEF InFlight, Absent
  <1>4. CASE commands # <<>>
    <2>1. PICK n : n = Len(commands)
      OBVIOUS
    <2>2. /\ n \in Nat /\ n \in 1 .. n /\ Len(commands') = n /\ UNCHANGED passed
          /\ \A k \in 1 .. n :
                /\ commands'[k].client = commands[k].client
                /\ commands'[k].load = commands[k].load
                /\ commands'[k].events = IF k = n THEN commands[k].events \cup list
                                         ELSE commands[k].events
      <3>1. n \in Nat /\ n \in 1 .. n
        BY <1>4, <2>1 DEF Typed
      <3> QED
        BY <1>4, <2>1, <3>1, Submitted DEF Submit
    <2>3. \A r : \A k \in 1 .. n : LoadsAt(k, r)' <=> LoadsAt(k, r)
      BY <2>2 DEF LoadsAt
    <2>4. \A r : r \notin list /\ Behind(r) => Behind(r)'
      BY <2>1, <2>2, <2>3 DEF Behind
    <2>5. FreeBuffers' /\ PassedBuffers'
      BY <1>1, <1>2, <2>2, <2>4 DEF InFlight, FreeBuffers, PassedBuffers
    <2>6. EventBehind'
      <3> SUFFICES ASSUME NEW k \in 1 .. n, NEW r \in commands'[k].events, NEW j \in 1 .. n
                   PROVE  /\ j > k => ~ LoadsAt(j, r)
                          /\ j # k => r \notin commands'[j].events
        BY <1>1, <1>2, <2>2, <2>3 DEF EventBehind
      <3>1. CASE r \in list
        <4>1. \A i \in 1 .. n : r \notin commands[i].events
          BY <3>1, <2>1 DEF InFlight, EventBehind
        <4>2. k = n
          BY <4>1, <2>2
        <4>3. ~ (j > k)
          BY <4>2, <2>2
        <4>4. j # k => commands'[j].events = commands[j].events
          BY <4>2, <2>2
        <4> QED
          BY <4>1, <4>3, <4>4
      <3>2. CASE r \notin list
        <4>1. r \in commands[k].events
          BY <3>2, <2>2
        <4>2. (j > k => ~ LoadsAt(j, r)) /\ (j # k => r \notin commands[j].events)
          BY <4>1, <2>1 DEF InFlight, EventBehind
        <4> QED
          BY <3>2, <4>2, <2>2
      <3> QED
        BY <3>1, <3>2
    <2>7. \A a \in Clients : Finished(a) => Finished(a)'
      BY <1>1, <2>1, <2>2 DEF Finished
    <2> QED
      BY <1>1, <2>5, <2>6, <2>7 DEF InFlight, Absent
  <1> QED
    BY <1>3, <1>4

LEMMA InFlightExecute ==
    ASSUME Typed, InFlight, ExecuteJob
    PROVE  InFlight'
  <1>1. PICK n : n = Len(commands)
    OBVIOUS
  <1>2. /\ n \in Nat \ {0} /\ 1 \in 1 .. n /\ Len(commands') = n - 1
        /\ \A k \in 1 .. Len(commands') : commands'[k] = commands[k + 1] /\ k + 1 \in 1 .. n
                                         /\ k + 1 > 1
    BY <1>1, Executed
  <1>3. passed' = passed \cup commands[1].events
        /\ UNCHANGED <<attached, signal, list, commit, currContext>>
    BY Executed DEF ExecuteJob, contextVars
  <1>4. \A r : LoadComes(r)' <=> LoadComes(r)
    BY <1>3 DEF LoadComes
  <1>5. \A r : \A k \in 1 .. Len(commands') : LoadsAt(k, r)' <=> LoadsAt(k + 1, r)
    BY <1>2 DEF LoadsAt
  <1>6. \A r : Behind(r) => Behind(r)' /\ r \notin commands[1].events
    BY <1>1, <1>2, <1>5 DEF Behind
  <1>7. \A r \in commands[1].events : r \notin list /\ ~ LoadComes(r) /\ Behind(r)'
    <2> SUFFICES ASSUME NEW r \in commands[1].events
                 PROVE  r \notin list /\ ~ LoadComes(r) /\ Behind(r)'
      OBVIOUS
    <2>1. \A j \in 1 .. n : j > 1 => ~ LoadsAt(j, r) /\ r \notin commands[j].events
      BY <1>1, <1>2 DEF InFlight, EventBehind
    <2>2. r \notin list /\ ~ LoadComes(r)
      BY <1>1, <1>2 DEF InFlight, EventBehind
    <2>3. Behind(r)'
      BY <1>2, <1>5, <2>1 DEF Behind
    <2> QED
      BY <2>2, <2>3
  <1>8. FreeBuffers'
    BY <1>3, <1>4, <1>6 DEF InFlight, FreeBuffers
  <1>9. PassedBuffers'
    BY <1>3, <1>4, <1>6, <1>7 DEF InFlight, PassedBuffers
  <1>10. EventBehind'
    <2>1. \A r \in list : \A k \in 1 .. Len(commands') : r \notin commands'[k].events
      BY <1>1, <1>2 DEF InFlight, EventBehind
    <2>2. ASSUME NEW k \in 1 .. Len(commands'), NEW r \in commands'[k].events
          PROVE  ~ LoadComes(r)
      BY <1>1, <1>2 DEF InFlight, EventBehind
    <2>3. ASSUME NEW k \in 1 .. Len(commands'), NEW r \in commands'[k].events,
                 NEW j \in 1 .. Len(commands')
          PROVE  (j > k => ~ LoadsAt(j, r)') /\ (j # k => r \notin commands'[j].events)
      <3>1. r \in commands[k + 1].events /\ k + 1 \in 1 .. n /\ j + 1 \in 1 .. n
        BY <1>2
      <3>2. /\ j + 1 > k + 1 => ~ LoadsAt(j + 1, r)
            /\ j + 1 # k + 1 => r \notin commands[j + 1].events
        BY <3>1, <1>1 DEF InFlight, EventBehind
      <3>3. (j > k => j + 1 > k + 1) /\ (j # k => j + 1 # k + 1)
        BY <1>2
      <3> QED
        BY <3>2, <3>3, <1>2, <1>5
    <2> QED
      BY <1>3, <1>4, <2>1, <2>2, <2>3 DEF EventBehind
  <1>11. Absent'
    <2>1. ASSUME NEW a \in Clients, Finished(a) PROVE Finished(a)'
      BY <1>1, <1>2, <1>3, <2>1 DEF Finished
    <2> QED
      BY <1>3, <2>1 DEF InFlight, Absent
  <1> QED
    BY <1>8, <1>9, <1>10, <1>11 DEF InFlight

LEMMA InFlightRaise ==
    ASSUME Typed, InFlight, Raise
    PROVE  InFlight'
  <1>1. PICK q \in passed : /\ signal' = [signal EXCEPT ![q.client][q.buffer] = TRUE]
                            /\ passed' = passed \ {q}
    BY DEF Raise
  <1>2. UNCHANGED <<attached, list, commands, commit, currContext>>
    BY DEF Raise
  <1>3. \A r : (LoadComes(r)' <=> LoadComes(r)) /\ (Behind(r)' <=> Behind(r))
    BY <1>2 DEF LoadComes, Behind, LoadsAt
  <1>4. FreeBuffers'
    <2> SUFFICES ASSUME NEW r \in Records, signal'[r.client][r.buffer]
                 PROVE  r \notin list /\ r \notin passed' /\ ~ LoadComes(r) /\ Behind(r)
      BY <1>2, <1>3 DEF FreeBuffers
    <2>1. CASE r = q
      BY <2>1, <1>1 DEF InFlight, PassedBuffers
    <2>2. CASE r # q
      <3>1. q \in Records
        BY <1>1 DEF Typed
      <3>2. r.client # q.client \/ r.buffer # q.buffer
        BY <2>2, <3>1 DEF Records
      <3>3. signal[r.client][r.buffer]
        BY <3>1, <3>2, <1>1 DEF Typed, Records
      <3> QED
        BY <3>3, <1>1 DEF InFlight, FreeBuffers
    <2> QED
      BY <2>1, <2>2
  <1>5. PassedBuffers' /\ EventBehind'
    BY <1>1, <1>2, <1>3 DEF InFlight, PassedBuffers, EventBehind, LoadsAt
  <1>6. Absent'
    <2>1. \A a \in Clients : Finished(a) => Finished(a)'
      BY <1>1, <1>2 DEF Finished
    <2> QED
      BY <1>2, <2>1 DEF InFlight, Absent
  <1> QED
    BY <1>4, <1>5, <1>6 DEF InFlight

-----------------------------------------------------------------------------
(* What the commands find in the registers.                                 *)

\* What the commands of j leave, when they have found what they rely on.
AfterJob(j) == IF j.context = NoClient THEN Nothing ELSE Set(j.expects, j.sets)

Before(k) == IF k = 1 THEN registers ELSE AfterJob(commands[k - 1])

FoundBy(k) ==
    IF commands[k].load = NoBuffer THEN Before(k)
    ELSE state[commands[k].client][commands[k].load]

\* Every command finds what it relies on, and a commit of the current context
\* will: also the one that has decided against a switch.
Chain ==
    /\ \A k \in 1 .. Len(commands) :
          commands[k].context # NoClient => FoundBy(k) = commands[k].expects
    /\ currContext # NoClient => Before(Len(commands) + 1) = written[currContext]
    /\ commit.at = "link" /\ commit.load = NoBuffer /\ commit.context # NoClient =>
          currContext = commit.context

LEMMA ChainStutters ==
    ASSUME Typed, Chain, UNCHANGED <<state, written, commands, registers>>,
           currContext' \in {currContext, NoClient},
           commit'.at = "link" /\ commit'.load = NoBuffer /\ commit'.context # NoClient =>
              currContext' = commit'.context
    PROVE  Chain'
  <1>1. \A k : Before(k)' = Before(k) /\ FoundBy(k)' = FoundBy(k)
    BY DEF Before, FoundBy, AfterJob
  <1> QED
    BY <1>1 DEF Chain

LEMMA ChainAttach ==
    ASSUME Typed, InFlight, Chain, NEW c \in Clients, Attach(c)
    PROVE  Chain'
  <1>1. c \notin attached /\ UNCHANGED <<currContext, commit, commands, registers>>
    BY DEF Attach
  <1>2. Finished(c) /\ currContext # c
    BY <1>1 DEF InFlight, Absent
  <1>3. \A k : Before(k)' = Before(k)
    BY <1>1 DEF Before, AfterJob
  <1>4. \A a \in Clients : a # c => state'[a] = state[a] /\ written'[a] = written[a]
    BY DEF Attach, Typed
  <1>5. \A k \in 1 .. Len(commands) : commands[k].client \in Clients /\ commands[k].client # c
    BY <1>2 DEF Finished, Typed, JobTyped
  <1>6. \A k \in 1 .. Len(commands) : FoundBy(k)' = FoundBy(k)
    BY <1>1, <1>3, <1>4, <1>5 DEF FoundBy
  <1>7. currContext # NoClient => written'[currContext] = written[currContext]
    BY <1>2, <1>4 DEF Typed
  <1> QED
    BY <1>1, <1>3, <1>6, <1>7 DEF Chain

LEMMA ChainUpdate ==
    ASSUME Typed, InFlight, Chain, NEW c \in Clients, Update(c)
    PROVE  Chain'
  <1>1. PICK r : r = [client |-> c, buffer |-> buffer[c]]
    OBVIOUS
  <1>2. r \in Records /\ r.client = c /\ r.buffer = buffer[c] /\ buffer[c] # NoBuffer
    <2>1. buffer[c] \in Buffers
      BY DEF Typed
    <2> QED
      BY <2>1, <1>1 DEF Records, Buffers, NoBuffer
  <1>3. signal[c][buffer[c]] /\ state' = [state EXCEPT ![c][buffer[c]] = Merged(c, buffer[c])]
        /\ commit'.load # NoBuffer /\ UNCHANGED <<currContext, commands, registers, written>>
    BY <1>2 DEF Update, Typed, CommitTyped
  <1>4. Behind(r)
    BY <1>2, <1>3 DEF InFlight, FreeBuffers
  <1>5. \A k : Before(k)' = Before(k)
    BY <1>3 DEF Before, AfterJob
  <1>6. ASSUME NEW k \in 1 .. Len(commands) PROVE FoundBy(k)' = FoundBy(k)
    <2>1. ~ (commands[k].client = c /\ commands[k].load = buffer[c])
      BY <1>2, <1>4 DEF Behind, LoadsAt
    <2>2. commands[k].client \in Clients /\ commands[k].load \in Buffers \cup {NoBuffer}
      BY DEF Typed, JobTyped
    <2>3. commands[k].load # NoBuffer =>
             state'[commands[k].client][commands[k].load] =
             state[commands[k].client][commands[k].load]
      BY <1>3, <2>1, <2>2 DEF Typed
    <2> QED
      BY <1>3, <1>5, <2>3 DEF FoundBy
  <1> QED
    BY <1>3, <1>5, <1>6 DEF Chain

LEMMA ChainLink ==
    ASSUME Typed, Content, Chain, Link
    PROVE  Chain'
  <1>1. PICK n : n = Len(commands)
    OBVIOUS
  <1>2. PICK c : c = commit.client
    OBVIOUS
  <1>3. /\ n \in Nat /\ Len(commands') = n + 1
        /\ \A j \in 1 .. n : commands'[j] = commands[j]
        /\ commands'[n + 1] = [client |-> c, context |-> commit.context, load |-> commit.load,
                               sets |-> commit.sets, events |-> {}, expects |-> written[c]]
    BY <1>1, <1>2, Linked DEF Typed
  <1>4. /\ commit.at = "link" /\ commit'.at = "submit" /\ c \in Clients
        /\ commit.context \in {c, NoClient} /\ currContext' = commit.context
        /\ UNCHANGED <<state, registers>>
        /\ written' = [written EXCEPT ![c] = Set(@, commit.sets)]
    BY <1>2 DEF Link, Typed, CommitTyped, contextVars
  <1>5. \A k \in 1 .. n + 1 : Before(k)' = Before(k)
    <2> SUFFICES ASSUME NEW k \in 1 .. n + 1 PROVE Before(k)' = Before(k)
      OBVIOUS
    <2>1. k # 1 => k - 1 \in 1 .. n
      BY <1>3
    <2>2. k # 1 => commands'[k - 1] = commands[k - 1]
      BY <1>3, <2>1
    <2> QED
      BY <1>4, <2>2 DEF Before, AfterJob
  <1>6. \A k \in 1 .. n : commands'[k].context # NoClient => FoundBy(k)' = commands'[k].expects
    <2> SUFFICES ASSUME NEW k \in 1 .. n, commands'[k].context # NoClient
                 PROVE  FoundBy(k)' = commands'[k].expects
      OBVIOUS
    <2>1. FoundBy(k)' = FoundBy(k)
      <3>1. k \in 1 .. n + 1
        BY <1>3
      <3> QED
        BY <3>1, <1>3, <1>4, <1>5 DEF FoundBy
    <2> QED
      BY <1>1, <1>3, <2>1 DEF Chain
  <1>7. commit.context # NoClient => FoundBy(n + 1)' = commands'[n + 1].expects
    <2> SUFFICES ASSUME commit.context # NoClient
                 PROVE  FoundBy(n + 1)' = written[c]
      BY <1>3
    <2>1. CASE commit.load = NoBuffer
      <3>1. currContext = c
        BY <1>4, <2>1 DEF Chain
      <3>2. Before(n + 1) = written[c]
        BY <1>1, <1>4, <3>1, ContextAssumption DEF Chain
      <3>3. Before(n + 1)' = Before(n + 1)
        BY <1>3, <1>5
      <3> QED
        BY <2>1, <3>2, <3>3, <1>3 DEF FoundBy
    <2>2. CASE commit.load # NoBuffer
      <3>1. Associated(c)
        BY <1>2, <2>2 DEF Associated
      <3>2. state[c][commit.load] = written[c]
        BY <1>4, <3>1 DEF Content, ContentOf
      <3> QED
        BY <2>2, <3>2, <1>3, <1>4 DEF FoundBy
    <2> QED
      BY <2>1, <2>2
  <1>8. currContext' # NoClient => Before(n + 2)' = written'[currContext']
    <2>1. Before(n + 2)' = AfterJob(commands'[n + 1])
      <3>1. n + 2 # 1 /\ (n + 2) - 1 = n + 1
        BY <1>3
      <3> QED
        BY <3>1 DEF Before
    <2>2. written'[c] = Set(written[c], commit.sets)
      BY <1>4 DEF Typed
    <2> QED
      BY <1>3, <1>4, <2>1, <2>2 DEF AfterJob
  <1>9. ASSUME NEW k \in 1 .. Len(commands'), commands'[k].context # NoClient
        PROVE  FoundBy(k)' = commands'[k].expects
    <2>1. k \in 1 .. n \/ k = n + 1
      BY <1>3
    <2> QED
      BY <2>1, <1>3, <1>6, <1>7, <1>9
  <1>10. Len(commands') + 1 = n + 2
    BY <1>3
  <1> QED
    BY <1>4, <1>8, <1>9, <1>10 DEF Chain

LEMMA ChainSubmit ==
    ASSUME Typed, Chain, Submit
    PROVE  Chain'
  <1>1. UNCHANGED <<state, written, registers, currContext, commit>>
    BY DEF Submit, contextVars
  <1>2. CASE commands = <<>>
    <2>1. UNCHANGED commands
      BY <1>2 DEF Submit
    <2> QED
      BY <1>1, <2>1, ChainStutters DEF Chain
  <1>3. CASE commands # <<>>
    <2>1. PICK n : n = Len(commands)
      OBVIOUS
    <2>2. /\ n \in Nat /\ Len(commands') = n
          /\ \A k \in 1 .. n :
                /\ commands'[k].client = commands[k].client
                /\ commands'[k].context = commands[k].context
                /\ commands'[k].load = commands[k].load
                /\ commands'[k].sets = commands[k].sets
                /\ commands'[k].expects = commands[k].expects
      <3>1. n \in Nat
        BY <2>1 DEF Typed
      <3> QED
        BY <1>3, <2>1, <3>1, Submitted
    <2>3. \A k \in 1 .. n + 1 : Before(k)' = Before(k)
      <3> SUFFICES ASSUME NEW k \in 1 .. n + 1 PROVE Before(k)' = Before(k)
        OBVIOUS
      <3>1. k # 1 => k - 1 \in 1 .. n
        BY <2>2
      <3> QED
        BY <1>1, <2>2, <3>1 DEF Before, AfterJob
    <2>4. ASSUME NEW k \in 1 .. n PROVE FoundBy(k)' = FoundBy(k)
      <3>1. k \in 1 .. n + 1
        BY <2>2
      <3> QED
        BY <3>1, <1>1, <2>2, <2>3 DEF FoundBy
    <2>5. n + 1 \in 1 .. n + 1
      BY <2>2
    <2> QED
      BY <1>1, <2>1, <2>2, <2>3, <2>4, <2>5 DEF Chain
  <1> QED
    BY <1>2, <1>3

LEMMA ChainExecute ==
    ASSUME Typed, Chain, ExecuteJob
    PROVE  Chain'
  <1>1. PICK n : n = Len(commands)
    OBVIOUS
  <1>2. /\ n \in Nat \ {0} /\ 1 \in 1 .. n /\ Len(commands') = n - 1
        /\ \A k \in 1 .. n - 1 : commands'[k] = commands[k + 1] /\ k + 1 \in 1 .. n
        /\ Head(commands) = commands[1]
    BY <1>1, Executed
  <1>3. UNCHANGED <<state, written, currContext, commit>>
    BY DEF ExecuteJob, contextVars
  <1>4. registers' = AfterJob(commands[1])
    <2>1. Loaded(commands[1]) = FoundBy(1)
      BY DEF Loaded, FoundBy, Before
    <2>2. commands[1].context # NoClient => Loaded(commands[1]) = commands[1].expects
      BY <1>1, <1>2, <2>1 DEF Chain
    <2> QED
      BY <1>2, <2>2 DEF ExecuteJob, AfterJob
  <1>5. ASSUME NEW k \in 1 .. n PROVE Before(k)' = Before(k + 1)
    <2>1. CASE k = 1
      BY <1>4, <2>1 DEF Before, AfterJob
    <2>2. CASE k # 1
      <3>1. k - 1 \in 1 .. n - 1 /\ (k - 1) + 1 = k /\ (k + 1) - 1 = k /\ k + 1 # 1
        BY <2>2, <1>2
      <3>2. commands'[k - 1] = commands[k]
        BY <3>1, <1>2
      <3> QED
        BY <2>2, <3>1, <3>2 DEF Before, AfterJob
    <2> QED
      BY <2>1, <2>2
  <1>6. ASSUME NEW k \in 1 .. Len(commands'), commands'[k].context # NoClient
        PROVE  FoundBy(k)' = commands'[k].expects
    <2>1. k \in 1 .. n /\ commands'[k] = commands[k + 1] /\ k + 1 \in 1 .. n
      BY <1>2
    <2>2. FoundBy(k)' = FoundBy(k + 1)
      BY <2>1, <1>3, <1>5 DEF FoundBy
    <2> QED
      BY <2>1, <2>2, <1>1, <1>6 DEF Chain
  <1>7. currContext' # NoClient => Before(Len(commands) + 1)' = written'[currContext']
    <2>1. n \in 1 .. n /\ Len(commands') + 1 = n
      BY <1>2
    <2>2. Before(n)' = Before(n + 1)
      BY <2>1, <1>5
    <2> QED
      BY <2>1, <2>2, <1>1, <1>3 DEF Chain
  <1> QED
    BY <1>3, <1>6, <1>7 DEF Chain

LEMMA ChainPowerCycle ==
    ASSUME Typed, Chain, PowerCycle
    PROVE  Chain'
  <1>1. commands' = <<>> /\ Len(commands') = 0 /\ currContext' = NoClient /\ commit' = commit
        /\ commit.at # "link"
    BY DEF PowerCycle, QueueHeld
  <1> QED
    BY <1>1 DEF Chain

-----------------------------------------------------------------------------
(* Together.                                                                *)

ContextInv == Typed /\ RingOK /\ Content /\ InFlight /\ Chain

LEMMA InvInit == ContextInit => ContextInv
  <1> SUFFICES ASSUME ContextInit PROVE ContextInv
    OBVIOUS
  <1>1. Typed
    BY TypedInit
  <1>2. \A c \in Clients : ~ Associated(c) /\ commit.client # c
    BY ContextAssumption DEF ContextInit, NoCommit, Associated
  <1>3. RingOK
    <2>1. 0 \in Deltas /\ NextDelta(0) \in Deltas /\ PrevDelta(0) \in Deltas
          /\ 0 \in Buffers /\ 1 - 0 \in Buffers
      BY DEF Deltas, NextDelta, PrevDelta, Buffers
    <2> QED
      BY <1>2, <2>1 DEF ContextInit, RingOK, RingAt, NextFree
  <1>4. Content
    <2>1. \A c \in Clients, b \in Buffers : Merged(c, b) = Fresh
      BY DEF ContextInit, Merged
    <2>2. \A c \in Clients : currContext # c /\ commit.at = "idle"
      BY ContextAssumption DEF ContextInit, NoCommit
    <2>3. \A c \in Clients : records[c][delta[c]] = Nothing /\ written[c] = Fresh
      BY DEF ContextInit, Deltas
    <2> QED
      BY <1>2, <2>1, <2>2, <2>3 DEF Content, ContentOf, HasSet
  <1>5. InFlight
    <2>1. commands = <<>> /\ Len(commands) = 0 /\ list = {} /\ passed = {}
          /\ commit.at = "idle" /\ currContext = NoClient
      BY DEF ContextInit, NoCommit
    <2>2. \A r : ~ LoadComes(r) /\ Behind(r)
      BY <2>1 DEF LoadComes, Behind
    <2>3. \A c \in Clients : Finished(c)
      BY <2>1 DEF Finished
    <2> QED
      BY <1>2, <2>1, <2>2, <2>3, ContextAssumption
      DEF InFlight, FreeBuffers, PassedBuffers, EventBehind, Absent
  <1>6. Chain
    BY DEF ContextInit, NoCommit, Chain
  <1> QED
    BY <1>1, <1>3, <1>4, <1>5, <1>6 DEF ContextInv

LEMMA InvNext == ContextInv /\ [ContextNext]_contextUpdateVars => ContextInv'
  <1> SUFFICES ASSUME Typed, RingOK, Content, InFlight, Chain,
                      [ContextNext]_contextUpdateVars
               PROVE  ContextInv'
    BY DEF ContextInv
  <1> USE DEF ContextInv
  <1>1. ASSUME NEW c \in Clients, Attach(c) PROVE ContextInv'
    <2>1. commit.client # c /\ currContext # c
      BY <1>1 DEF Attach, InFlight, Absent
    <2> QED
      BY <1>1, <2>1, TypedClients, RingAttach, ContentAttach, InFlightAttach, ChainAttach
  <1>2. ASSUME NEW c \in Clients, Detach(c) PROVE ContextInv'
    <2>1. /\ UNCHANGED <<refCount, records, delta, state, first, deltaCount, buffer, commit,
                         commands, registers, written>>
          /\ currContext' \in {currContext, NoClient} /\ commit.client # c
          /\ currContext' # currContext => currContext = c
      BY <1>2 DEF Detach, Destroy, libraryVars, contextVars
    <2>2. commit'.at = "link" /\ commit'.load = NoBuffer /\ commit'.context # NoClient =>
              currContext' = commit'.context
      BY <2>1 DEF Chain, Typed, CommitTyped
    <2> QED
      BY <1>2, <2>1, <2>2, TypedClients, RingStutters, ContentStutters, InFlightDetach,
         ChainStutters
  <1>3. ASSUME NEW c \in Clients, StartCommit(c) PROVE ContextInv'
    <2>1. /\ commit.load = NoBuffer /\ commit'.load = NoBuffer /\ commit.at = "idle"
          /\ commit'.at = "enter" /\ commit'.client = c /\ c \in attached
      BY <1>3 DEF StartCommit, NoCommit
    <2>2. UNCHANGED <<attached, refCount, delta, signal, state, first, deltaCount, buffer,
                      currContext, list, passed, commands, registers, written>>
      BY <1>3 DEF StartCommit, contextVars, eventVars
    <2> QED
      BY <1>3, <2>1, <2>2, TypedStart, RingStutters, ContentStart, InFlightStutters,
         ChainStutters
  <1>4. ASSUME NEW c \in Clients, Update(c) PROVE ContextInv'
    BY <1>4, TypedUpdate, RingUpdate, ContentUpdate, InFlightUpdate, ChainUpdate
  <1>5. CASE EnterCommit
    <2>1. /\ commit.at = "enter" /\ commit'.at = "switch" /\ commit'.client = commit.client
          /\ commit'.load = commit.load
      BY <1>5 DEF EnterCommit, Typed, CommitTyped
    <2>2. UNCHANGED <<attached, refCount, delta, signal, state, first, deltaCount, buffer,
                      currContext, list, passed, commands, registers, written>>
      BY <1>5 DEF EnterCommit, libraryVars, contextVars, eventVars
    <2> QED
      BY <1>5, <2>1, <2>2, TypedOthers, RingStutters, ContentEnter, InFlightStutters,
         ChainStutters
  <1>6. CASE NoUpdate
    <2>1. /\ commit.at = "switch" /\ commit'.client = commit.client
          /\ commit'.load = commit.load /\ commit.load = NoBuffer
          /\ commit'.context = commit.context /\ commit.context \in {currContext, NoClient}
      BY <1>6 DEF NoUpdate, Typed, CommitTyped
    <2>2. UNCHANGED <<attached, refCount, delta, signal, state, first, deltaCount, buffer,
                      currContext, list, passed, commands, registers, written>>
      BY <1>6 DEF NoUpdate, libraryVars, contextVars, eventVars
    <2> QED
      BY <1>6, <2>1, <2>2, TypedOthers, RingStutters, ContentNoUpdate, InFlightStutters,
         ChainStutters
  <1>7. CASE Link
    <2>1. commit'.load = commit.load /\ commit'.client = commit.client
          /\ UNCHANGED <<refCount, delta, first, deltaCount, buffer>>
      BY <1>7 DEF Link, Typed, CommitTyped, libraryVars, contextVars
    <2> QED
      BY <1>7, <2>1, TypedLink, RingStutters, ContentLink, InFlightLink, ChainLink
  <1>8. CASE Submit
    <2>1. UNCHANGED <<refCount, records, delta, state, first, deltaCount, buffer, commit,
                      written, currContext>>
      BY <1>8 DEF Submit, libraryVars, contextVars
    <2> QED
      BY <1>8, <2>1, TypedSubmit, RingStutters, ContentStutters, InFlightSubmit, ChainSubmit
  <1>9. CASE Return
    <2>1. /\ commit.at = "submit" /\ commit'.at = "idle" /\ commit'.load = NoBuffer
          /\ commit'.client = NoClient
      BY <1>9 DEF Return, NoCommit
    <2>2. UNCHANGED <<attached, signal, state, currContext, list, passed, commands, registers,
                      written>>
      BY <1>9 DEF Return, contextVars, eventVars
    <2> QED
      BY <1>9, <2>1, <2>2, TypedReturn, RingReturn, ContentReturn, InFlightStutters,
         ChainStutters
  <1>10. CASE ExecuteJob
    <2>1. UNCHANGED <<refCount, records, delta, state, first, deltaCount, buffer, commit,
                      written, currContext>>
      BY <1>10 DEF ExecuteJob, libraryVars, contextVars
    <2> QED
      BY <1>10, <2>1, TypedExecute, RingStutters, ContentStutters, InFlightExecute,
         ChainExecute
  <1>11. CASE Raise
    <2>1. UNCHANGED <<refCount, records, delta, state, first, deltaCount, buffer, commit,
                      written, currContext, commands, registers>>
      BY <1>11 DEF Raise, libraryVars
    <2> QED
      BY <1>11, <2>1, TypedOthers, RingStutters, ContentStutters, InFlightRaise, ChainStutters
      DEF Chain
  <1>12. CASE PowerCycle
    <2>1. /\ UNCHANGED <<attached, refCount, records, delta, signal, state, first, deltaCount,
                         buffer, commit, list, passed, commands, written>>
          /\ currContext' = NoClient
      BY <1>12 DEF PowerCycle, libraryVars, contextVars, eventVars
    <2> QED
      BY <1>12, <2>1, TypedOthers, RingStutters, ContentStutters, InFlightStutters,
         ChainPowerCycle
  <1>13. CASE UNCHANGED contextUpdateVars
    <2>1. UNCHANGED <<attached, refCount, records, delta, signal, state, first, deltaCount,
                      buffer, currContext, commit, list, passed, commands, registers, written>>
      BY <1>13 DEF contextUpdateVars, libraryVars, contextVars, eventVars
    <2> QED
      BY <1>13, <2>1, TypedOthers, RingStutters, ContentStutters, InFlightStutters,
         ChainStutters DEF Chain
  <1> QED
    BY <1>1, <1>2, <1>3, <1>4, <1>5, <1>6, <1>7, <1>8, <1>9, <1>10, <1>11, <1>12, <1>13
    DEF ContextNext

LEMMA InvAlways == ContextSpec => []ContextInv
  <1> QED
    BY InvInit, InvNext, PTL DEF ContextSpec

\* Every variable keeps its type; in particular a delta is attached to each
\* buffer at most once, and no buffer has more than two to merge.
THEOREM ContextTypeCorrect == ContextSpec => []ContextTypeOK
  <1>1. ContextInv => ContextTypeOK
    <2> SUFFICES ASSUME Typed, RingOK PROVE ContextTypeOK
      BY DEF ContextInv
    <2>1. /\ \A c \in Clients, b \in Buffers : deltaCount[c][b] \in 0 .. 2
          /\ \A c \in Clients, d \in Deltas : refCount[c][d] \in 0 .. 2
      BY RingCounts
    <2>2. /\ refCount \in [Clients -> [Deltas -> 0 .. 2]]
          /\ deltaCount \in [Clients -> [Buffers -> 0 .. 2]]
      BY <2>1 DEF Typed
    <2> QED
      BY <2>2 DEF ContextTypeOK, Typed, CommitTyped
  <1> QED
    BY <1>1, InvAlways, PTL

\* A command buffer finds the registers as its client has left them.
THEOREM RegistersAlwaysRight == ContextSpec => []RegistersRight
  <1>1. ContextInv => RegistersRight
    <2> SUFFICES ASSUME Typed, Chain, commands # <<>>, Head(commands).context # NoClient
                 PROVE  Loaded(Head(commands)) = Head(commands).expects
      BY DEF ContextInv, RegistersRight
    <2>1. Head(commands) = commands[1] /\ 1 \in 1 .. Len(commands)
      BY DEF Typed
    <2>2. Loaded(commands[1]) = FoundBy(1)
      BY DEF Loaded, FoundBy, Before
    <2> QED
      BY <2>1, <2>2 DEF Chain
  <1> QED
    BY <1>1, InvAlways, PTL

\* The GPU never has to read a context buffer that the driver may write to.
THEOREM BuffersAlwaysQuiet == ContextSpec => []BufferQuiet
  <1>1. ContextInv => BufferQuiet
    <2> SUFFICES ASSUME InFlight, NEW c \in Clients, NEW b \in Buffers, signal[c][b],
                        NEW k \in 1 .. Len(commands)
                 PROVE  ~ (commands[k].client = c /\ commands[k].load = b)
      BY DEF ContextInv, BufferQuiet
    <2>1. PICK r : r = [client |-> c, buffer |-> b]
      OBVIOUS
    <2>2. r \in Records /\ r.client = c /\ r.buffer = b
      BY <2>1 DEF Records
    <2> QED
      BY <2>2 DEF InFlight, FreeBuffers, Behind, LoadsAt
  <1> QED
    BY <1>1, InvAlways, PTL

\* Three deltas are enough for two buffers.
THEOREM DeltaAlwaysFree == ContextSpec => []DeltaFree
  <1>1. ContextInv => DeltaFree
    <2> SUFFICES ASSUME Typed, RingOK, NEW c \in attached
                 PROVE  IF commit.client = c /\ commit.at \in {"link", "submit"}
                           /\ refCount[c][delta[c]] # 0
                        THEN refCount[c][NextDelta(delta[c])] = 0
                        ELSE refCount[c][delta[c]] = 0
      BY DEF ContextInv, DeltaFree
    <2>1. c \in Clients
      BY DEF Typed
    <2>2. CASE Associated(c)
      <3>1. commit.client = c /\ commit.at \in {"link", "submit"}
        BY <2>2 DEF Associated, Typed, CommitTyped
      <3>2. refCount[c][NextDelta(delta[c])] = 0
        BY <2>1, <2>2 DEF RingOK, RingAt, NextFree
      <3>3. refCount[c][delta[c]] = 2
        BY <2>1, <2>2, DeltaFound
      <3> QED
        BY <3>1, <3>2, <3>3
    <2>3. CASE ~ Associated(c)
      BY <2>1, <2>3, DeltaFound
    <2> QED
      BY <2>2, <2>3
  <1> QED
    BY <1>1, InvAlways, PTL
=============================================================================
