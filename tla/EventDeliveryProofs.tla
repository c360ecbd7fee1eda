------------------------ MODULE EventDeliveryProofs ------------------------
(***************************************************************************)
(* EventManager implements EventDelivery, for any threads, records, slots  *)
(* and lost interrupts.  What is needed beside IInv is that no record is   *)
(* in two places (Once).  The records of the pixel pipe are performed in   *)
(* the order in which they were added (PixelsInOrder): a record stays      *)
(* behind the earlier ones on its way (PixelOrder).                        *)
(***************************************************************************)
EXTENDS EventManagerProofs

Distinct(s) == \A a, b \in DOMAIN s : s[a] = s[b] => a = b
Disjoint(S, T) == S \cap T = {}
Queued(k) == Elements(list[k].recs)
InSlot(i) == Elements(recs[i])

\* A record is once in one queue, slot or walk, or was performed once.
QueuesOnce ==
    /\ \A k \in DOMAIN list : Distinct(list[k].recs)
    /\ \A k, l \in DOMAIN list : k # l => Disjoint(Queued(k), Queued(l))
SlotsOnce ==
    /\ \A i \in Slots : Distinct(recs[i])
    /\ \A i, j \in Slots : i # j => Disjoint(InSlot(i), InSlot(j))
WalkOnce ==
    Distinct(todo) /\ Distinct(delivered) /\ Disjoint(Elements(todo), Elements(delivered))

\* It is in one kind of place only, and a queued one was not passed.
Apart ==
    /\ \A k \in DOMAIN list : \A i \in Slots : Disjoint(Queued(k), InSlot(i))
    /\ \A k \in DOMAIN list :
          Disjoint(Queued(k), Elements(todo) \cup Elements(delivered) \cup passed)
    /\ \A i \in Slots : Disjoint(InSlot(i), Elements(todo) \cup Elements(delivered))

\* Unused records are nowhere.
UnusedNowhere ==
    /\ \A k \in DOMAIN list : Disjoint(Queued(k), Unused)
    /\ \A i \in Slots : Disjoint(InSlot(i), Unused)
    /\ Disjoint(Elements(todo) \cup Elements(delivered) \cup passed, Unused)

Once == QueuesOnce /\ SlotsOnce /\ WalkOnce /\ Apart /\ UnusedNowhere

-----------------------------------------------------------------------------
(* Sequences of records. *)

\* A sequence with a record appended.
LEMMA AppendElements ==
    ASSUME NEW s \in Seq(Records), NEW r \in Records
    PROVE  /\ Elements(Append(s, r)) = Elements(s) \cup {r}
           /\ Distinct(s) /\ r \notin Elements(s) => Distinct(Append(s, r))
<1>1. /\ DOMAIN s = 1 .. Len(s) /\ Len(s) \in Nat
      /\ DOMAIN Append(s, r) = 1 .. Len(s) + 1
      /\ Append(s, r)[Len(s) + 1] = r
      /\ \A k \in 1 .. Len(s) : Append(s, r)[k] = s[k]
  OBVIOUS
<1> DEFINE t == Append(s, r)
<1> HIDE DEF t
<1>2. /\ DOMAIN t = 1 .. Len(s) + 1 /\ t[Len(s) + 1] = r
      /\ \A k \in 1 .. Len(s) : t[k] = s[k]
  BY <1>1 DEF t
<1>3. \A k \in DOMAIN t : k \in DOMAIN s \/ k = Len(s) + 1
  BY <1>1, <1>2
<1>4. Elements(t) = Elements(s) \cup {r}
  <2>1. ASSUME NEW x \in Elements(t) PROVE x \in Elements(s) \cup {r}
    BY <1>1, <1>2, <1>3, <2>1 DEF Elements
  <2>2. ASSUME NEW x \in Elements(s) PROVE x \in Elements(t)
    BY <1>1, <1>2, <2>2 DEF Elements
  <2>3. r \in Elements(t)
    BY <1>1, <1>2 DEF Elements
  <2> QED
    BY <2>1, <2>2, <2>3
<1>5. ASSUME Distinct(s), r \notin Elements(s) PROVE Distinct(t)
  <2> SUFFICES ASSUME NEW a \in DOMAIN t, NEW b \in DOMAIN t, t[a] = t[b] PROVE a = b
    BY DEF Distinct
  <2>1. \A k \in DOMAIN s : s[k] # r
    BY <1>5 DEF Elements
  <2> QED
    BY <1>1, <1>2, <1>3, <1>5, <2>1 DEF Distinct
<1> QED
  BY <1>4, <1>5 DEF t

\* A sequence without its first record.
LEMMA TailElements ==
    ASSUME NEW s \in Seq(Records), s # <<>>
    PROVE  /\ s[1] \in Records /\ Elements(s) = Elements(Tail(s)) \cup {s[1]}
           /\ Distinct(s) => Distinct(Tail(s)) /\ s[1] \notin Elements(Tail(s))
<1>1. /\ DOMAIN s = 1 .. Len(s) /\ Len(s) \in Nat /\ Len(s) > 0 /\ s[1] \in Records
      /\ DOMAIN Tail(s) = 1 .. Len(s) - 1
      /\ \A k \in 1 .. Len(s) - 1 : Tail(s)[k] = s[k + 1]
  OBVIOUS
<1> DEFINE t == Tail(s)
<1> HIDE DEF t
<1>2. DOMAIN t = 1 .. Len(s) - 1 /\ \A k \in 1 .. Len(s) - 1 : t[k] = s[k + 1]
  BY <1>1 DEF t
<1>3. \A k \in DOMAIN s : k = 1 \/ (k - 1 \in DOMAIN t /\ t[k - 1] = s[k])
  BY <1>1, <1>2
<1>4. \A k \in DOMAIN t : k + 1 \in DOMAIN s /\ k + 1 # 1 /\ t[k] = s[k + 1]
  BY <1>1, <1>2
<1>5. Elements(s) = Elements(t) \cup {s[1]}
  <2>1. ASSUME NEW x \in Elements(s) PROVE x \in Elements(t) \cup {s[1]}
    BY <1>3, <2>1 DEF Elements
  <2>2. ASSUME NEW x \in Elements(t) PROVE x \in Elements(s)
    BY <1>4, <2>2 DEF Elements
  <2>3. s[1] \in Elements(s)
    BY <1>1 DEF Elements
  <2> QED
    BY <2>1, <2>2, <2>3
<1>6. ASSUME Distinct(s) PROVE Distinct(t) /\ s[1] \notin Elements(t)
  <2>1. Distinct(t)
    <3> SUFFICES ASSUME NEW a \in DOMAIN t, NEW b \in DOMAIN t, t[a] = t[b] PROVE a = b
      BY DEF Distinct
    <3>1. a + 1 = b + 1
      BY <1>4, <1>6 DEF Distinct
    <3> QED
      BY <1>1, <1>2, <3>1
  <2>2. \A k \in DOMAIN t : t[k] # s[1]
    BY <1>1, <1>4, <1>6 DEF Distinct
  <2> QED
    BY <2>1, <2>2 DEF Elements
<1> QED
  BY <1>1, <1>5, <1>6 DEF t

-----------------------------------------------------------------------------
(* What the steps do to the places. *)

\* The sequences are sequences of records.
LEMMA PlaceTypes ==
    ASSUME TypeOK
    PROVE  /\ list \in Seq(Queues) /\ \A k \in DOMAIN list : list[k].recs \in Seq(Records)
           /\ recs \in [Slots -> Seq(Records)] /\ todo \in Seq(Records)
           /\ delivered \in Seq(Records) /\ passed \subseteq Records
           /\ adder \in [Records -> Threads \cup {NoThread}]
<1>1. list \in Seq(Queues)
  BY DEF TypeOK, ListTypes
<1>2. \A k \in DOMAIN list : list[k] \in Queues
  BY <1>1
<1>3. \A k \in DOMAIN list : list[k].recs \in Seq(Records)
  BY <1>2 DEF Queues
<1> QED
  BY <1>1, <1>3 DEF TypeOK, SlotTypes, NotifyTypes, HistTypes

\* gckEVENT_AddList puts the record on one queue, which is new or holds it last.
LEMMA AddListEffect ==
    ASSUME TypeOK, NEW t \in Threads, NEW r \in Records, NEW src \in Sources,
           AddList(t, r, src)
    PROVE  \E n \in DOMAIN list' :
              /\ n \in DOMAIN list => list'[n].recs = Append(list[n].recs, r)
              /\ n \notin DOMAIN list => list'[n].recs = <<r>>
              /\ \A k \in DOMAIN list' :
                    k # n => k \in DOMAIN list /\ list'[k].recs = list[k].recs
<1>0. list \in Seq(Queues)
  BY PlaceTypes
<1>1. CASE NeedsNewQueue(src)
  <2>1. list' = Append(list, [source |-> src, recs |-> <<r>>])
    BY <1>1 DEF AddList
  <2>2. /\ Len(list) + 1 \in DOMAIN list' /\ Len(list) + 1 \notin DOMAIN list
        /\ list'[Len(list) + 1].recs = <<r>>
        /\ \A k \in DOMAIN list' :
              k # Len(list) + 1 => k \in DOMAIN list /\ list'[k] = list[k]
    BY <1>0, <2>1
  <2> QED
    BY <2>2
<1>2. CASE ~NeedsNewQueue(src)
  <2>1. list # <<>> /\ list' = [list EXCEPT ![Len(list)].recs = Append(@, r)]
    BY <1>2 DEF AddList, NeedsNewQueue
  <2>2. Len(list) \in DOMAIN list /\ list[Len(list)] \in Queues
    BY <1>0, <2>1
  <2>3. list'[Len(list)].recs = Append(list[Len(list)].recs, r)
    BY <1>0, <2>1, <2>2 DEF Queues
  <2>4. DOMAIN list' = DOMAIN list /\ \A k \in DOMAIN list : k # Len(list) => list'[k] = list[k]
    BY <1>0, <2>1
  <2> QED
    BY <2>2, <2>3, <2>4
<1> QED
  BY <1>1, <1>2

\* A record that was nowhere is on one queue after it is added.
LEMMA AddListOnce ==
    ASSUME TypeOK, Once, NEW t \in Threads, NEW r \in Unused, NEW src \in Sources,
           AddList(t, r, src), UNCHANGED <<recs, todo>>
    PROVE  Once'
<1>0. r \in Records /\ UNCHANGED <<delivered, passed>>
  BY DEF Unused, AddList
<1>1. Unused' = Unused \ {r}
  <2>1. adder' = [adder EXCEPT ![r] = t] /\ adder \in [Records -> Threads \cup {NoThread}]
    BY PlaceTypes DEF AddList
  <2> QED
    BY <1>0, <2>1, NoThreadAssumption DEF Unused
<1>2. PICK n \in DOMAIN list' :
         /\ n \in DOMAIN list => list'[n].recs = Append(list[n].recs, r)
         /\ n \notin DOMAIN list => list'[n].recs = <<r>>
         /\ \A k \in DOMAIN list' :
               k # n => k \in DOMAIN list /\ list'[k].recs = list[k].recs
  BY <1>0, AddListEffect
<1>3. \A k \in DOMAIN list : r \notin Queued(k)
  BY DEF Once, UnusedNowhere, Disjoint
<1>4. /\ Distinct(list'[n].recs)
      /\ n \in DOMAIN list => Queued(n)' = Queued(n) \cup {r}
      /\ n \notin DOMAIN list => Queued(n)' = {r}
  <2>1. CASE n \in DOMAIN list
    <3>1. list[n].recs \in Seq(Records) /\ Distinct(list[n].recs) /\ r \notin Elements(list[n].recs)
      BY <1>3, <2>1, PlaceTypes DEF Once, QueuesOnce, Queued
    <3> QED
      BY <1>0, <1>2, <2>1, <3>1, AppendElements DEF Queued
  <2>2. CASE n \notin DOMAIN list
    <3>1. list'[n].recs = <<r>>
      BY <1>2, <2>2
    <3>2. DOMAIN <<r>> = {1} /\ <<r>>[1] = r
      OBVIOUS
    <3>3. Distinct(<<r>>) /\ Elements(<<r>>) = {r}
      BY <3>2 DEF Distinct, Elements
    <3> QED
      BY <2>2, <3>1, <3>3 DEF Queued
  <2> QED
    BY <2>1, <2>2
<1>5. \A k \in DOMAIN list' : k # n => k \in DOMAIN list /\ Queued(k)' = Queued(k)
  BY <1>2 DEF Queued
<1>6. \A k \in DOMAIN list' : \A S :
         (k \in DOMAIN list => Disjoint(Queued(k), S)) /\ r \notin S => Disjoint(Queued(k)', S)
  BY <1>4, <1>5 DEF Disjoint
<1>7. QueuesOnce'
  <2>1. \A k \in DOMAIN list' : Distinct(list'[k].recs)
    BY <1>2, <1>4 DEF Once, QueuesOnce
  <2>2. \A k, l \in DOMAIN list' : k # l => Disjoint(Queued(k)', Queued(l)')
    BY <1>3, <1>4, <1>5 DEF Once, QueuesOnce, Disjoint
  <2> QED
    BY <2>1, <2>2 DEF QueuesOnce
<1>8. SlotsOnce' /\ WalkOnce'
  BY <1>0 DEF Once, SlotsOnce, WalkOnce, InSlot
<1>9. \A i \in Slots : InSlot(i)' = InSlot(i)
  BY DEF InSlot
<1>10. Apart'
  <2>1. \A i \in Slots : r \notin InSlot(i)
    BY DEF Once, UnusedNowhere, Disjoint
  <2>2. r \notin Elements(todo) \cup Elements(delivered) \cup passed
    BY DEF Once, UnusedNowhere, Disjoint
  <2>3. \A k \in DOMAIN list' : \A i \in Slots : Disjoint(Queued(k)', InSlot(i))
    BY <1>6, <2>1 DEF Once, Apart
  <2>4. \A k \in DOMAIN list' :
           Disjoint(Queued(k)', Elements(todo) \cup Elements(delivered) \cup passed)
    BY <1>6, <2>2 DEF Once, Apart
  <2> QED
    BY <1>0, <1>9, <2>3, <2>4 DEF Once, Apart
<1>11. UnusedNowhere'
  <2>1. \A k \in DOMAIN list' : Disjoint(Queued(k)', Unused')
    BY <1>1, <1>6 DEF Once, UnusedNowhere, Disjoint
  <2> QED
    BY <1>0, <1>1, <1>9, <2>1 DEF Once, UnusedNowhere, Disjoint
<1> QED
  BY <1>7, <1>8, <1>10, <1>11 DEF Once

\* The first queue of the list becomes the content of an empty slot.
LEMMA MoveQueueEffect ==
    ASSUME IInv, Places, NEW t \in Threads, MoveQueue(t)
    PROVE  /\ id[t] \in Slots /\ recs[id[t]] = <<>> /\ 1 \in DOMAIN list
           /\ recs'[id[t]] = list[1].recs
           /\ \A j \in Slots : j # id[t] => recs'[j] = recs[j]
           /\ \A k \in DOMAIN list' : k + 1 \in DOMAIN list /\ k + 1 # 1 /\ list'[k] = list[k + 1]
           /\ UNCHANGED <<todo, delivered, passed, adder>>
<1> DEFINE i == id[t]
<1>1. list # <<>> /\ list \in Seq(Queues) /\ recs \in [Slots -> Seq(Records)]
  BY PlaceTypes DEF MoveQueue, IInv, Locks
<1>2. i \in Slots /\ recs[i] = <<>>
  <2>1. i \in Slots /\ Submitting(t, i) /\ pc[t] = "move"
    BY DEF MoveQueue, IInv, TypeOK, ThreadTypes, Submitting
  <2>2. head[i] = "invalid"
    BY <2>1 DEF IInv, SlotState
  <2> QED
    BY <2>1, <2>2 DEF Places
<1>3. /\ recs' = [recs EXCEPT ![i] = list[1].recs] /\ list' = Tail(list)
      /\ UNCHANGED <<todo, delivered, passed, adder>>
  BY DEF MoveQueue, notifyVars, histVars
<1> HIDE DEF i
<1>4. recs'[i] = list[1].recs /\ \A j \in Slots : j # i => recs'[j] = recs[j]
  BY <1>1, <1>2, <1>3
<1>5. /\ 1 \in DOMAIN list
      /\ \A k \in DOMAIN list' : k + 1 \in DOMAIN list /\ k + 1 # 1 /\ list'[k] = list[k + 1]
  BY <1>1, <1>3
<1> QED
  BY <1>2, <1>3, <1>4, <1>5 DEF i

LEMMA MoveQueueOnce ==
    ASSUME IInv, Places, Once, NEW t \in Threads, MoveQueue(t)
    PROVE  Once'
<1>1. PICK i \in Slots :
      /\ recs[i] = <<>> /\ 1 \in DOMAIN list
      /\ recs'[i] = list[1].recs
      /\ \A j \in Slots : j # i => recs'[j] = recs[j]
      /\ \A k \in DOMAIN list' : k + 1 \in DOMAIN list /\ k + 1 # 1 /\ list'[k] = list[k + 1]
      /\ UNCHANGED <<todo, delivered, passed, adder>>
  BY MoveQueueEffect
<1>2. list \in Seq(Queues) /\ DOMAIN list \subseteq Int
  BY PlaceTypes DEF IInv
<1>3. InSlot(i)' = Queued(1) /\ \A j \in Slots : j # i => InSlot(j)' = InSlot(j)
  BY <1>1 DEF InSlot, Queued
<1>4. \A k \in DOMAIN list' : Queued(k)' = Queued(k + 1)
  BY <1>1 DEF Queued
<1>5. Unused' = Unused
  BY <1>1 DEF Unused
<1>6. QueuesOnce'
  <2>1. \A k \in DOMAIN list' : Distinct(list'[k].recs)
    BY <1>1 DEF Once, QueuesOnce
  <2>2. ASSUME NEW k \in DOMAIN list', NEW l \in DOMAIN list', k # l
        PROVE  Disjoint(Queued(k)', Queued(l)')
    <3>1. k + 1 \in DOMAIN list /\ l + 1 \in DOMAIN list
      BY <1>1
    <3>2. k + 1 # l + 1
      <4>1. list' = Tail(list) /\ list # <<>>
        BY DEF MoveQueue, IInv, Locks
      <4>2. k \in Int /\ l \in Int
        BY <1>2, <4>1
      <4> QED
        BY <2>2, <4>2
    <3> QED
      BY <1>4, <3>1, <3>2 DEF Once, QueuesOnce
  <2> QED
    BY <2>1, <2>2 DEF QueuesOnce
<1>7. SlotsOnce'
  <2>1. \A j \in Slots : Distinct(recs'[j])
    BY <1>1 DEF Once, SlotsOnce, QueuesOnce
  <2>2. ASSUME NEW j \in Slots, NEW l \in Slots, j # l
        PROVE  Disjoint(InSlot(j)', InSlot(l)')
    BY <1>1, <1>3, <2>2 DEF Once, SlotsOnce, Apart, Disjoint
  <2> QED
    BY <2>1, <2>2 DEF SlotsOnce
<1>8. WalkOnce'
  BY <1>1 DEF Once, WalkOnce
<1>9. Apart'
  <2>1. \A k \in DOMAIN list' : \A j \in Slots : Disjoint(Queued(k)', InSlot(j)')
    <3>1. \A k \in DOMAIN list' : Disjoint(Queued(k + 1), Queued(1))
      BY <1>1 DEF Once, QueuesOnce
    <3>2. \A k \in DOMAIN list' : \A j \in Slots : Disjoint(Queued(k + 1), InSlot(j))
      BY <1>1 DEF Once, Apart
    <3> QED
      BY <1>3, <1>4, <3>1, <3>2
  <2>2. \A k \in DOMAIN list' :
           Disjoint(Queued(k)', Elements(todo) \cup Elements(delivered) \cup passed)
    BY <1>1, <1>4 DEF Once, Apart
  <2>3. \A j \in Slots : Disjoint(InSlot(j)', Elements(todo) \cup Elements(delivered))
    BY <1>1, <1>3 DEF Once, Apart, Disjoint
  <2> QED
    BY <1>1, <2>1, <2>2, <2>3 DEF Apart
<1>10. UnusedNowhere'
  <2>1. \A k \in DOMAIN list' : Disjoint(Queued(k)', Unused)
    BY <1>1, <1>4 DEF Once, UnusedNowhere
  <2>2. \A j \in Slots : Disjoint(InSlot(j)', Unused)
    BY <1>1, <1>3 DEF Once, UnusedNowhere
  <2> QED
    BY <1>1, <1>5, <2>1, <2>2 DEF Once, UnusedNowhere
<1> QED
  BY <1>6, <1>7, <1>8, <1>9, <1>10 DEF Once

\* The records of a slot become those gckEVENT_Notify walks.
LEMMA NotifyClaimOnce ==
    ASSUME IInv, Places, Once, NotifyClaim
    PROVE  Once' /\ cur \in Slots
           /\ \A j \in Slots : InSlot(j)' = IF j = cur THEN {} ELSE InSlot(j)
<1>0. recs \in [Slots -> Seq(Records)] /\ cur \in Slots
  BY PlaceTypes DEF IInv, TypeOK, NotifyTypes
<1>1. /\ todo = <<>> /\ todo' = recs[cur] /\ recs' = [recs EXCEPT ![cur] = <<>>]
      /\ UNCHANGED <<list, delivered, passed, adder>>
  BY DEF NotifyClaim, Places, listVars, histVars
<1>2. recs'[cur] = <<>> /\ \A j \in Slots : j # cur => recs'[j] = recs[j]
  BY <1>0, <1>1
<1>3. Elements(<<>>) = {} /\ Distinct(<<>>)
  BY DEF Elements, Distinct
<1>4. \A j \in Slots : InSlot(j)' = IF j = cur THEN {} ELSE InSlot(j)
  BY <1>0, <1>2, <1>3 DEF InSlot
<1>5. Elements(todo') = InSlot(cur)
  BY <1>1 DEF InSlot
<1>6. \A k \in DOMAIN list : Queued(k)' = Queued(k)
  BY <1>1 DEF Queued
<1>7. QueuesOnce'
  BY <1>1 DEF Once, QueuesOnce, Queued
<1>8. SlotsOnce'
  <2>1. \A j \in Slots : Distinct(recs'[j])
    BY <1>2, <1>3 DEF Once, SlotsOnce
  <2>2. \A j, l \in Slots : j # l => Disjoint(InSlot(j)', InSlot(l)')
    BY <1>4 DEF Once, SlotsOnce, Disjoint
  <2> QED
    BY <2>1, <2>2 DEF SlotsOnce
<1>9. WalkOnce'
  BY <1>0, <1>1, <1>5 DEF Once, WalkOnce, SlotsOnce, Apart, Disjoint
<1>10. Apart'
  <2>1. \A k \in DOMAIN list : \A j \in Slots : Disjoint(Queued(k), InSlot(j)')
    BY <1>4 DEF Once, Apart, Disjoint
  <2>2. \A k \in DOMAIN list :
           Disjoint(Queued(k), Elements(todo') \cup Elements(delivered) \cup passed)
    BY <1>0, <1>5 DEF Once, Apart, Disjoint
  <2>3. \A j \in Slots : Disjoint(InSlot(j)', Elements(todo') \cup Elements(delivered))
    BY <1>0, <1>4, <1>5 DEF Once, Apart, SlotsOnce, Disjoint
  <2> QED
    BY <1>1, <1>6, <2>1, <2>2, <2>3 DEF Apart
<1>11. UnusedNowhere'
  <2>1. Unused' = Unused
    BY <1>1 DEF Unused
  <2>2. \A j \in Slots : Disjoint(InSlot(j)', Unused)
    BY <1>4 DEF Once, UnusedNowhere, Disjoint
  <2>3. Disjoint(Elements(todo') \cup Elements(delivered) \cup passed, Unused)
    BY <1>0, <1>5 DEF Once, UnusedNowhere, Disjoint
  <2> QED
    BY <1>1, <1>6, <2>1, <2>2, <2>3 DEF Once, UnusedNowhere
<1> QED
  BY <1>0, <1>4, <1>7, <1>8, <1>9, <1>10, <1>11 DEF Once

\* gckEVENT_Notify performs the first record of its walk.
LEMMA NotifyRecordOnce ==
    ASSUME TypeOK, Once, NotifyRecord
    PROVE  /\ Once' /\ todo[1] \in Records /\ todo[1] \in Elements(todo)
           /\ todo[1] \notin Elements(delivered)
           /\ Elements(delivered') = Elements(delivered) \cup {todo[1]}
<1>1. /\ todo # <<>> /\ todo \in Seq(Records) /\ todo' = Tail(todo)
      /\ delivered \in Seq(Records) /\ delivered' = Append(delivered, todo[1])
      /\ UNCHANGED <<list, recs, passed, adder>>
  BY PlaceTypes DEF NotifyRecord, listVars, slotVars
<1>2. PICK r \in Records : r = todo[1]
  BY <1>1, TailElements
<1>3. /\ Elements(todo) = Elements(todo') \cup {r}
      /\ Distinct(todo) => Distinct(todo') /\ r \notin Elements(todo')
  BY <1>1, <1>2, TailElements
<1>4. r \notin Elements(delivered)
  BY <1>3 DEF Once, WalkOnce, Disjoint
<1>5. /\ Elements(delivered') = Elements(delivered) \cup {r}
      /\ Distinct(delivered) => Distinct(delivered')
  BY <1>1, <1>2, <1>4, AppendElements
<1>6. Elements(todo') \cup Elements(delivered') = Elements(todo) \cup Elements(delivered)
  BY <1>3, <1>5
<1>7. WalkOnce'
  BY <1>3, <1>5 DEF Once, WalkOnce, Disjoint
<1>8. QueuesOnce' /\ SlotsOnce'
  BY <1>1 DEF Once, QueuesOnce, SlotsOnce, Queued, InSlot
<1>9. Apart' /\ UnusedNowhere'
  <2>1. Unused' = Unused
    BY <1>1 DEF Unused
  <2> QED
    BY <1>1, <1>6, <2>1 DEF Once, Apart, UnusedNowhere, Queued, InSlot
<1> QED
  BY <1>2, <1>3, <1>4, <1>5, <1>7, <1>8, <1>9 DEF Once

\* The GPU passes the records of a slot, which are not queued.
LEMMA RaiseOnce ==
    ASSUME Once, NEW i \in Slots, Raise(i), UNCHANGED <<list, recs, todo>>
    PROVE  Once'
<1>1. passed' = passed \cup InSlot(i) /\ UNCHANGED <<adder, delivered>>
  BY DEF Raise, InSlot
<1>2. QueuesOnce' /\ SlotsOnce' /\ WalkOnce'
  BY <1>1 DEF Once, QueuesOnce, SlotsOnce, WalkOnce, Queued, InSlot
<1>3. /\ \A k \in DOMAIN list : Queued(k)' = Queued(k)
      /\ \A j \in Slots : InSlot(j)' = InSlot(j)
      /\ Unused' = Unused
  BY <1>1 DEF Queued, InSlot, Unused
<1>4. Apart'
  <2>1. \A k \in DOMAIN list :
           Disjoint(Queued(k), Elements(todo) \cup Elements(delivered) \cup passed')
    BY <1>1 DEF Once, Apart, Disjoint
  <2> QED
    BY <1>1, <1>3, <2>1 DEF Once, Apart
<1>5. UnusedNowhere'
  <2>1. Disjoint(Elements(todo) \cup Elements(delivered) \cup passed', Unused)
    BY <1>1 DEF Once, UnusedNowhere, Disjoint
  <2> QED
    BY <1>1, <1>3, <2>1 DEF Once, UnusedNowhere
<1> QED
  BY <1>2, <1>4, <1>5 DEF Once

\* The steps that move no record.
OtherSteps ==
    \/ \E t \in Threads :
          \/ StartCommit(t) \/ EndRecords(t) \/ SubmitCheck(t) \/ EnterCommit(t)
          \/ SubmitNext(t) \/ LockList(t) \/ ExitCommit(t) \/ GetEvent(t) \/ Reserve(t)
          \/ CountInterrupt(t) \/ Execute(t)
    \/ BusError \/ Interrupt
    \/ \E i \in Slots : FrontEndEvent(i) /\ UNCHANGED histVars
    \/ NotifyWake \/ NotifyRead \/ NotifyPick \/ NotifyScan \/ NotifyDone
    \/ UNCHANGED vars

LEMMA OtherStepsEffect ==
    ASSUME OtherSteps
    PROVE  UNCHANGED <<list, recs, todo, adder, added, delivered, passed>>
<1>1. ASSUME NEW t \in Threads,
             \/ StartCommit(t) \/ EndRecords(t) \/ SubmitCheck(t) \/ EnterCommit(t)
             \/ SubmitNext(t) \/ LockList(t) \/ ExitCommit(t) \/ GetEvent(t) \/ Reserve(t)
             \/ CountInterrupt(t) \/ Execute(t)
      PROVE  UNCHANGED <<list, recs, todo, adder, added, delivered, passed>>
  BY <1>1 DEF StartCommit, EndRecords, SubmitCheck, EnterCommit, SubmitNext, LockList,
     ExitCommit, GetEvent, Reserve, CountInterrupt, Execute, listVars, slotVars, notifyVars,
     histVars
<1>2. ASSUME NEW i \in Slots, FrontEndEvent(i), UNCHANGED histVars
      PROVE  UNCHANGED <<list, recs, todo, adder, added, delivered, passed>>
  BY <1>2 DEF FrontEndEvent, listVars, slotVars, notifyVars, histVars
<1>3. ASSUME \/ BusError \/ Interrupt \/ UNCHANGED vars
             \/ NotifyWake \/ NotifyRead \/ NotifyPick \/ NotifyScan \/ NotifyDone
      PROVE  UNCHANGED <<list, recs, todo, adder, added, delivered, passed>>
  BY <1>3 DEF BusError, Interrupt, NotifyWake, NotifyRead, NotifyPick, NotifyScan, NotifyDone,
     vars, listVars, slotVars, notifyVars, histVars
<1> QED
  BY <1>1, <1>2, <1>3 DEF OtherSteps

\* The steps that move records, and what they do to the other places.
MovingSteps ==
    \/ \E t \in Threads : \E r \in Unused : \E src \in Sources :
          AddList(t, r, src) /\ UNCHANGED <<recs, todo>>
    \/ \E t \in Threads : MoveQueue(t)
    \/ \E i \in Slots : Raise(i) /\ UNCHANGED <<list, recs, todo>>
    \/ NotifyClaim
    \/ NotifyRecord

\* Every step is of one of the two kinds.
LEMMA StepKinds == [Next]_vars => MovingSteps \/ OtherSteps
<1>1. ASSUME NEW t \in Threads, CommitRecord(t) \/ ForceRecord(t) \/ ReserveNewQueue(t)
      PROVE  MovingSteps
  <2>1. PICK r \in Unused, src \in Sources : AddList(t, r, src)
    BY <1>1 DEF CommitRecord, ForceRecord, ReserveNewQueue, Sources
  <2>2. UNCHANGED <<recs, todo>>
    BY <1>1 DEF CommitRecord, ForceRecord, ReserveNewQueue, slotVars, notifyVars
  <2> QED
    BY <2>1, <2>2 DEF MovingSteps
<1>2. ASSUME NEW t \in Threads, Commit(t) \/ Submit(t) PROVE MovingSteps \/ OtherSteps
  BY <1>1, <1>2 DEF Commit, Submit, MovingSteps, OtherSteps
<1>3. ASSUME GPU PROVE MovingSteps \/ OtherSteps
  <2>1. PICK i \in Slots : FrontEndEvent(i) \/ PixelEvent(i)
    BY <1>3 DEF GPU
  <2>2. UNCHANGED <<list, recs, todo>>
    BY <2>1 DEF FrontEndEvent, PixelEvent, listVars, slotVars, notifyVars
  <2>3. Raise(i) \/ (FrontEndEvent(i) /\ UNCHANGED histVars)
    BY <2>1 DEF FrontEndEvent, PixelEvent
  <2> QED
    BY <2>2, <2>3 DEF MovingSteps, OtherSteps
<1>4. ASSUME BusError \/ Interrupt \/ Notify \/ UNCHANGED vars PROVE MovingSteps \/ OtherSteps
  BY <1>4 DEF Notify, MovingSteps, OtherSteps
<1> QED
  BY <1>2, <1>3, <1>4 DEF Next

\* No record is ever in two places.
LEMMA OnceAlways == Spec => []Once
<1>1. Init => Once
  <2> SUFFICES ASSUME Init PROVE Once
    OBVIOUS
  <2>1. Elements(<<>>) = {} /\ Distinct(<<>>) /\ DOMAIN <<>> = {}
    BY DEF Elements, Distinct
  <2>2. \A i \in Slots : recs[i] = <<>>
    BY DEF Init
  <2>3. list = <<>> /\ todo = <<>> /\ delivered = <<>> /\ passed = {}
    BY DEF Init
  <2>4. QueuesOnce /\ SlotsOnce /\ WalkOnce
    BY <2>1, <2>2, <2>3 DEF QueuesOnce, SlotsOnce, WalkOnce, InSlot, Disjoint
  <2>5. Apart /\ UnusedNowhere
    BY <2>1, <2>2, <2>3 DEF Apart, UnusedNowhere, InSlot, Disjoint
  <2> QED
    BY <2>4, <2>5 DEF Once
<1>2. ASSUME IInv, Places, Once, [Next]_vars PROVE Once'
  <2> TypeOK
    BY <1>2 DEF IInv
  <2>1. CASE MovingSteps
    BY <1>2, <2>1, AddListOnce, MoveQueueOnce, RaiseOnce, NotifyClaimOnce, NotifyRecordOnce
       DEF MovingSteps
  <2>2. CASE OtherSteps
    <3>1. UNCHANGED <<list, recs, todo, adder, added, delivered, passed>>
      BY <2>2, OtherStepsEffect
    <3> QED
      BY <1>2, <3>1 DEF Once, QueuesOnce, SlotsOnce, WalkOnce, Apart, UnusedNowhere, Queued,
         InSlot, Unused
  <2> QED
    BY <1>2, <2>1, <2>2, StepKinds
<1>3. IInv /\ Places /\ Once /\ [Next]_vars => Once'
  BY <1>2
<1> QED
  BY <1>1, <1>3, IInvAlways, PlacesAlways, PTL DEF Spec

-----------------------------------------------------------------------------
(* The refinement: a moving step changes the phase of the records it moves. *)

\* Records that go from one phase to the next, and others that stay.
LEMMA PhaseStep ==
    ASSUME NEW S \in SUBSET Records, S # {}, NEW from, NEW to,
           \A q \in S : Phase(q) = from /\ Phase(q)' = to,
           \A q \in Records \ S : Phase(q)' = Phase(q)
    PROVE  Delivery!Advance(S, from, to)
<1>1. \A q \in S : [x \in Records |-> Phase(x)][q] = from
  OBVIOUS
<1>2. [x \in Records |-> Phase(x)']
        = [x \in Records |-> IF x \in S THEN to ELSE [y \in Records |-> Phase(y)][x]]
  OBVIOUS
<1> QED
  BY <1>1, <1>2 DEF Delivery!Advance

\* Phases that stay as they are.
LEMMA PhaseStutter ==
    ASSUME \A q \in Records : Phase(q)' = Phase(q), UNCHANGED delivered
    PROVE  UNCHANGED Delivery!vars
BY DEF Delivery!vars

\* gckEVENT_AddList implements Add.
LEMMA AddListImplements ==
    ASSUME TypeOK, Once, NEW t \in Threads, NEW r \in Unused, NEW src \in Sources,
           AddList(t, r, src), UNCHANGED <<recs, todo>>
    PROVE  Delivery!Add
<1>1. r \in Records /\ UNCHANGED <<delivered, passed, recs>>
  BY DEF Unused, AddList
<1>2. Unused' = Unused \ {r}
  <2>1. adder' = [adder EXCEPT ![r] = t] /\ adder \in [Records -> Threads \cup {NoThread}]
    BY PlaceTypes DEF AddList
  <2> QED
    BY <1>1, <2>1, NoThreadAssumption DEF Unused
<1>3. r \notin Elements(delivered) \cup passed /\ \A i \in Slots : r \notin Elements(recs[i])
  BY DEF Once, UnusedNowhere, Disjoint, InSlot
<1>4. Phase(r) = "new" /\ Phase(r)' = "queued"
  BY <1>1, <1>2, <1>3 DEF Phase
<1>5. \A q \in Records : q # r => Phase(q)' = Phase(q)
  BY <1>1, <1>2 DEF Phase
<1>6. Delivery!Advance({r}, "new", "queued")
  <2>1. {r} \in SUBSET Records /\ {r} # {}
    BY <1>1
  <2>2. \A q \in {r} : Phase(q) = "new" /\ Phase(q)' = "queued"
    BY <1>4
  <2>3. \A q \in Records \ {r} : Phase(q)' = Phase(q)
    BY <1>5
  <2> QED
    BY <2>1, <2>2, <2>3, PhaseStep
<1> QED
  BY <1>1, <1>6 DEF Delivery!Add

\* Moving a queue to a slot implements SubmitBatch.
LEMMA MoveQueueImplements ==
    ASSUME IInv, Places, Once, NEW t \in Threads, MoveQueue(t)
    PROVE  Delivery!SubmitBatch \/ UNCHANGED Delivery!vars
<1>1. PICK i \in Slots :
      /\ recs[i] = <<>> /\ 1 \in DOMAIN list
      /\ recs'[i] = list[1].recs
      /\ \A j \in Slots : j # i => recs'[j] = recs[j]
      /\ UNCHANGED <<todo, delivered, passed, adder>>
  BY MoveQueueEffect
<1>2. Unused' = Unused /\ Elements(<<>>) = {}
  BY <1>1 DEF Unused, Elements
<1> DEFINE S == Elements(list[1].recs)
<1>3. S \in SUBSET Records
  BY <1>1, ListedRecords DEF IInv, TypeOK
<1>4. /\ S = Queued(1) /\ Elements(recs[i]) = {} /\ Elements(recs'[i]) = S
      /\ \A j \in Slots : j # i => Elements(recs'[j]) = Elements(recs[j])
  BY <1>1, <1>2 DEF Queued
<1> HIDE DEF S
<1>5. ASSUME NEW q \in S PROVE Phase(q) = "queued" /\ Phase(q)' = "submitted"
  <2>1. /\ q \in Records /\ q \notin Elements(delivered) \cup passed /\ q \notin Unused
        /\ \A j \in Slots : q \notin Elements(recs[j])
    BY <1>1, <1>3, <1>4 DEF Once, Apart, UnusedNowhere, Disjoint, InSlot
  <2>2. q \in Elements(recs'[i])
    BY <1>4
  <2> QED
    BY <1>1, <2>1, <2>2 DEF Phase
<1>6. ASSUME NEW q \in Records \ S PROVE Phase(q)' = Phase(q)
  BY <1>1, <1>2, <1>4 DEF Phase
<1>7. CASE S = {}
  BY <1>1, <1>6, <1>7, PhaseStutter
<1>8. CASE S # {}
  <2>1. Delivery!Advance(S, "queued", "submitted")
    BY <1>3, <1>5, <1>6, <1>8, PhaseStep
  <2> QED
    BY <1>1, <1>3, <2>1 DEF Delivery!SubmitBatch
<1> QED
  BY <1>7, <1>8

\* The end of an EVENT command implements Pass.
LEMMA RaiseImplements ==
    ASSUME TypeOK, Once, NEW i \in Slots, Raise(i), UNCHANGED <<list, recs, todo>>
    PROVE  Delivery!Pass \/ UNCHANGED Delivery!vars
<1>1. passed' = passed \cup Elements(recs[i]) /\ UNCHANGED <<adder, delivered, recs>>
  BY DEF Raise
<1>2. Unused' = Unused
  BY <1>1 DEF Unused
<1> DEFINE S == Elements(recs[i]) \ passed
<1>3. S \in SUBSET Records
  <2>1. recs[i] \in Seq(Records)
    BY PlaceTypes
  <2> QED
    BY <2>1 DEF Elements
<1>4. \A q \in S : q \in Elements(recs[i]) /\ q \notin passed
  OBVIOUS
<1>5. passed' = passed \cup S
  BY <1>1
<1> HIDE DEF S
<1>6. ASSUME NEW q \in S PROVE Phase(q) = "submitted" /\ Phase(q)' = "passed"
  <2>1. q \notin Elements(delivered)
    BY <1>4 DEF Once, Apart, Disjoint, InSlot
  <2> QED
    BY <1>1, <1>4, <1>5, <2>1 DEF Phase
<1>7. ASSUME NEW q \in Records \ S PROVE Phase(q)' = Phase(q)
  BY <1>1, <1>2, <1>5 DEF Phase
<1>8. CASE S = {}
  BY <1>1, <1>7, <1>8, PhaseStutter
<1>9. CASE S # {}
  <2>1. Delivery!Advance(S, "submitted", "passed")
    BY <1>3, <1>6, <1>7, <1>9, PhaseStep
  <2> QED
    BY <1>1, <1>3, <2>1 DEF Delivery!Pass
<1> QED
  BY <1>8, <1>9

\* The slot gckEVENT_Notify empties was passed: no phase changes.
LEMMA NotifyClaimImplements ==
    ASSUME IInv, Places, Once, NotifyClaim
    PROVE  UNCHANGED Delivery!vars
<1>1. /\ cur \in Slots
      /\ \A j \in Slots : InSlot(j)' = IF j = cur THEN {} ELSE InSlot(j)
  BY NotifyClaimOnce
<1>2. InSlot(cur) \subseteq passed
  <2>1. npc = "scan"
    BY DEF NotifyClaim
  <2>2. Executed(cur)
    BY <2>1 DEF IInv, NotifyState
  <2>3. AllPassed(recs[cur])
    BY <1>1, <2>2 DEF IInv, PassedRecords
  <2> QED
    BY <2>3 DEF AllPassed, InSlot, Elements
<1>3. UNCHANGED <<delivered, passed, adder>>
  BY DEF NotifyClaim, histVars
<1>4. Unused' = Unused
  BY <1>3 DEF Unused
<1>5. ASSUME NEW q \in Records PROVE Phase(q)' = Phase(q)
  <2>1. CASE q \in passed
    BY <1>3, <2>1 DEF Phase
  <2>2. CASE q \notin passed
    <3>1. \A j \in Slots : q \in Elements(recs'[j]) <=> q \in Elements(recs[j])
      BY <1>1, <1>2, <2>2 DEF InSlot
    <3> QED
      BY <1>3, <1>4, <3>1 DEF Phase
  <2> QED
    BY <2>1, <2>2
<1> QED
  BY <1>3, <1>5, PhaseStutter

\* One record performed implements Perform.
LEMMA NotifyRecordImplements ==
    ASSUME IInv, Once, NotifyRecord
    PROVE  Delivery!Perform
<1>1. /\ todo[1] \in Records /\ todo[1] \in Elements(todo) /\ todo[1] \notin Elements(delivered)
      /\ Elements(delivered') = Elements(delivered) \cup {todo[1]}
  BY NotifyRecordOnce DEF IInv
<1>2. UNCHANGED <<recs, passed, adder>> /\ delivered' = Append(delivered, todo[1])
  BY DEF NotifyRecord, slotVars
<1>3. PICK r \in Records : r = todo[1]
  BY <1>1
<1>4. r \in passed
  BY <1>1, <1>3 DEF IInv, PassedRecords, NoEarlyDelivery, AllPassed, Elements
<1>5. Unused' = Unused
  BY <1>2 DEF Unused
<1>6. Phase(r) = "passed" /\ Phase(r)' = "performed"
  BY <1>1, <1>3, <1>4 DEF Phase
<1>7. \A q \in Records : q # r => Phase(q)' = Phase(q)
  BY <1>1, <1>2, <1>3, <1>5 DEF Phase
<1>8. Delivery!Advance({r}, "passed", "performed")
  <2>1. {r} \in SUBSET Records /\ {r} # {}
    OBVIOUS
  <2>2. \A q \in {r} : Phase(q) = "passed" /\ Phase(q)' = "performed"
    BY <1>6
  <2>3. \A q \in Records \ {r} : Phase(q)' = Phase(q)
    BY <1>7
  <2> QED
    BY <2>1, <2>2, <2>3, PhaseStep
<1> QED
  BY <1>2, <1>3, <1>8 DEF Delivery!Perform

\* Every record added is submitted once, in one batch, passed by the GPU and then
\* performed once, in this order, whatever the threads do and whatever interrupts
\* are lost.
THEOREM Implements == Spec => ImplementsDelivery
<1>1. Init => Delivery!Init
  <2> SUFFICES ASSUME Init PROVE Delivery!Init
    OBVIOUS
  <2>1. Elements(<<>>) = {} /\ Unused = Records
    BY DEF Elements, Unused, Init
  <2>2. \A q \in Records : Phase(q) = "new"
    BY <2>1 DEF Init, Phase
  <2>3. [r \in Records |-> Phase(r)] = [r \in Records |-> "new"] /\ delivered = <<>>
    BY <2>2 DEF Init
  <2> QED
    BY <2>3 DEF Delivery!Init
<1>2. ASSUME IInv, Places, Once, [Next]_vars PROVE [Delivery!Next]_(Delivery!vars)
  <2> TypeOK
    BY <1>2 DEF IInv
  <2>1. CASE MovingSteps
    BY <1>2, <2>1, AddListImplements, MoveQueueImplements, RaiseImplements,
       NotifyClaimImplements, NotifyRecordImplements DEF MovingSteps, Delivery!Next
  <2>2. CASE OtherSteps
    <3>1. UNCHANGED <<recs, adder, delivered, passed>>
      BY <2>2, OtherStepsEffect
    <3>2. \A q \in Records : Phase(q)' = Phase(q)
      BY <3>1 DEF Phase, Unused
    <3> QED
      BY <3>1, <3>2, PhaseStutter
  <2> QED
    BY <1>2, <2>1, <2>2, StepKinds
<1>3. IInv /\ Places /\ Once /\ [Next]_vars => [Delivery!Next]_(Delivery!vars)
  BY <1>2
<1> QED
  BY <1>1, <1>3, IInvAlways, PlacesAlways, OnceAlways, PTL
     DEF Spec, ImplementsDelivery, Delivery!Spec

-----------------------------------------------------------------------------
(* The order of the pixel pipe.  A record stays behind those that were      *)
(* added before it, on its way from the list through a slot and a walk.     *)

EarlierIn(s, r, n) == \E m \in DOMAIN s : m < n /\ s[m] = r
Gone(r) == r \in Elements(todo) \cup Elements(delivered)

\* Wherever s is, r is in front of it.
Follows(r, s) ==
    /\ \A n \in DOMAIN delivered : delivered[n] = s => EarlierIn(delivered, r, n)
    /\ \A n \in DOMAIN todo :
          todo[n] = s => r \in Elements(delivered) \/ EarlierIn(todo, r, n)
    /\ \A i \in Slots : \A n \in DOMAIN recs[i] : recs[i][n] = s =>
          \/ Gone(r)
          \/ \E j \in Slots : stampOf[j] < stampOf[i] /\ r \in InSlot(j)
          \/ EarlierIn(recs[i], r, n)
    /\ \A k \in DOMAIN list : \A n \in DOMAIN list[k].recs : list[k].recs[n] = s =>
          \/ Gone(r)
          \/ \E j \in Slots : r \in InSlot(j)
          \/ \E l \in DOMAIN list : l < k /\ r \in Queued(l)
          \/ EarlierIn(list[k].recs, r, n)

InTurn == \A k \in DOMAIN added : \A j \in 1 .. k - 1 : Follows(added[j], added[k])

\* Records of the pixel pipe are in queues and slots of that source.
PixelPlaces ==
    /\ \A k \in DOMAIN added : adder[added[k]] # NoThread
    /\ \A k \in DOMAIN list : list[k].source # gcvKERNEL_PIXEL =>
          \A j \in DOMAIN added : added[j] \notin Queued(k)
    /\ \A i \in Slots : source[i] # gcvKERNEL_PIXEL =>
          \A j \in DOMAIN added : added[j] \notin InSlot(i)
    /\ \A i \in Slots : head[i] = "invalid" => list # <<>> /\ source[i] = list[1].source

\* The slots that gckEVENT_Notify has looked at are not before its own.
Scanned == npc = "scan" => \A i \in Slots : i < scan => ~Before(i, cur)

PixelOrder == InTurn /\ PixelPlaces /\ Scanned

\* Slots are taken by gckEVENT_GetEvent, filled by gckEVENT_Submit and emptied by
\* gckEVENT_Notify.
LEMMA SlotSteps ==
    ASSUME [Next]_vars
    PROVE  \/ UNCHANGED <<head, stampOf, source>>
           \/ \E t \in Threads : GetEvent(t) \/ (MoveQueue(t) /\ UNCHANGED <<stampOf, source>>)
           \/ NotifyClaim /\ UNCHANGED <<stampOf, source>>
<1>1. ASSUME NEW t \in Threads, Commit(t) \/ Submit(t)
      PROVE  \/ UNCHANGED <<head, stampOf, source>> \/ GetEvent(t)
             \/ MoveQueue(t) /\ UNCHANGED <<stampOf, source>>
  BY <1>1 DEF Commit, StartCommit, CommitRecord, EndRecords, ForceRecord, Submit, SubmitCheck,
     EnterCommit, SubmitNext, LockList, MoveQueue, Reserve, ReserveNewQueue, CountInterrupt,
     Execute, ExitCommit, slotVars
<1>2. ASSUME GPU \/ BusError \/ Interrupt \/ UNCHANGED vars
      PROVE  UNCHANGED <<head, stampOf, source>>
  BY <1>2 DEF GPU, FrontEndEvent, PixelEvent, BusError, Interrupt, slotVars, vars
<1>3. ASSUME Notify
      PROVE  \/ UNCHANGED <<head, stampOf, source>>
             \/ NotifyClaim /\ UNCHANGED <<stampOf, source>>
  BY <1>3 DEF Notify, NotifyWake, NotifyRead, NotifyPick, NotifyScan, NotifyClaim, NotifyRecord,
     NotifyDone, slotVars
<1> QED
  BY <1>1, <1>2, <1>3 DEF Next

\* gckEVENT_GetEvent takes an empty slot.
LEMMA GetEventEffect ==
    ASSUME TypeOK, Locks, Places, NEW t \in Threads, GetEvent(t)
    PROVE  \E i \in Slots :
              /\ head[i] = "null" /\ recs[i] = <<>> /\ list # <<>>
              /\ head' = [head EXCEPT ![i] = "invalid"]
              /\ stampOf' = [stampOf EXCEPT ![i] = stamp + 1]
              /\ source' = [source EXCEPT ![i] = list[1].source]
              /\ id'[t] = i /\ \A u \in Threads : u # t => id'[u] = id[u]
              /\ pc[t] = "get" /\ \A u \in Threads : u # t => pc'[u] = pc[u]
              /\ npc # "scan"
              /\ UNCHANGED <<list, recs, todo, delivered, added, adder, npc>>
<1>1. PICK i \in Slots :
        /\ NextFree(i)
        /\ head' = [head EXCEPT ![i] = "invalid"]
        /\ stampOf' = [stampOf EXCEPT ![i] = stamp + 1]
        /\ source' = [source EXCEPT ![i] = list[1].source]
        /\ id' = [id EXCEPT ![t] = i]
  BY DEF GetEvent
<1>2. /\ pc[t] = "get" /\ queueMutex = "free" /\ pc' = [pc EXCEPT ![t] = "move"]
      /\ UNCHANGED <<list, recs, todo, delivered, added, adder, npc>>
  BY DEF GetEvent, listVars, notifyVars, histVars
<1>3. head[i] = "null" /\ recs[i] = <<>> /\ list # <<>> /\ npc # "scan"
  BY <1>1, <1>2 DEF NextFree, Free, Places, Locks
<1>4. id'[t] = i /\ \A u \in Threads : u # t => id'[u] = id[u] /\ pc'[u] = pc[u]
  BY <1>1, <1>2 DEF TypeOK, ThreadTypes
<1> QED
  BY <1>1, <1>2, <1>3, <1>4

\* A slot with records keeps its stamp.
LEMMA FilledStay ==
    ASSUME TypeOK, Locks, Places, [Next]_vars, NEW i \in Slots, recs[i] # <<>>
    PROVE  stampOf'[i] = stampOf[i] /\ source'[i] = source[i]
<1>1. CASE UNCHANGED <<stampOf, source>>
  BY <1>1
<1>2. ASSUME NEW t \in Threads, GetEvent(t) PROVE stampOf'[i] = stampOf[i] /\ source'[i] = source[i]
  <2>1. PICK j \in Slots : /\ recs[j] = <<>> /\ stampOf' = [stampOf EXCEPT ![j] = stamp + 1]
                           /\ source' = [source EXCEPT ![j] = list[1].source]
    BY <1>2, GetEventEffect
  <2> QED
    BY <2>1 DEF TypeOK, SlotTypes
<1> QED
  BY <1>1, <1>2, SlotSteps

\* The order stays when no record moves.
LEMMA FollowsStay ==
    ASSUME NEW r, NEW s, Follows(r, s), UNCHANGED <<list, recs, todo, delivered>>,
           \A i \in Slots : recs[i] # <<>> => stampOf'[i] = stampOf[i]
    PROVE  Follows(r, s)'
<1>1. \A i \in Slots : InSlot(i)' = InSlot(i)
  BY DEF InSlot
<1>2. \A k \in DOMAIN list : Queued(k)' = Queued(k)
  BY DEF Queued
<1>3. \A i \in Slots : \A x : x \in InSlot(i) => stampOf'[i] = stampOf[i]
  BY DEF InSlot, Elements
<1>4. \A i \in Slots : \A n \in DOMAIN recs[i] : stampOf'[i] = stampOf[i]
  OBVIOUS
<1>5. Gone(r)' <=> Gone(r)
  BY DEF Gone
<1> QED
  BY <1>1, <1>2, <1>3, <1>4, <1>5 DEF Follows, EarlierIn

\* Where the records of a sequence are when one is appended.
LEMMA AppendPositions ==
    ASSUME NEW s \in Seq(Records), NEW x \in Records
    PROVE  /\ \A n \in DOMAIN Append(s, x) : n \notin DOMAIN s => Append(s, x)[n] = x
           /\ \A n \in DOMAIN s : n \in DOMAIN Append(s, x) /\ Append(s, x)[n] = s[n]
           /\ \A r, n : EarlierIn(s, r, n) => EarlierIn(Append(s, x), r, n)
           /\ \A r, n : n \in DOMAIN Append(s, x) /\ n \notin DOMAIN s /\ r \in Elements(s)
                 => EarlierIn(Append(s, x), r, n)
<1>1. PICK u : u = Append(s, x)
  OBVIOUS
<1>2. /\ DOMAIN s = 1 .. Len(s) /\ Len(s) \in Nat /\ DOMAIN u = 1 .. Len(s) + 1
      /\ u[Len(s) + 1] = x /\ \A k \in 1 .. Len(s) : u[k] = s[k]
  BY <1>1
<1>3. \A n \in DOMAIN u : n \notin DOMAIN s => n = Len(s) + 1
  BY <1>2
<1>4. \A n \in DOMAIN s : n \in DOMAIN u /\ u[n] = s[n] /\ n < Len(s) + 1
  BY <1>2
<1>5. \A r, n : EarlierIn(s, r, n) => EarlierIn(u, r, n)
  BY <1>4 DEF EarlierIn
<1>6. \A r, n : n \in DOMAIN u /\ n \notin DOMAIN s /\ r \in Elements(s) => EarlierIn(u, r, n)
  BY <1>3, <1>4 DEF EarlierIn, Elements
<1>7. \A n \in DOMAIN u : n \notin DOMAIN s => u[n] = x
  BY <1>2, <1>3
<1> QED
  BY <1>1, <1>4, <1>5, <1>6, <1>7

\* Record x becomes the last of queue q, which is the last one, and of no earlier source.
AtEnd(q, x, src) ==
    /\ q \in DOMAIN list'
    /\ DOMAIN list \subseteq DOMAIN list' /\ DOMAIN list' \subseteq Nat
    /\ \A k \in DOMAIN list' :
          k <= q /\ (k # q => k < q /\ k \in DOMAIN list /\ list'[k] = list[k])
    /\ q \in DOMAIN list =>
          /\ list[q].recs \in Seq(Records) /\ list'[q].recs = Append(list[q].recs, x)
          /\ list'[q].source = list[q].source /\ list[q].source >= src
    /\ q \notin DOMAIN list => list'[q].recs = <<x>> /\ list'[q].source = src

\* gckEVENT_AddList: the queue of the record is the last one, and no later source's.
LEMMA AddListAtEnd ==
    ASSUME TypeOK, NEW t \in Threads, NEW x \in Records, NEW src \in Sources,
           AddList(t, x, src)
    PROVE  \E q \in Nat : AtEnd(q, x, src)
<1>0. list \in Seq(Queues) /\ \A k \in DOMAIN list : list[k].recs \in Seq(Records)
  BY PlaceTypes
<1>1. CASE NeedsNewQueue(src)
  <2>1. list' = Append(list, [source |-> src, recs |-> <<x>>])
    BY <1>1 DEF AddList
  <2>2. PICK y : y = [source |-> src, recs |-> <<x>>]
    OBVIOUS
  <2>3. /\ Len(list) + 1 \in DOMAIN list' /\ Len(list) + 1 \notin DOMAIN list
        /\ list'[Len(list) + 1] = y
        /\ DOMAIN list \subseteq DOMAIN list' /\ DOMAIN list' \subseteq Nat
        /\ \A k \in DOMAIN list' : k <= Len(list) + 1 /\
              (k # Len(list) + 1 => k < Len(list) + 1 /\ k \in DOMAIN list /\ list'[k] = list[k])
    BY <1>0, <2>1, <2>2
  <2>4. y.recs = <<x>> /\ y.source = src
    BY <2>2
  <2> QED
    BY <2>3, <2>4 DEF AtEnd
<1>2. CASE ~NeedsNewQueue(src)
  <2>1. /\ list # <<>> /\ list' = [list EXCEPT ![Len(list)].recs = Append(@, x)]
        /\ ~(list[Len(list)].source < src)
    BY <1>2 DEF AddList, NeedsNewQueue
  <2>2. Len(list) \in DOMAIN list /\ list[Len(list)] \in Queues
    BY <1>0, <2>1
  <2>3. /\ list'[Len(list)].recs = Append(list[Len(list)].recs, x)
        /\ list'[Len(list)].source = list[Len(list)].source
    BY <1>0, <2>1, <2>2 DEF Queues
  <2>4. DOMAIN list' = DOMAIN list /\ \A k \in DOMAIN list : k # Len(list) => list'[k] = list[k]
    BY <1>0, <2>1
  <2>5. /\ DOMAIN list \subseteq Nat
        /\ \A k \in DOMAIN list : k <= Len(list) /\ (k # Len(list) => k < Len(list))
    BY <1>0
  <2>6. list[Len(list)].source >= src
    <3>1. list[Len(list)].source \in Int /\ src \in Int
      BY <2>2 DEF Queues, Sources, gcvKERNEL_COMMAND, gcvKERNEL_PIXEL
    <3> QED
      BY <2>1, <3>1
  <2> QED
    BY <1>0, <2>2, <2>3, <2>4, <2>5, <2>6 DEF AtEnd
<1> QED
  BY <1>1, <1>2

\* A record that is added stands behind all others.
LEMMA FollowsAdded ==
    ASSUME TypeOK, Once, Places, NEW t \in Threads, NEW x \in Unused, NEW src \in Sources,
           AddList(t, x, src), UNCHANGED <<recs, todo>>,
           \A i \in Slots : recs[i] # <<>> => stampOf'[i] = stampOf[i],
           NEW r \in Records, NEW s \in Records, adder[r] # NoThread,
           s = x \/ Follows(r, s)
    PROVE  Follows(r, s)'
<1>1. x \in Records /\ adder[x] = NoThread /\ UNCHANGED delivered
  BY DEF Unused, AddList
<1>0. PICK q \in Nat : AtEnd(q, x, src)
  BY <1>1, AddListAtEnd
<1>2. /\ q \in DOMAIN list' /\ DOMAIN list \subseteq DOMAIN list' /\ DOMAIN list' \subseteq Nat
      /\ \A k \in DOMAIN list' :
            k <= q /\ (k # q => k < q /\ k \in DOMAIN list /\ list'[k] = list[k])
      /\ q \in DOMAIN list =>
            list[q].recs \in Seq(Records) /\ list'[q].recs = Append(list[q].recs, x)
      /\ q \notin DOMAIN list => list'[q].recs = <<x>>
  BY <1>0 DEF AtEnd
<1>3. Gone(r)' <=> Gone(r)
  BY <1>1 DEF Gone
<1>4. \A i \in Slots : InSlot(i)' = InSlot(i)
  BY DEF InSlot
<1>5. ASSUME NEW k \in DOMAIN list PROVE Queued(k) \subseteq Queued(k)'
  <2>1. CASE k = q
    <3>1. list[k].recs \in Seq(Records) /\ list'[k].recs = Append(list[k].recs, x)
      BY <1>2, <2>1
    <3> QED
      BY <1>1, <3>1, AppendElements DEF Queued
  <2>2. CASE k # q
    BY <1>2, <2>2 DEF Queued
  <2> QED
    BY <2>1, <2>2
<1>6. ASSUME s = x
      PROVE  /\ \A n \in DOMAIN delivered : delivered[n] # s
             /\ \A n \in DOMAIN todo : todo[n] # s
             /\ \A i \in Slots : \A n \in DOMAIN recs[i] : recs[i][n] # s
             /\ \A k \in DOMAIN list : \A n \in DOMAIN list[k].recs : list[k].recs[n] # s
  BY <1>1, <1>6 DEF Once, UnusedNowhere, Disjoint, Unused, Queued, InSlot, Elements
<1>7. \/ Gone(r) \/ (\E j \in Slots : r \in InSlot(j))
      \/ \E l \in DOMAIN list : r \in Queued(l)
  BY DEF Places, Listed, HandedOver, Gone, Queued, InSlot
<1>8. ASSUME NEW n \in DOMAIN delivered', delivered'[n] = s PROVE EarlierIn(delivered', r, n)
  BY <1>1, <1>6, <1>8 DEF Follows
<1>9. ASSUME NEW n \in DOMAIN todo', todo'[n] = s
      PROVE  r \in Elements(delivered') \/ EarlierIn(todo', r, n)
  BY <1>1, <1>6, <1>9 DEF Follows
<1>10. ASSUME NEW i \in Slots, NEW n \in DOMAIN recs'[i], recs'[i][n] = s
       PROVE  \/ Gone(r)'
              \/ \E j \in Slots : stampOf'[j] < stampOf'[i] /\ r \in InSlot(j)'
              \/ EarlierIn(recs'[i], r, n)
  <2>1. recs[i][n] = s /\ n \in DOMAIN recs[i] /\ Follows(r, s)
    BY <1>6, <1>10
  <2>2. stampOf'[i] = stampOf[i] /\ \A j \in Slots : r \in InSlot(j) => stampOf'[j] = stampOf[j]
    BY <2>1 DEF InSlot, Elements
  <2> QED
    BY <1>3, <1>4, <2>1, <2>2 DEF Follows
<1>11. ASSUME NEW k \in DOMAIN list', NEW n \in DOMAIN list'[k].recs, list'[k].recs[n] = s
       PROVE  \/ Gone(r)'
              \/ \E j \in Slots : r \in InSlot(j)'
              \/ \E l \in DOMAIN list' : l < k /\ r \in Queued(l)'
              \/ EarlierIn(list'[k].recs, r, n)
  <2>1. CASE k \in DOMAIN list /\ n \in DOMAIN list[k].recs
    <3>1. /\ list[k].recs[n] = s
          /\ EarlierIn(list[k].recs, r, n) => EarlierIn(list'[k].recs, r, n)
      <4>1. CASE k = q
        <5>1. list[k].recs \in Seq(Records) /\ list'[k].recs = Append(list[k].recs, x)
          BY <1>2, <2>1, <4>1
        <5> QED
          BY <1>1, <1>11, <2>1, <5>1, AppendPositions
      <4>2. CASE k # q
        BY <1>2, <1>11, <4>2
      <4> QED
        BY <4>1, <4>2
    <3>2. Follows(r, s)
      BY <1>6, <2>1, <3>1
    <3> QED
      BY <1>2, <1>3, <1>4, <1>5, <2>1, <3>1, <3>2 DEF Follows
  <2>2. CASE ~(k \in DOMAIN list /\ n \in DOMAIN list[k].recs)
    <3>1. k = q
      BY <1>2, <1>11, <2>2
    <3>2. ASSUME NEW l \in DOMAIN list, r \in Queued(l)
          PROVE  \/ \E m \in DOMAIN list' : m < k /\ r \in Queued(m)'
                 \/ EarlierIn(list'[k].recs, r, n)
      <4>1. CASE l = q
        <5>1. /\ list[k].recs \in Seq(Records) /\ list'[k].recs = Append(list[k].recs, x)
              /\ r \in Elements(list[k].recs) /\ n \notin DOMAIN list[k].recs
          BY <1>2, <2>2, <3>1, <3>2, <4>1 DEF Queued
        <5>2. EarlierIn(Append(list[k].recs, x), r, n)
          BY <1>1, <1>11, <5>1, AppendPositions
        <5> QED
          BY <5>1, <5>2
      <4>2. CASE l # q
        BY <1>2, <1>5, <3>1, <3>2, <4>2
      <4> QED
        BY <4>1, <4>2
    <3> QED
      BY <1>3, <1>4, <1>7, <3>2
  <2> QED
    BY <2>1, <2>2
<1> QED
  BY <1>8, <1>9, <1>10, <1>11 DEF Follows

\* The first queue goes to a slot with the latest stamp.
LEMMA FollowsMoved ==
    ASSUME IInv, Places, NEW t \in Threads, MoveQueue(t), NEW r, NEW s, Follows(r, s)
    PROVE  Follows(r, s)'
<1>1. PICK i \in Slots : i = id[t]
  BY DEF IInv, TypeOK, ThreadTypes
<1>2. /\ recs[i] = <<>> /\ 1 \in DOMAIN list
      /\ recs'[i] = list[1].recs
      /\ \A j \in Slots : j # i => recs'[j] = recs[j]
      /\ \A k \in DOMAIN list' : k + 1 \in DOMAIN list /\ k + 1 # 1 /\ list'[k] = list[k + 1]
      /\ UNCHANGED <<todo, delivered, passed, adder>>
  BY <1>1, MoveQueueEffect
<1>3. stampOf' = stampOf /\ list' = Tail(list) /\ list # <<>> /\ list \in Seq(Queues)
  BY PlaceTypes DEF MoveQueue, IInv, Locks
<1>4. DOMAIN list \subseteq Nat /\ \A l \in DOMAIN list : l = 1 \/ l - 1 \in DOMAIN list'
  BY <1>3
<1>5. Gone(r)' <=> Gone(r)
  BY <1>2 DEF Gone
<1>6. \A j \in Slots : j # i => InSlot(j)' = InSlot(j)
  BY <1>2 DEF InSlot
<1>7. InSlot(i)' = Queued(1) /\ InSlot(i) = {}
  BY <1>2 DEF InSlot, Queued, Elements
<1>8. \A k \in DOMAIN list' : Queued(k)' = Queued(k + 1)
  BY <1>2 DEF Queued
<1>9. \A j \in Slots : j # i /\ r \in InSlot(j) => stampOf[j] < stampOf[i]
  <2> SUFFICES ASSUME NEW j \in Slots, j # i, r \in InSlot(j) PROVE stampOf[j] < stampOf[i]
    OBVIOUS
  <2>1. head[i] = "invalid" /\ stampOf[i] = stamp
    BY <1>1 DEF MoveQueue, Submitting, IInv, SlotState
  <2>2. recs[j] # <<>>
    BY DEF InSlot, Elements
  <2>3. Busy(j) /\ Busy(i)
    BY <2>1, <2>2 DEF Places, Busy
  <2>4. stampOf[j] <= stamp /\ stampOf[j] # stampOf[i] /\ stampOf[i] \in Nat /\ stampOf[j] \in Nat
    BY <2>3 DEF IInv, Stamps, TypeOK, SlotTypes
  <2> QED
    BY <2>1, <2>4 DEF IInv, TypeOK, SlotTypes
<1>10. ASSUME NEW j \in Slots, NEW n \in DOMAIN recs'[j], recs'[j][n] = s
       PROVE  \/ Gone(r)
              \/ \E l \in Slots : stampOf[l] < stampOf[j] /\ r \in InSlot(l)'
              \/ EarlierIn(recs'[j], r, n)
  <2>1. CASE j = i
    <3>1. n \in DOMAIN list[1].recs /\ list[1].recs[n] = s
      BY <1>2, <1>10, <2>1
    <3>2. \/ Gone(r) \/ (\E l \in Slots : r \in InSlot(l))
          \/ (\E l \in DOMAIN list : l < 1 /\ r \in Queued(l))
          \/ EarlierIn(list[1].recs, r, n)
      BY <1>2, <3>1 DEF Follows
    <3>3. ~\E l \in DOMAIN list : l < 1
      BY <1>3
    <3> QED
      BY <1>2, <1>6, <1>7, <1>9, <2>1, <3>2, <3>3
  <2>2. CASE j # i
    BY <1>2, <1>6, <1>7, <1>10, <2>2 DEF Follows
  <2> QED
    BY <2>1, <2>2
<1>11. ASSUME NEW k \in DOMAIN list', NEW n \in DOMAIN list'[k].recs, list'[k].recs[n] = s
       PROVE  \/ Gone(r)
              \/ \E j \in Slots : r \in InSlot(j)'
              \/ \E l \in DOMAIN list' : l < k /\ r \in Queued(l)'
              \/ EarlierIn(list'[k].recs, r, n)
  <2>1. k + 1 \in DOMAIN list /\ list'[k] = list[k + 1]
    BY <1>2
  <2>2. \/ Gone(r) \/ (\E j \in Slots : r \in InSlot(j))
        \/ (\E l \in DOMAIN list : l < k + 1 /\ r \in Queued(l))
        \/ EarlierIn(list[k + 1].recs, r, n)
    BY <1>11, <2>1 DEF Follows
  <2>3. ASSUME NEW l \in DOMAIN list, l < k + 1, r \in Queued(l)
        PROVE  r \in InSlot(i)' \/ \E m \in DOMAIN list' : m < k /\ r \in Queued(m)'
    <3>1. CASE l = 1
      BY <1>7, <2>3, <3>1
    <3>2. CASE l # 1
      <4>1. l - 1 \in DOMAIN list' /\ l \in Nat /\ k \in Int
        BY <1>3, <1>4, <3>2
      <4>2. l - 1 < k /\ (l - 1) + 1 = l
        BY <2>3, <4>1
      <4> QED
        BY <1>8, <2>3, <4>1, <4>2
    <3> QED
      BY <3>1, <3>2
  <2> QED
    BY <1>6, <1>7, <2>1, <2>2, <2>3
<1> QED
  BY <1>2, <1>3, <1>5, <1>10, <1>11 DEF Follows

\* gckEVENT_Notify claims the slot of s only when nothing before it is in a slot.
LEMMA FollowsClaimed ==
    ASSUME IInv, Places, NotifyClaim, Scanned, NEW r, NEW s, Follows(r, s),
           s \in InSlot(cur) => source[cur] = gcvKERNEL_PIXEL
    PROVE  Follows(r, s)'
<1>1. /\ cur \in Slots /\ recs \in [Slots -> Seq(Records)] /\ todo = <<>> /\ scan = NumSlots
      /\ todo' = recs[cur] /\ recs' = [recs EXCEPT ![cur] = <<>>] /\ npc = "scan"
      /\ UNCHANGED <<list, delivered, stampOf>>
  BY PlaceTypes DEF NotifyClaim, Places, listVars, histVars, IInv, TypeOK, NotifyTypes
<1>2. recs'[cur] = <<>> /\ \A j \in Slots : j # cur => recs'[j] = recs[j]
  BY <1>1
<1>3. Elements(todo) = {} /\ Elements(todo') = InSlot(cur)
  BY <1>1 DEF Elements, InSlot
<1>4. Gone(r)' <=> Gone(r) \/ r \in InSlot(cur)
  BY <1>1, <1>3 DEF Gone
<1>5. \A j \in Slots : j # cur => InSlot(j)' = InSlot(j)
  BY <1>2 DEF InSlot
<1>6. \A j \in Slots : r \in InSlot(j) => Gone(r)' \/ r \in InSlot(j)'
  BY <1>4, <1>5
<1>7. \A k \in DOMAIN list : Queued(k)' = Queued(k)
  BY <1>1 DEF Queued
<1>8. ASSUME NEW n \in DOMAIN todo', todo'[n] = s
      PROVE  r \in Elements(delivered) \/ EarlierIn(todo', r, n)
  <2>1. n \in DOMAIN recs[cur] /\ recs[cur][n] = s /\ s \in InSlot(cur)
    BY <1>1, <1>8 DEF InSlot, Elements
  <2>2. ASSUME NEW j \in Slots, stampOf[j] < stampOf[cur], r \in InSlot(j) PROVE FALSE
    <3>1. recs[j] # <<>>
      BY <2>2 DEF InSlot, Elements
    <3>2. Busy(j) /\ Busy(cur)
      BY <1>1, <2>1, <3>1 DEF Places, Busy, InSlot, Elements
    <3>3. source[j] <= source[cur]
      <4>1. source[j] \in Sources /\ source[cur] = gcvKERNEL_PIXEL
        BY <1>1, <2>1 DEF IInv, TypeOK, SlotTypes
      <4> QED
        BY <4>1 DEF Sources, gcvKERNEL_COMMAND, gcvKERNEL_PIXEL
    <3>4. j < scan
      BY <1>1, NumSlotsAssumption DEF Slots
    <3> QED
      BY <1>1, <2>2, <3>2, <3>3, <3>4 DEF Scanned, Before
  <2>3. Gone(r) => r \in Elements(delivered)
    BY <1>3 DEF Gone
  <2> QED
    BY <1>1, <2>1, <2>2, <2>3 DEF Follows
<1>9. ASSUME NEW i \in Slots, NEW n \in DOMAIN recs'[i], recs'[i][n] = s
      PROVE  \/ Gone(r)'
             \/ \E j \in Slots : stampOf[j] < stampOf[i] /\ r \in InSlot(j)'
             \/ EarlierIn(recs'[i], r, n)
  BY <1>2, <1>4, <1>6, <1>9 DEF Follows
<1>10. ASSUME NEW k \in DOMAIN list, NEW n \in DOMAIN list[k].recs, list[k].recs[n] = s
       PROVE  \/ Gone(r)'
              \/ \E j \in Slots : r \in InSlot(j)'
              \/ \E l \in DOMAIN list : l < k /\ r \in Queued(l)'
              \/ EarlierIn(list[k].recs, r, n)
  BY <1>4, <1>6, <1>7, <1>10 DEF Follows
<1> QED
  BY <1>1, <1>8, <1>9, <1>10 DEF Follows

\* The first record of the walk is performed next.
LEMMA FollowsPerformed ==
    ASSUME TypeOK, Once, NotifyRecord, UNCHANGED stampOf, NEW r, NEW s, Follows(r, s)
    PROVE  Follows(r, s)'
<1>1. /\ todo # <<>> /\ todo \in Seq(Records) /\ todo' = Tail(todo) /\ todo[1] \in Records
      /\ delivered \in Seq(Records) /\ delivered' = Append(delivered, todo[1])
      /\ UNCHANGED <<list, recs>>
  BY PlaceTypes, NotifyRecordOnce DEF NotifyRecord, listVars, slotVars
<1>2. Elements(delivered') = Elements(delivered) \cup {todo[1]}
  BY NotifyRecordOnce
<1>3. /\ DOMAIN todo = 1 .. Len(todo) /\ Len(todo) \in Nat /\ DOMAIN todo' = 1 .. Len(todo) - 1
      /\ \A k \in 1 .. Len(todo) - 1 : todo'[k] = todo[k + 1]
      /\ 1 \in DOMAIN todo
  BY <1>1
<1>4. Elements(todo) = Elements(todo') \cup {todo[1]}
  BY <1>1, TailElements
<1>5. Gone(r)' <=> Gone(r)
  BY <1>2, <1>4 DEF Gone
<1>6. (\A j \in Slots : InSlot(j)' = InSlot(j)) /\ (\A k \in DOMAIN list : Queued(k)' = Queued(k))
  BY <1>1 DEF InSlot, Queued
<1>7. ASSUME NEW n \in DOMAIN delivered', delivered'[n] = s PROVE EarlierIn(delivered', r, n)
  <2>1. CASE n \in DOMAIN delivered
    <3>1. delivered[n] = s /\ EarlierIn(delivered, r, n)
      BY <1>1, <1>7, <2>1, AppendPositions DEF Follows
    <3> QED
      BY <1>1, <3>1, AppendPositions
  <2>2. CASE n \notin DOMAIN delivered
    <3>1. todo[1] = s
      BY <1>1, <1>7, <2>2, AppendPositions
    <3>2. r \in Elements(delivered) \/ EarlierIn(todo, r, 1)
      BY <1>3, <3>1 DEF Follows
    <3>3. ~EarlierIn(todo, r, 1)
      BY <1>3 DEF EarlierIn
    <3> QED
      BY <1>1, <1>7, <2>2, <3>2, <3>3, AppendPositions
  <2> QED
    BY <2>1, <2>2
<1>8. ASSUME NEW n \in DOMAIN todo', todo'[n] = s
      PROVE  r \in Elements(delivered') \/ EarlierIn(todo', r, n)
  <2>1. n \in Nat /\ n + 1 \in DOMAIN todo /\ todo[n + 1] = s
    BY <1>3, <1>8
  <2>2. r \in Elements(delivered) \/ EarlierIn(todo, r, n + 1)
    BY <2>1 DEF Follows
  <2>3. ASSUME NEW m \in DOMAIN todo, m < n + 1, todo[m] = r
        PROVE  r \in Elements(delivered') \/ EarlierIn(todo', r, n)
    <3>1. CASE m = 1
      BY <1>2, <2>3, <3>1
    <3>2. CASE m # 1
      <4>1. m - 1 \in DOMAIN todo' /\ m - 1 < n /\ todo'[m - 1] = r
        BY <1>3, <2>1, <2>3, <3>2
      <4> QED
        BY <4>1 DEF EarlierIn
    <3> QED
      BY <3>1, <3>2
  <2> QED
    BY <1>2, <2>2, <2>3 DEF EarlierIn
<1>9. ASSUME NEW i \in Slots, NEW n \in DOMAIN recs[i], recs[i][n] = s
      PROVE  \/ Gone(r)'
             \/ \E j \in Slots : stampOf[j] < stampOf[i] /\ r \in InSlot(j)'
             \/ EarlierIn(recs[i], r, n)
  BY <1>5, <1>6, <1>9 DEF Follows
<1>10. ASSUME NEW k \in DOMAIN list, NEW n \in DOMAIN list[k].recs, list[k].recs[n] = s
       PROVE  \/ Gone(r)'
              \/ \E j \in Slots : r \in InSlot(j)'
              \/ \E l \in DOMAIN list : l < k /\ r \in Queued(l)'
              \/ EarlierIn(list[k].recs, r, n)
  BY <1>5, <1>6, <1>10 DEF Follows
<1> QED
  BY <1>1, <1>7, <1>8, <1>9, <1>10 DEF Follows

-----------------------------------------------------------------------------
(* The steps keep PixelOrder.                                               *)

\* Only gckEVENT_Notify moves its own program counter and locals.
LEMMA NotifySteps ==
    [Next]_vars => Notify \/ UNCHANGED <<npc, cur, scan>>
<1>1. ASSUME NEW t \in Threads, Commit(t) \/ Submit(t) PROVE UNCHANGED <<npc, cur, scan>>
  BY <1>1 DEF Commit, StartCommit, CommitRecord, EndRecords, ForceRecord, Submit, SubmitCheck,
     EnterCommit, SubmitNext, LockList, GetEvent, MoveQueue, Reserve, ReserveNewQueue,
     CountInterrupt, Execute, ExitCommit, notifyVars
<1>2. ASSUME GPU \/ BusError \/ Interrupt \/ UNCHANGED vars PROVE UNCHANGED <<npc, cur, scan>>
  BY <1>2 DEF GPU, FrontEndEvent, PixelEvent, BusError, Interrupt, notifyVars, vars
<1> QED
  BY <1>1, <1>2 DEF Next

\* A round of the search settles on the earlier slot; no slot is taken meanwhile.
LEMMA ScannedNext ==
    ASSUME IInv, Places, Scanned, [Next]_vars
    PROVE  Scanned'
<1> SUFFICES ASSUME npc' = "scan", NEW i \in Slots, i < scan' PROVE ~Before(i, cur)'
  BY DEF Scanned
<1>0. /\ i \in Nat /\ stampOf \in [Slots -> Nat] /\ source \in [Slots -> Sources] /\ cur \in Slots
      /\ scan \in Nat /\ Slots \subseteq Nat
  BY SlotsAreNaturals DEF IInv, TypeOK, SlotTypes, NotifyTypes
<1>1. CASE Notify
  <2>1. CASE NotifyScan
    <3>1. /\ npc = "scan" /\ scan < NumSlots /\ scan' = scan + 1
          /\ UNCHANGED <<head, stampOf, source>>
          /\ IF Missed(scan, cur) THEN cur' = scan ELSE UNCHANGED cur
      BY <2>1 DEF NotifyScan, slotVars
    <3>2. scan \in Slots
      BY <1>0, <3>1, SlotsAreNaturals
    <3>3. i < scan => ~Before(i, cur)
      BY <3>1 DEF Scanned
    <3>4. i < scan \/ i = scan
      BY <1>0, <3>1
    <3>5. stampOf[i] \in Nat /\ stampOf[scan] \in Nat /\ stampOf[cur] \in Nat
          /\ source[i] \in Int /\ source[scan] \in Int /\ source[cur] \in Int
      BY <1>0, <3>2 DEF Sources, gcvKERNEL_COMMAND, gcvKERNEL_PIXEL
    <3>6. CASE Missed(scan, cur)
      <4>1. Busy(scan) /\ stampOf[scan] < stampOf[cur] /\ source[scan] <= source[cur]
        BY <3>6 DEF Missed, Busy
      <4>2. Busy(cur)
        BY <3>1 DEF IInv, NotifyState, Executed
      <4>3. ~Before(i, scan)
        BY <3>3, <3>4, <3>5, <4>1, <4>2 DEF Before
      <4> QED
        BY <3>1, <3>6, <4>3 DEF Before, Busy
    <3>7. CASE ~Missed(scan, cur)
      BY <3>1, <3>3, <3>4, <3>7 DEF Before, Busy, Missed
    <3> QED
      BY <3>6, <3>7
  <2>2. CASE NotifyPick
    BY <1>0, <2>2 DEF NotifyPick
  <2>3. CASE NotifyWake \/ NotifyRead \/ NotifyClaim \/ NotifyRecord \/ NotifyDone
    BY <2>3 DEF NotifyWake, NotifyRead, NotifyClaim, NotifyRecord, NotifyDone
  <2> QED
    BY <1>1, <2>1, <2>2, <2>3 DEF Notify
<1>2. CASE ~Notify
  <2>1. npc = "scan" /\ UNCHANGED <<npc, cur, scan>>
    BY <1>2, NotifySteps
  <2>2. ~Before(i, cur)
    BY <2>1 DEF Scanned
  <2>3. CASE UNCHANGED <<head, stampOf, source>>
    BY <2>1, <2>2, <2>3 DEF Before, Busy
  <2>4. ASSUME NEW t \in Threads, MoveQueue(t), UNCHANGED <<stampOf, source>>
        PROVE  ~Before(i, cur)'
    <3>1. /\ head' = [head EXCEPT ![id[t]] = "records"]
          /\ Submitting(t, id[t]) /\ pc[t] = "move" /\ id[t] \in Slots
      BY <2>4 DEF MoveQueue, Submitting, IInv, TypeOK, ThreadTypes
    <3>2. head[id[t]] = "invalid"
      BY <3>1 DEF IInv, SlotState
    <3>3. \A j \in Slots : Busy(j)' <=> Busy(j)
      BY <3>1, <3>2 DEF Busy, IInv, TypeOK, SlotTypes
    <3> QED
      BY <1>0, <2>1, <2>2, <2>4, <3>3 DEF Before
  <2>5. ASSUME NEW t \in Threads, GetEvent(t) PROVE FALSE
    BY <2>1, <2>5, GetEventEffect DEF IInv
  <2>6. ~NotifyClaim
    BY <1>2 DEF Notify
  <2> QED
    BY <2>3, <2>4, <2>5, <2>6, SlotSteps
<1> QED
  BY <1>1, <1>2

\* A new record goes to a queue of its source or a later one.
LEMMA PlacesAdded ==
    ASSUME IInv, Places, Once, PixelPlaces, NEW t \in Threads, NEW x \in Unused,
           NEW src \in Sources, AddList(t, x, src), UNCHANGED <<recs, head, source>>
    PROVE  PixelPlaces'
<1>0. /\ x \in Records /\ adder[x] = NoThread /\ adder' = [adder EXCEPT ![x] = t]
      /\ adder \in [Records -> Threads \cup {NoThread}] /\ added \in Seq(Records)
      /\ added' = IF src = gcvKERNEL_PIXEL THEN Append(added, x) ELSE added
  BY PlaceTypes DEF Unused, AddList, IInv, TypeOK, HistTypes
<1>1. PICK q \in Nat : AtEnd(q, x, src)
  BY <1>0, AddListAtEnd DEF IInv
<1>2. /\ q \in DOMAIN list'
      /\ \A k \in DOMAIN list' : k # q => k \in DOMAIN list /\ list'[k] = list[k]
      /\ q \in DOMAIN list =>
            /\ list[q].recs \in Seq(Records) /\ list'[q].recs = Append(list[q].recs, x)
            /\ list'[q].source = list[q].source /\ list[q].source >= src
      /\ q \notin DOMAIN list => list'[q].recs = <<x>> /\ list'[q].source = src
  BY <1>1 DEF AtEnd
<1>3. \A j \in DOMAIN added' :
         \/ j \in DOMAIN added /\ added'[j] = added[j] /\ added[j] # x
         \/ src = gcvKERNEL_PIXEL /\ added'[j] = x
  <2>1. \A j \in DOMAIN added : added[j] # x
    BY <1>0 DEF PixelPlaces
  <2>2. CASE src = gcvKERNEL_PIXEL
    BY <1>0, <2>1, <2>2, AppendPositions
  <2>3. CASE src # gcvKERNEL_PIXEL
    BY <1>0, <2>1, <2>3
  <2> QED
    BY <2>2, <2>3
<1>4. \A k \in DOMAIN added' : adder'[added'[k]] # NoThread
  BY <1>0, <1>3, NoThreadAssumption DEF PixelPlaces
<1>5. ASSUME NEW k \in DOMAIN list', NEW y, y \in Queued(k)', y # x
      PROVE  k \in DOMAIN list /\ y \in Queued(k)
  <2>1. CASE k = q /\ q \in DOMAIN list
    <3>1. list[k].recs \in Seq(Records) /\ list'[k].recs = Append(list[k].recs, x)
      BY <1>2, <2>1
    <3> QED
      BY <1>0, <1>5, <2>1, <3>1, AppendElements DEF Queued
  <2>2. CASE k = q /\ q \notin DOMAIN list
    <3>1. list'[k].recs = <<x>>
      BY <1>2, <2>2
    <3>2. y \in Elements(<<x>>)
      BY <1>5, <3>1 DEF Queued
    <3> QED
      BY <1>5, <3>2 DEF Elements
  <2>3. CASE k # q
    BY <1>2, <1>5, <2>3 DEF Queued
  <2> QED
    BY <2>1, <2>2, <2>3
<1>6. ASSUME NEW k \in DOMAIN list', list'[k].source # gcvKERNEL_PIXEL, NEW j \in DOMAIN added',
             added'[j] \in Queued(k)'
      PROVE  FALSE
  <2>1. list[q].source \in Sources \/ q \notin DOMAIN list
    <3>1. list \in Seq(Queues)
      BY PlaceTypes DEF IInv
    <3>2. q \in DOMAIN list => list[q] \in Queues
      BY <3>1
    <3> QED
      BY <3>2 DEF Queues
  <2>2. k \in DOMAIN list => list'[k].source = list[k].source
    BY <1>2
  <2>3. x \in Queued(k)' => k = q
    <3>1. ASSUME k # q PROVE x \notin Queued(k)'
      <4>1. k \in DOMAIN list /\ Queued(k)' = Queued(k)
        BY <1>2, <3>1 DEF Queued
      <4> QED
        BY <4>1 DEF Once, UnusedNowhere, Disjoint
    <3> QED
      BY <3>1
  <2>4. CASE j \in DOMAIN added /\ added'[j] = added[j] /\ added[j] # x
    BY <1>5, <1>6, <2>2, <2>4 DEF PixelPlaces
  <2>5. CASE src = gcvKERNEL_PIXEL /\ added'[j] = x
    <3>1. k = q
      BY <1>6, <2>3, <2>5
    <3> QED
      BY <1>2, <1>6, <2>1, <2>5, <3>1 DEF Sources, gcvKERNEL_COMMAND, gcvKERNEL_PIXEL
  <2> QED
    BY <1>3, <2>4, <2>5
<1>7. ASSUME NEW i \in Slots, source'[i] # gcvKERNEL_PIXEL, NEW j \in DOMAIN added',
             added'[j] \in InSlot(i)'
      PROVE  FALSE
  <2>1. InSlot(i)' = InSlot(i) /\ x \notin InSlot(i) /\ source[i] # gcvKERNEL_PIXEL
    BY <1>7 DEF InSlot, Once, UnusedNowhere, Disjoint
  <2> QED
    BY <1>3, <1>7, <2>1 DEF PixelPlaces
<1>8. \A i \in Slots : head[i] # "invalid"
  <2> SUFFICES ASSUME NEW i \in Slots, head[i] = "invalid" PROVE FALSE
    OBVIOUS
  <2>1. PICK u \in Threads : Submitting(u, i)
    BY DEF IInv, SlotState, NotSubmitting
  <2>2. pc[u] = "move"
    BY <2>1 DEF IInv, SlotState
  <2> QED
    BY <2>2, NoThreadAssumption DEF IInv, Locks, AddList
<1> QED
  BY <1>4, <1>6, <1>7, <1>8 DEF PixelPlaces

\* A queue goes to a slot of its source.
LEMMA PlacesMoved ==
    ASSUME IInv, Places, PixelPlaces, NEW t \in Threads, MoveQueue(t),
           UNCHANGED <<source, added, adder>>
    PROVE  PixelPlaces'
<1>1. PICK i \in Slots : i = id[t]
  BY DEF IInv, TypeOK, ThreadTypes
<1>2. /\ recs'[i] = list[1].recs
      /\ \A j \in Slots : j # i => recs'[j] = recs[j]
      /\ \A k \in DOMAIN list' : k + 1 \in DOMAIN list /\ k + 1 # 1 /\ list'[k] = list[k + 1]
      /\ 1 \in DOMAIN list
  BY <1>1, MoveQueueEffect
<1>3. /\ pc[t] = "move" /\ Submitting(t, i) /\ head' = [head EXCEPT ![i] = "records"]
      /\ head \in [Slots -> {"null", "invalid", "records"}]
  BY <1>1 DEF MoveQueue, Submitting, IInv, TypeOK, SlotTypes
<1>4. head[i] = "invalid" /\ source[i] = list[1].source
  BY <1>3 DEF IInv, SlotState, PixelPlaces
<1>5. ASSUME NEW k \in DOMAIN list', list'[k].source # gcvKERNEL_PIXEL, NEW j \in DOMAIN added'
      PROVE  added'[j] \notin Queued(k)'
  BY <1>2, <1>5 DEF PixelPlaces, Queued
<1>6. ASSUME NEW l \in Slots, source'[l] # gcvKERNEL_PIXEL, NEW j \in DOMAIN added'
      PROVE  added'[j] \notin InSlot(l)'
  <2>1. CASE l = i
    BY <1>2, <1>4, <1>6, <2>1 DEF PixelPlaces, Queued, InSlot
  <2>2. CASE l # i
    BY <1>2, <1>6, <2>2 DEF PixelPlaces, InSlot
  <2> QED
    BY <2>1, <2>2
<1>7. \A l \in Slots : head'[l] # "invalid"
  <2> SUFFICES ASSUME NEW l \in Slots, l # i, head[l] = "invalid" PROVE FALSE
    BY <1>3
  <2>1. PICK u \in Threads : Submitting(u, l)
    BY DEF IInv, SlotState, NotSubmitting
  <2>2. u = t
    BY <1>3, <2>1, OneSubmitter
  <2> QED
    BY <1>1, <2>1, <2>2 DEF Submitting
<1> QED
  BY <1>5, <1>6, <1>7 DEF PixelPlaces

\* A reserved slot has the source of the first queue.
LEMMA PlacesReserved ==
    ASSUME IInv, Places, PixelPlaces, NEW t \in Threads, GetEvent(t)
    PROVE  PixelPlaces'
<1>1. PICK i \in Slots :
              /\ head[i] = "null" /\ recs[i] = <<>> /\ list # <<>>
              /\ head' = [head EXCEPT ![i] = "invalid"]
              /\ stampOf' = [stampOf EXCEPT ![i] = stamp + 1]
              /\ source' = [source EXCEPT ![i] = list[1].source]
              /\ id'[t] = i /\ \A u \in Threads : u # t => id'[u] = id[u]
              /\ pc[t] = "get" /\ \A u \in Threads : u # t => pc'[u] = pc[u]
              /\ npc # "scan"
              /\ UNCHANGED <<list, recs, todo, delivered, added, adder, npc>>
  BY GetEventEffect DEF IInv
<1>2. source \in [Slots -> Sources] /\ head \in [Slots -> {"null", "invalid", "records"}]
  BY DEF IInv, TypeOK, SlotTypes
<1>3. /\ source'[i] = list[1].source
      /\ \A j \in Slots : j # i => source'[j] = source[j] /\ head'[j] = head[j]
  BY <1>1, <1>2
<1>4. \A j \in Slots : InSlot(j)' = InSlot(j)
  BY <1>1 DEF InSlot
<1>5. InSlot(i) = {}
  BY <1>1 DEF InSlot, Elements
<1>6. \A k \in DOMAIN list : Queued(k)' = Queued(k)
  BY <1>1 DEF Queued
<1> QED
  BY <1>1, <1>3, <1>4, <1>5, <1>6 DEF PixelPlaces

\* Every step keeps the records of the pixel pipe in their places.
LEMMA PixelPlacesNext ==
    ASSUME IInv, Places, Once, PixelPlaces, [Next]_vars
    PROVE  PixelPlaces'
<1>1. ASSUME NEW t \in Threads, GetEvent(t) PROVE PixelPlaces'
  BY <1>1, PlacesReserved
<1>2. ASSUME NEW t \in Threads, MoveQueue(t) PROVE PixelPlaces'
  <2>1. UNCHANGED <<source, added, adder>>
    BY <1>2 DEF MoveQueue, histVars
  <2> QED
    BY <1>2, <2>1, PlacesMoved
<1>3. CASE NotifyClaim
  <2>1. /\ head' = [head EXCEPT ![cur] = "null"] /\ UNCHANGED <<list, source, added, adder>>
        /\ head \in [Slots -> {"null", "invalid", "records"}] /\ cur \in Slots
    BY <1>3 DEF NotifyClaim, listVars, histVars, IInv, TypeOK, SlotTypes, NotifyTypes
  <2>2. \A j \in Slots : InSlot(j)' \subseteq InSlot(j)
    BY <1>3, NotifyClaimOnce
  <2>3. \A k \in DOMAIN list : Queued(k)' = Queued(k)
    BY <2>1 DEF Queued
  <2> QED
    BY <2>1, <2>2, <2>3 DEF PixelPlaces
<1>4. CASE /\ UNCHANGED <<head, stampOf, source>> /\ MovingSteps
           /\ ~NotifyClaim /\ ~\E t \in Threads : MoveQueue(t)
  <2>1. ASSUME NEW t \in Threads, NEW r \in Unused, NEW src \in Sources, AddList(t, r, src),
               UNCHANGED <<recs, todo>>
        PROVE  PixelPlaces'
    BY <1>4, <2>1, PlacesAdded
  <2>2. ASSUME NEW i \in Slots, Raise(i), UNCHANGED <<list, recs, todo>> PROVE PixelPlaces'
    BY <1>4, <2>2 DEF Raise, PixelPlaces, Queued, InSlot
  <2>3. CASE NotifyRecord
    BY <1>4, <2>3 DEF NotifyRecord, listVars, slotVars, PixelPlaces, Queued, InSlot
  <2> QED
    BY <1>4, <2>1, <2>2, <2>3 DEF MovingSteps
<1>5. CASE UNCHANGED <<head, stampOf, source>> /\ OtherSteps
  <2>1. UNCHANGED <<list, recs, todo, adder, added, delivered, passed>>
    BY <1>5, OtherStepsEffect
  <2> QED
    BY <1>5, <2>1 DEF PixelPlaces, Queued, InSlot
<1> QED
  BY <1>1, <1>2, <1>3, <1>4, <1>5, SlotSteps, StepKinds

\* Every step keeps the order.
LEMMA InTurnNext ==
    ASSUME IInv, Places, Once, PixelOrder, [Next]_vars
    PROVE  InTurn'
<1>0. /\ TypeOK /\ Locks /\ added \in Seq(Records)
      /\ \A i \in Slots : recs[i] # <<>> => stampOf'[i] = stampOf[i]
  BY FilledStay DEF IInv, TypeOK, HistTypes
<1>1. ASSUME NEW t \in Threads, NEW x \in Unused, NEW src \in Sources, AddList(t, x, src),
             UNCHANGED <<recs, todo>>, NEW k \in DOMAIN added', NEW j \in 1 .. k - 1
      PROVE  Follows(added[j], added[k])'
  <2>1. added' = IF src = gcvKERNEL_PIXEL THEN Append(added, x) ELSE added
    BY <1>1 DEF AddList
  <2>2. x \in Records
    BY DEF Unused
  <2>3. /\ j \in DOMAIN added /\ added'[j] = added[j] /\ added[j] \in Records
        /\ \/ k \in DOMAIN added /\ added'[k] = added[k] /\ added[k] \in Records
           \/ added'[k] = x
    <3>1. CASE src = gcvKERNEL_PIXEL
      <4>1. /\ DOMAIN added = 1 .. Len(added) /\ Len(added) \in Nat
            /\ DOMAIN added' = 1 .. Len(added) + 1 /\ added'[Len(added) + 1] = x
            /\ \A m \in 1 .. Len(added) : added'[m] = added[m] /\ added[m] \in Records
        BY <1>0, <2>1, <2>2, <3>1
      <4> QED
        BY <1>1, <4>1
    <3>2. CASE src # gcvKERNEL_PIXEL
      <4>1. /\ DOMAIN added = 1 .. Len(added) /\ Len(added) \in Nat /\ added' = added
            /\ \A m \in 1 .. Len(added) : added[m] \in Records
        BY <1>0, <2>1, <3>2
      <4> QED
        BY <1>1, <4>1
    <3> QED
      BY <3>1, <3>2
  <2>4. adder[added[j]] # NoThread
    BY <2>3 DEF PixelOrder, PixelPlaces
  <2>5. PICK r \in Records, s \in Records : r = added'[j] /\ s = added'[k]
    BY <2>2, <2>3
  <2>6. s = x \/ Follows(r, s)
    BY <1>1, <2>3, <2>5 DEF PixelOrder, InTurn
  <2>7. Follows(r, s)'
    BY <1>0, <1>1, <2>3, <2>4, <2>5, <2>6, FollowsAdded
  <2> QED
    BY <2>5, <2>7 DEF Follows, EarlierIn, Gone, Queued, InSlot
<1>2. ASSUME UNCHANGED added, \A r, s : Follows(r, s) => Follows(r, s)'
      PROVE  InTurn'
  BY <1>2 DEF PixelOrder, InTurn
<1>3. ASSUME NEW t \in Threads, NEW x \in Unused, NEW src \in Sources, AddList(t, x, src),
             UNCHANGED <<recs, todo>>
      PROVE  InTurn'
  BY <1>1, <1>3 DEF InTurn
<1>4. ASSUME NEW t \in Threads, MoveQueue(t) PROVE InTurn'
  <2>1. UNCHANGED added
    BY <1>4 DEF MoveQueue, histVars
  <2>2. \A r, s : Follows(r, s) => Follows(r, s)'
    BY <1>4, FollowsMoved
  <2> QED
    BY <1>2, <2>1, <2>2
<1>5. ASSUME NEW i \in Slots, Raise(i), UNCHANGED <<list, recs, todo>> PROVE InTurn'
  <2>1. UNCHANGED <<list, recs, todo, delivered, added>>
    BY <1>5 DEF Raise
  <2>2. \A r, s : Follows(r, s) => Follows(r, s)'
    BY <1>0, <2>1, FollowsStay
  <2> QED
    BY <1>2, <2>1, <2>2
<1>6. CASE NotifyClaim
  <2>1. UNCHANGED <<added, source>> /\ cur \in Slots
    BY <1>6 DEF NotifyClaim, histVars, IInv, TypeOK, NotifyTypes
  <2>2. ASSUME NEW k \in DOMAIN added, NEW j \in 1 .. k - 1
        PROVE  Follows(added[j], added[k])'
    <3>1. added[k] \in InSlot(cur) => source[cur] = gcvKERNEL_PIXEL
      BY <2>1 DEF PixelOrder, PixelPlaces
    <3>2. PICK r, s : r = added[j] /\ s = added[k]
      OBVIOUS
    <3>3. Follows(r, s) /\ (s \in InSlot(cur) => source[cur] = gcvKERNEL_PIXEL)
      BY <3>1, <3>2 DEF PixelOrder, InTurn
    <3>4. Follows(r, s)'
      BY <1>6, <3>3, FollowsClaimed DEF PixelOrder
    <3> QED
      BY <2>1, <3>2, <3>4 DEF Follows, EarlierIn, Gone, Queued, InSlot
  <2> QED
    BY <2>1, <2>2 DEF InTurn
<1>7. CASE NotifyRecord
  <2>1. UNCHANGED <<added, stampOf>>
    BY <1>7 DEF NotifyRecord, slotVars
  <2>2. \A r, s : Follows(r, s) => Follows(r, s)'
    BY <1>0, <1>7, <2>1, FollowsPerformed
  <2> QED
    BY <1>2, <2>1, <2>2
<1>8. CASE OtherSteps
  <2>1. UNCHANGED <<list, recs, todo, delivered, added>>
    BY <1>8, OtherStepsEffect
  <2>2. \A r, s : Follows(r, s) => Follows(r, s)'
    BY <1>0, <2>1, FollowsStay
  <2> QED
    BY <1>2, <2>1, <2>2
<1> QED
  BY <1>3, <1>4, <1>5, <1>6, <1>7, <1>8, StepKinds DEF MovingSteps

\* What the order of the pixel pipe needs holds always.
LEMMA PixelOrderAlways == Spec => []PixelOrder
<1>1. Init => PixelOrder
  <2> SUFFICES ASSUME Init PROVE PixelOrder
    OBVIOUS
  <2>1. InTurn
    BY DEF Init, InTurn
  <2>2. PixelPlaces
    BY DEF Init, PixelPlaces
  <2>3. Scanned
    BY DEF Init, Scanned
  <2> QED
    BY <2>1, <2>2, <2>3 DEF PixelOrder
<1>2. IInv /\ Places /\ Once /\ PixelOrder /\ [Next]_vars => PixelOrder'
  <2> SUFFICES ASSUME IInv, Places, Once, PixelOrder, [Next]_vars PROVE PixelOrder'
    OBVIOUS
  <2>1. InTurn'
    BY InTurnNext
  <2>2. PixelPlaces'
    BY PixelPlacesNext DEF PixelOrder
  <2>3. Scanned'
    BY ScannedNext DEF PixelOrder
  <2> QED
    BY <2>1, <2>2, <2>3 DEF PixelOrder
<1> QED
  BY <1>1, <1>2, IInvAlways, PlacesAlways, OnceAlways, PTL DEF Spec

\* Records of the pixel pipe are performed in the order in which they were
\* added, without a gap and each once, whatever interrupts are lost.
THEOREM PixelsInOrder == Spec => []PixelInOrder
<1>1. IInv /\ Once /\ PixelOrder => PixelInOrder
  <2> SUFFICES ASSUME IInv, Once, PixelOrder PROVE PixelInOrder
    OBVIOUS
  <2>1. delivered \in Seq(Records)
    BY DEF IInv, TypeOK, HistTypes
  <2>2. \A m, n \in DOMAIN delivered : delivered[m] = delivered[n] => m = n
    BY DEF Once, WalkOnce, Distinct
  <2>3. ASSUME NEW k \in DOMAIN added, NEW n \in DOMAIN delivered, delivered[n] = added[k],
               NEW j \in 1 .. k - 1
        PROVE  \E m \in 1 .. n - 1 : delivered[m] = added[j]
    <3>1. EarlierIn(delivered, added[j], n)
      BY <2>3 DEF PixelOrder, InTurn, Follows
    <3>2. PICK m \in DOMAIN delivered : m < n /\ delivered[m] = added[j]
      BY <3>1 DEF EarlierIn
    <3>3. m \in 1 .. n - 1
      BY <2>1, <3>2
    <3> QED
      BY <3>2, <3>3
  <2> QED
    BY <2>2, <2>3 DEF PixelInOrder
<1> QED
  BY <1>1, IInvAlways, OnceAlways, PixelOrderAlways, PTL

=============================================================================
