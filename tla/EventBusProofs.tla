--------------------------- MODULE EventBusProofs ---------------------------
(***************************************************************************)
(* Proofs about EventBus, for every number of threads, every queue and     *)
(* batch size and every length of the history.                             *)
(***************************************************************************)
EXTENDS EventBus, SequenceTheorems, TLAPS

-----------------------------------------------------------------------------
(* What Range says of the sequence operations the bus is made of.          *)

LEMMA RangeOfTail ==
  ASSUME NEW S, NEW s \in Seq(S), s # <<>>
  PROVE  /\ Head(s) \in Range(s) /\ Range(Tail(s)) \subseteq Range(s)
         /\ Range(s) \subseteq {Head(s)} \cup Range(Tail(s))
         /\ Range(s) \subseteq S /\ Head(s) \in S /\ Tail(s) \in Seq(S)
<1>1. /\ Len(s) \in Nat /\ DOMAIN s = 1..Len(s) /\ Len(s) # 0
      /\ Tail(s) \in Seq(S) /\ Len(Tail(s)) = Len(s) - 1 /\ Head(s) \in S
      /\ \A i \in 1..Len(Tail(s)) : Tail(s)[i] = s[i + 1]
      /\ DOMAIN Tail(s) = 1..Len(Tail(s)) /\ Head(s) = s[1]
      /\ \A i \in 1..Len(s) : s[i] \in S
  BY HeadTailProperties, LenProperties, EmptySeq, ElementOfSeq
<1>2. \A i \in 1..Len(s) : i = 1 \/ (i - 1 \in 1..Len(Tail(s)) /\ s[i] = Tail(s)[i - 1])
  BY <1>1
<1>3. \A x \in Range(s) : \E i \in 1..Len(s) : x = s[i]
  BY <1>1 DEF Range
<1>4. \A x \in Range(Tail(s)) : \E i \in 1..Len(Tail(s)) : x = s[i + 1] /\ i + 1 \in 1..Len(s)
  BY <1>1 DEF Range
<1>5. Head(s) \in Range(s) /\ Range(Tail(s)) \subseteq Range(s)
  BY <1>1, <1>4 DEF Range
<1>6. ASSUME NEW x \in Range(s), x # Head(s)  PROVE  x \in Range(Tail(s))
  <2>1. PICK i \in 1..Len(s) : x = s[i]
    BY <1>3
  <2>2. i - 1 \in 1..Len(Tail(s)) /\ x = Tail(s)[i - 1]
    BY <1>1, <1>2, <1>6, <2>1
  <2>3. QED  BY <1>1, <2>2 DEF Range
<1>7. Range(s) \subseteq S
  BY <1>1, <1>3
<1>8. Range(s) \subseteq {Head(s)} \cup Range(Tail(s))
  BY <1>6
<1>9. QED  BY <1>1, <1>5, <1>7, <1>8

LEMMA RangeOfAppend ==
  ASSUME NEW S, NEW s \in Seq(S), NEW e \in S
  PROVE  /\ Range(Append(s, e)) = Range(s) \cup {e}
         /\ Append(s, e) \in Seq(S) /\ Append(s, e) # <<>>
         /\ Len(Append(s, e)) = Len(s) + 1
<1>1. /\ Append(s, e) \in Seq(S) /\ Append(s, e) # <<>>
      /\ Len(Append(s, e)) = Len(s) + 1 /\ Len(s) \in Nat
      /\ \A i \in 1..Len(s) : Append(s, e)[i] = s[i]
      /\ Append(s, e)[Len(s) + 1] = e
      /\ DOMAIN s = 1..Len(s) /\ DOMAIN Append(s, e) = 1..(Len(s) + 1)
  BY AppendProperties, LenProperties
<1>2. QED  BY <1>1 DEF Range

LEMMA RangeOfEmpty == Range(<<>>) = {}
BY DEF Range

\* What a suffix or an extension of the queue does to its events.
LEMMA EventsOfTail ==
  ASSUME NEW q \in Seq(Seq(Nat)), q # <<>>
  PROVE  /\ EventsOf(Tail(q)) \subseteq EventsOf(q)
         /\ Range(Head(q)) \subseteq EventsOf(q)
         /\ EventsOf(q) \subseteq Range(Head(q)) \cup EventsOf(Tail(q))
<1>1. /\ Len(q) \in Nat /\ DOMAIN q = 1..Len(q) /\ Len(q) # 0
      /\ DOMAIN Tail(q) = 1..Len(Tail(q)) /\ Len(Tail(q)) = Len(q) - 1 /\ Head(q) = q[1]
      /\ \A i \in 1..Len(Tail(q)) : Tail(q)[i] = q[i + 1]
  BY HeadTailProperties, LenProperties, EmptySeq
<1>2. \A i \in 1..Len(q) : i = 1 \/ (i - 1 \in 1..Len(Tail(q)) /\ q[i] = Tail(q)[i - 1])
  BY <1>1
<1>3. \A i \in 1..Len(Tail(q)) : i + 1 \in 1..Len(q) /\ Tail(q)[i] = q[i + 1]
  BY <1>1
<1>4. ASSUME NEW x \in EventsOf(Tail(q))  PROVE  x \in EventsOf(q)
  <2>1. PICK i \in 1..Len(Tail(q)) : x \in Range(Tail(q)[i])
    BY <1>1 DEF EventsOf
  <2>2. QED  BY <1>1, <1>3, <2>1 DEF EventsOf
<1>5. ASSUME NEW x \in EventsOf(q), x \notin Range(Head(q))  PROVE  x \in EventsOf(Tail(q))
  <2>1. PICK i \in 1..Len(q) : x \in Range(q[i])
    BY <1>1 DEF EventsOf
  <2>2. i - 1 \in 1..Len(Tail(q)) /\ q[i] = Tail(q)[i - 1]
    BY <1>1, <1>2, <1>5, <2>1
  <2>3. QED  BY <1>1, <2>1, <2>2 DEF EventsOf
<1>6. Range(Head(q)) \subseteq EventsOf(q)
  <2>1. 1 \in DOMAIN q /\ Head(q) = q[1]
    BY <1>1
  <2>2. QED  BY <2>1 DEF EventsOf
<1>7. QED  BY <1>4, <1>5, <1>6

LEMMA EventsOfAppend ==
  ASSUME NEW q \in Seq(Seq(Nat)), NEW d \in Seq(Nat)
  PROVE  EventsOf(Append(q, d)) = EventsOf(q) \cup Range(d)
<1>1. /\ Len(q) \in Nat
      /\ \A i \in 1..Len(q) : Append(q, d)[i] = q[i]
      /\ Append(q, d)[Len(q) + 1] = d
      /\ DOMAIN q = 1..Len(q) /\ DOMAIN Append(q, d) = 1..(Len(q) + 1)
  BY AppendProperties, LenProperties
<1>2. 1..(Len(q) + 1) = 1..Len(q) \cup {Len(q) + 1}
  BY <1>1
<1>3. QED  BY <1>1, <1>2 DEF EventsOf

-----------------------------------------------------------------------------
(* Types, in the groups of variables that change together.  Only the holder *)
(* of the lock is inside publish, a thread has a delivery in hand exactly   *)
(* while it puts it, and no delivery is empty.                              *)

TableOK == /\ rows \in Seq(Kinds) /\ committed \in 0..Len(rows) /\ closed \in BOOLEAN
           /\ processed \subseteq Nat /\ lost \subseteq Nat
LockOK  == /\ lock \in Threads \cup {NoThread}
           /\ pc \in [Threads -> {"idle", "commit", "enqueue"} \cup PutPcs]
JobOK   == job \in [Threads -> Seq(Nat)]
ItemOK  == item \in [Threads -> Seq(Nat)]
BatchOK == batch \in Seq(Nat) /\ Len(batch) < BatchSize
QueueOK == queue \in Seq(Seq(Nat)) /\ Len(queue) <= QueueSize
LoopOK  == /\ loop \in {"top", "waiting", "busy", "checks", "exited"} /\ current \in Seq(Nat)
           /\ shutdown \in {"no", "stopped", "flushed", "closed"}

LEMMA TypeParts ==
  TypeOK <=> TableOK /\ LockOK /\ JobOK /\ ItemOK /\ BatchOK /\ QueueOK /\ LoopOK
BY DEF TypeOK, TableOK, LockOK, JobOK, ItemOK, BatchOK, QueueOK, LoopOK

LockInv ==
  \A t \in Threads : /\ pc[t] # "idle" <=> lock = t
                     /\ pc[t] = "idle" => job[t] = <<>>
                     /\ pc[t] \in PutPcs <=> item[t] # <<>>

DeliveryInv == \A i \in DOMAIN queue : queue[i] # <<>>
BusyInv == loop = "busy" <=> current # <<>>

TypeInv == /\ TableOK /\ LockOK /\ JobOK /\ ItemOK /\ BatchOK /\ QueueOK /\ LoopOK
           /\ LockInv /\ DeliveryInv /\ BusyInv /\ NewestIsNeverDropped

LEMMA ThreadsFacts == NoThread \notin Threads /\ Consumer \in Threads /\ Main \in Threads
BY ThreadsAssumption DEF Threads

LEMMA EmptySeqFacts ==
  /\ <<>> \in Seq(Kinds) /\ <<>> \in Seq(Nat) /\ <<>> \in Seq(Seq(Nat))
  /\ Len(<<>>) = 0 /\ DOMAIN <<>> = {}
OBVIOUS

LEMMA NatSeqFacts ==
  ASSUME NEW s \in Seq(Nat)
  PROVE  /\ Len(s) \in Nat /\ Range(s) \subseteq Nat
         /\ s # <<>> => /\ Head(s) \in Nat /\ Tail(s) \in Seq(Nat)
                        /\ <<Head(s)>> \in Seq(Nat) /\ <<Head(s)>> # <<>>
         /\ \A e \in Nat : /\ Append(s, e) \in Seq(Nat) /\ Append(s, e) # <<>>
                           /\ Len(Append(s, e)) = Len(s) + 1
BY LenProperties, RangeOfSeq, HeadTailProperties, AppendProperties

LEMMA QueueFacts ==
  ASSUME QueueOK
  PROVE  /\ Len(queue) \in Nat /\ DOMAIN queue = 1..Len(queue)
         /\ queue # <<>> =>
              /\ Tail(queue) \in Seq(Seq(Nat)) /\ Len(Tail(queue)) = Len(queue) - 1
              /\ Head(queue) \in Seq(Nat) /\ Head(queue) = queue[1] /\ 1 \in DOMAIN queue
              /\ \A i \in DOMAIN Tail(queue) : i + 1 \in DOMAIN queue /\ Tail(queue)[i] = queue[i + 1]
         /\ \A d \in Seq(Nat) :
              /\ Append(queue, d) \in Seq(Seq(Nat)) /\ Len(Append(queue, d)) = Len(queue) + 1
              /\ \A i \in DOMAIN Append(queue, d) :
                   \/ i = Len(queue) + 1 /\ Append(queue, d)[i] = d
                   \/ i \in DOMAIN queue /\ Append(queue, d)[i] = queue[i]
<1>1. queue \in Seq(Seq(Nat)) /\ Len(queue) \in Nat /\ DOMAIN queue = 1..Len(queue)
  BY LenProperties DEF QueueOK
<1>2. ASSUME queue # <<>>
      PROVE  /\ Tail(queue) \in Seq(Seq(Nat)) /\ Len(Tail(queue)) = Len(queue) - 1
             /\ Head(queue) \in Seq(Nat) /\ Head(queue) = queue[1] /\ 1 \in DOMAIN queue
             /\ \A i \in DOMAIN Tail(queue) : i + 1 \in DOMAIN queue /\ Tail(queue)[i] = queue[i + 1]
  <2>1. /\ Tail(queue) \in Seq(Seq(Nat)) /\ Len(Tail(queue)) = Len(queue) - 1
        /\ Head(queue) \in Seq(Nat) /\ Head(queue) = queue[1] /\ Len(queue) # 0
        /\ \A i \in 1..Len(Tail(queue)) : Tail(queue)[i] = queue[i + 1]
    BY <1>1, <1>2, HeadTailProperties, EmptySeq
  <2>2. DOMAIN Tail(queue) = 1..Len(Tail(queue))
    BY <2>1, LenProperties
  <2>3. QED  BY <1>1, <2>1, <2>2
<1>3. ASSUME NEW d \in Seq(Nat)
      PROVE  /\ Append(queue, d) \in Seq(Seq(Nat)) /\ Len(Append(queue, d)) = Len(queue) + 1
             /\ \A i \in DOMAIN Append(queue, d) :
                  \/ i = Len(queue) + 1 /\ Append(queue, d)[i] = d
                  \/ i \in DOMAIN queue /\ Append(queue, d)[i] = queue[i]
  <2>1. /\ Append(queue, d) \in Seq(Seq(Nat)) /\ Len(Append(queue, d)) = Len(queue) + 1
        /\ \A i \in 1..Len(queue) : Append(queue, d)[i] = queue[i]
        /\ Append(queue, d)[Len(queue) + 1] = d
    BY <1>1, AppendProperties
  <2>2. DOMAIN Append(queue, d) = 1..(Len(queue) + 1)
    BY <2>1, LenProperties
  <2>3. QED  BY <1>1, <2>1, <2>2
<1>4. QED  BY <1>1, <1>2, <1>3

LEMMA InitTypeInv == Init => TypeInv
<1> SUFFICES ASSUME Init PROVE TypeInv
  OBVIOUS
<1> USE EmptySeqFacts DEF Init
<1>1. LockOK /\ JobOK /\ ItemOK
  BY DEF LockOK, JobOK, ItemOK
<1>2. TableOK /\ LoopOK
  <2>1. rows \in Seq(Kinds) /\ Len(rows) = 0 /\ current \in Seq(Nat)
    OBVIOUS
  <2>2. committed \in 0..Len(rows)
    BY <2>1
  <2>3. processed \subseteq Nat /\ lost \subseteq Nat
    OBVIOUS
  <2>4. loop = "top" /\ shutdown = "no" /\ closed \in BOOLEAN
    OBVIOUS
  <2>5. QED  BY <2>1, <2>2, <2>3, <2>4 DEF TableOK, LoopOK
<1>3. BatchOK /\ QueueOK
  BY SizesAssumption DEF BatchOK, QueueOK
<1>4. LockInv /\ DeliveryInv /\ BusyInv /\ NewestIsNeverDropped
  BY ThreadsFacts DEF LockInv, DeliveryInv, BusyInv, NewestIsNeverDropped, PutPcs
<1>5. QED  BY <1>1, <1>2, <1>3, <1>4 DEF TypeInv

LEMMA InsertTypeInv ==
  ASSUME TypeInv, NEW t \in Threads, NEW kinds \in Calls, Insert(t, kinds)
  PROVE  TypeInv'
<1> USE DEF TypeInv, Insert, CanPublish
<1>1. /\ rows' \in Seq(Kinds) /\ Len(rows') = Len(rows) + Len(kinds)
      /\ Len(rows) \in Nat /\ Len(kinds) \in Nat
  BY CallsAssumption, ConcatProperties, LenProperties DEF TableOK
<1>2. [i \in 1..Len(kinds) |-> Len(rows) + i] \in Seq(Nat)
  BY <1>1
<1>3. TableOK' /\ LockOK' /\ JobOK' /\ ItemOK'
  BY <1>1, <1>2 DEF TableOK, LockOK, JobOK, ItemOK, consumer
<1>4. BatchOK' /\ QueueOK' /\ LoopOK' /\ DeliveryInv' /\ BusyInv'
  BY DEF BatchOK, QueueOK, LoopOK, DeliveryInv, BusyInv, consumer
<1>5. LockInv' /\ NewestIsNeverDropped'
  BY ThreadsFacts DEF LockOK, JobOK, LockInv, NewestIsNeverDropped, PutPcs, Room, LockFree
<1>6. QED  BY <1>3, <1>4, <1>5

\* A delivery that finds room, from either put_nowait.
LEMMA DeliverTypeInv ==
  ASSUME TypeInv, NEW t \in Threads, pc[t] \in PutPcs, Room, Deliver(t),
         UNCHANGED <<table, lock, job, batch, consumer, shutdown, lost>>
  PROVE  TypeInv'
<1> USE QueueFacts, EmptySeqFacts DEF TypeInv, Deliver, table, consumer
<1>1. item[t] \in Seq(Nat) /\ item[t] # <<>>
  BY DEF ItemOK, LockInv
<1>2. QueueOK'
  BY <1>1, SizesAssumption DEF QueueOK, Room
<1>3. DeliveryInv'
  BY <1>1 DEF DeliveryInv
<1>4. ItemOK' /\ LockOK' /\ JobOK'
  BY DEF ItemOK, LockOK, JobOK
<1>5. TableOK' /\ BatchOK' /\ LoopOK' /\ BusyInv'
  BY DEF TableOK, BatchOK, LoopOK, BusyInv
<1>6. LockInv'
  BY DEF LockInv, LockOK, ItemOK, PutPcs
<1>7. NewestIsNeverDropped'
  BY ThreadsFacts DEF NewestIsNeverDropped, LockInv, LockOK, PutPcs
<1>8. QED  BY <1>2, <1>3, <1>4, <1>5, <1>6, <1>7

\* The steps of a publisher.
LEMMA PublishTypeInv ==
  ASSUME TypeInv, NEW t \in Threads, PublishStep(t)
  PROVE  TypeInv'
<1> USE ThreadsFacts, EmptySeqFacts DEF TypeInv, table, consumer
<1>0. /\ job[t] \in Seq(Nat) /\ item[t] \in Seq(Nat) /\ batch \in Seq(Nat)
      /\ Len(rows) \in Nat
  BY LenProperties DEF JobOK, ItemOK, BatchOK, TableOK
<1>1. CASE Commit(t)
  <2>1. TableOK' /\ LockOK' /\ JobOK' /\ ItemOK'
    BY <1>0, <1>1 DEF Commit, TableOK, LockOK, JobOK, ItemOK
  <2>2. BatchOK' /\ QueueOK' /\ LoopOK' /\ DeliveryInv' /\ BusyInv'
    BY <1>1 DEF Commit, BatchOK, QueueOK, LoopOK, DeliveryInv, BusyInv
  <2>3. LockInv' /\ NewestIsNeverDropped'
    BY <1>1 DEF Commit, LockOK, LockInv, NewestIsNeverDropped, PutPcs, Room
  <2>4. QED  BY <2>1, <2>2, <2>3
<1>2. CASE CommitFails(t)
  <2>1. TableOK' /\ LockOK' /\ JobOK' /\ ItemOK'
    BY <1>0, <1>2, NatSeqFacts DEF CommitFails, TableOK, LockOK, JobOK, ItemOK
  <2>2. BatchOK' /\ QueueOK' /\ LoopOK' /\ DeliveryInv' /\ BusyInv'
    BY <1>2 DEF CommitFails, BatchOK, QueueOK, LoopOK, DeliveryInv, BusyInv
  <2>3. LockInv' /\ NewestIsNeverDropped'
    BY <1>2 DEF CommitFails, LockOK, JobOK, LockInv, NewestIsNeverDropped, PutPcs, Room
  <2>4. QED  BY <2>1, <2>2, <2>3
<1>3. CASE Buffer(t)
  <2> DEFINE full == Append(batch, Head(job[t]))
  <2>1. full \in Seq(Nat) /\ Len(full) = Len(batch) + 1 /\ full # <<>> /\ Tail(job[t]) \in Seq(Nat)
    BY <1>0, <1>3, NatSeqFacts DEF Buffer
  <2>2. /\ job' = [job EXCEPT ![t] = Tail(@)] /\ pc[t] = "enqueue"
        /\ \/ /\ batch' = <<>> /\ item' = [item EXCEPT ![t] = full]
              /\ pc' = [pc EXCEPT ![t] = "put"]
           \/ /\ ~(Len(full) >= BatchSize) /\ batch' = full /\ UNCHANGED <<item, pc>>
    BY <1>3 DEF Buffer
  <2> HIDE DEF full
  <2>3. BatchOK'
    <3>1. Len(full) \in Nat /\ BatchSize \in Nat \ {0}
      BY <2>1, NatSeqFacts, SizesAssumption
    <3>2. CASE batch' = <<>>
      BY <3>1, <3>2 DEF BatchOK
    <3>3. CASE ~(Len(full) >= BatchSize) /\ batch' = full
      BY <2>1, <3>1, <3>3 DEF BatchOK
    <3>4. QED  BY <2>2, <3>2, <3>3
  <2>4. LockOK' /\ JobOK' /\ ItemOK'
    <3>1. lock' = lock
      BY <1>3 DEF Buffer
    <3>2. QED  BY <2>1, <2>2, <3>1 DEF LockOK, JobOK, ItemOK, PutPcs
  <2>5. TableOK' /\ QueueOK' /\ LoopOK' /\ DeliveryInv' /\ BusyInv'
    BY <1>3 DEF Buffer, TableOK, QueueOK, LoopOK, DeliveryInv, BusyInv
  <2>6. LockInv' /\ NewestIsNeverDropped'
    BY <1>3, <2>1, <2>2 DEF Buffer, LockOK, JobOK, ItemOK, LockInv, NewestIsNeverDropped, PutPcs, Room
  <2>7. QED  BY <2>3, <2>4, <2>5, <2>6
<1>4. CASE FlushFirst(t)
  <2>1. BatchOK'
    BY <1>4, SizesAssumption DEF FlushFirst, FlushBatch, BatchOK
  <2>2. LockOK' /\ JobOK' /\ ItemOK'
    BY <1>0, <1>4 DEF FlushFirst, FlushBatch, LockOK, JobOK, ItemOK, PutPcs
  <2>3. TableOK' /\ QueueOK' /\ LoopOK' /\ DeliveryInv' /\ BusyInv'
    BY <1>4 DEF FlushFirst, TableOK, QueueOK, LoopOK, DeliveryInv, BusyInv
  <2>4. LockInv' /\ NewestIsNeverDropped'
    BY <1>4 DEF FlushFirst, FlushBatch, LockOK, ItemOK, LockInv, NewestIsNeverDropped, PutPcs, Room
  <2>5. QED  BY <2>1, <2>2, <2>3, <2>4
<1>5. CASE EnqueueNormal(t)
  <2>1. <<Head(job[t])>> \in Seq(Nat) /\ <<Head(job[t])>> # <<>> /\ Tail(job[t]) \in Seq(Nat)
    BY <1>0, <1>5, NatSeqFacts DEF EnqueueNormal
  <2>2. LockOK' /\ JobOK' /\ ItemOK'
    BY <1>5, <2>1 DEF EnqueueNormal, LockOK, JobOK, ItemOK, PutPcs
  <2>3. TableOK' /\ BatchOK' /\ QueueOK' /\ LoopOK' /\ DeliveryInv' /\ BusyInv'
    BY <1>5 DEF EnqueueNormal, TableOK, BatchOK, QueueOK, LoopOK, DeliveryInv, BusyInv
  <2>4. LockInv' /\ NewestIsNeverDropped'
    BY <1>5, <2>1 DEF EnqueueNormal, LockOK, JobOK, ItemOK, LockInv, NewestIsNeverDropped, PutPcs, Room
  <2>5. QED  BY <2>2, <2>3, <2>4
<1>6. CASE Release(t)
  <2>1. TableOK' /\ LockOK' /\ JobOK' /\ ItemOK'
    BY <1>6 DEF Release, TableOK, LockOK, JobOK, ItemOK
  <2>2. BatchOK' /\ QueueOK' /\ LoopOK' /\ DeliveryInv' /\ BusyInv'
    BY <1>6 DEF Release, BatchOK, QueueOK, LoopOK, DeliveryInv, BusyInv
  <2>3. LockInv' /\ NewestIsNeverDropped'
    BY <1>6 DEF Release, LockOK, LockInv, NewestIsNeverDropped, PutPcs, Room
  <2>4. QED  BY <2>1, <2>2, <2>3
<1>7. CASE Put(t)
  <2>1. CASE Room
    BY <1>7, <2>1, DeliverTypeInv DEF Put, PutPcs
  <2>2. CASE ~Room
    <3>1. TableOK' /\ LockOK' /\ JobOK' /\ ItemOK'
      BY <1>7, <2>2 DEF Put, TableOK, LockOK, JobOK, ItemOK, PutPcs
    <3>2. BatchOK' /\ QueueOK' /\ LoopOK' /\ DeliveryInv' /\ BusyInv'
      BY <1>7, <2>2 DEF Put, BatchOK, QueueOK, LoopOK, DeliveryInv, BusyInv
    <3>3. LockInv' /\ NewestIsNeverDropped'
      BY <1>7, <2>2 DEF Put, LockOK, LockInv, NewestIsNeverDropped, PutPcs, Room
    <3>4. QED  BY <3>1, <3>2, <3>3
  <2>3. QED  BY <2>1, <2>2
<1>8. CASE Evict(t)
  <2>1. QueueOK' /\ Len(queue') < QueueSize /\ DeliveryInv'
    <3>1. CASE queue = <<>>
      <4>1. queue' = queue
        BY <1>8, <3>1 DEF Evict
      <4>2. QED  BY <3>1, <4>1, SizesAssumption DEF QueueOK, DeliveryInv
    <3>2. CASE queue # <<>>
      <4>1. queue' = Tail(queue)
        BY <1>8, <3>2 DEF Evict
      <4>2. QED  BY <3>2, <4>1, QueueFacts, SizesAssumption DEF QueueOK, DeliveryInv
    <3>3. QED  BY <3>1, <3>2
  <2>2. lost' \subseteq Nat
    BY <1>8, QueueFacts, NatSeqFacts DEF Evict, TableOK
  <2>3. TableOK' /\ LockOK' /\ JobOK' /\ ItemOK'
    BY <1>8, <2>2 DEF Evict, TableOK, LockOK, JobOK, ItemOK, PutPcs
  <2>4. BatchOK' /\ LoopOK' /\ BusyInv'
    BY <1>8 DEF Evict, BatchOK, LoopOK, BusyInv
  <2>5. LockInv' /\ NewestIsNeverDropped'
    BY <1>8, <2>1 DEF Evict, LockOK, LockInv, NewestIsNeverDropped, PutPcs, Room
  <2>6. QED  BY <2>1, <2>3, <2>4, <2>5
<1>9. CASE Reput(t)
  BY <1>9, DeliverTypeInv DEF Reput, NewestIsNeverDropped, PutPcs
<1>10. QED
  BY <1>1, <1>2, <1>3, <1>4, <1>5, <1>6, <1>7, <1>8, <1>9 DEF PublishStep

LEMMA TruncatedRows ==
  ASSUME TableOK
  PROVE  SubSeq(rows, 1, committed) \in Seq(Kinds) /\ Len(SubSeq(rows, 1, committed)) = committed
<1>1. /\ committed \in Nat /\ \A i \in 1..committed : rows[i] \in Kinds
  BY ElementOfSeq, LenProperties DEF TableOK
<1>2. QED  BY <1>1, SubSeqProperties

\* The steps of the consumer, of the shutdown and of a crash.
LEMMA OtherTypeInv ==
  ASSUME TypeInv, ConsumerStep \/ StopConsumer \/ Flush \/ CloseDb \/ Restart
  PROVE  TypeInv'
<1> USE ThreadsFacts, EmptySeqFacts DEF TypeInv, table, putting, consumer
<1>0. current \in Seq(Nat) /\ batch \in Seq(Nat)
  BY DEF LoopOK, BatchOK
<1>1. CASE CheckStop \/ EndChecks
  <2>1. LoopOK' /\ BusyInv'
    BY <1>1 DEF CheckStop, EndChecks, LoopOK, BusyInv
  <2>2. TableOK' /\ LockOK' /\ JobOK' /\ ItemOK' /\ BatchOK' /\ QueueOK'
    BY <1>1 DEF CheckStop, EndChecks, TableOK, LockOK, JobOK, ItemOK, BatchOK, QueueOK
  <2>3. LockInv' /\ DeliveryInv' /\ NewestIsNeverDropped'
    BY <1>1 DEF CheckStop, EndChecks, LockInv, DeliveryInv, NewestIsNeverDropped, Room
  <2>4. QED  BY <2>1, <2>2, <2>3
<1>2. CASE Consume
  <2>1. CASE queue = <<>>
    <3>1. queue' = queue /\ current' = current /\ loop = "waiting" /\ loop' = "checks"
      BY <1>2, <2>1 DEF Consume
    <3>2. LoopOK' /\ BusyInv' /\ QueueOK' /\ DeliveryInv'
      BY <1>2, <3>1 DEF Consume, LoopOK, BusyInv, QueueOK, DeliveryInv
    <3>3. NewestIsNeverDropped'
      BY <1>2, <3>1 DEF Consume, NewestIsNeverDropped, Room
    <3>4. TableOK' /\ LockOK' /\ JobOK' /\ ItemOK' /\ BatchOK' /\ LockInv'
      BY <1>2 DEF Consume, TableOK, LockOK, JobOK, ItemOK, BatchOK, LockInv
    <3>5. QED  BY <3>2, <3>3, <3>4
  <2>2. CASE queue # <<>>
    <3>1. queue' = Tail(queue) /\ current' = Head(queue) /\ loop' = "busy"
      BY <1>2, <2>2 DEF Consume
    <3>2. QueueOK' /\ DeliveryInv' /\ Len(queue') < Len(queue) /\ Len(queue) \in Nat
      <4>1. QueueOK' /\ Len(queue') < Len(queue) /\ Len(queue) \in Nat
        BY <2>2, <3>1, QueueFacts, SizesAssumption DEF QueueOK
      <4>2. DeliveryInv'
        BY <2>2, <3>1, QueueFacts DEF DeliveryInv
      <4>3. QED  BY <4>1, <4>2
    <3>3. LoopOK' /\ BusyInv'
      BY <1>2, <2>2, <3>1, QueueFacts DEF Consume, LoopOK, BusyInv, DeliveryInv
    <3>4. NewestIsNeverDropped'
      BY <1>2, <3>2, SizesAssumption DEF Consume, NewestIsNeverDropped, Room, QueueOK
    <3>5. TableOK' /\ LockOK' /\ JobOK' /\ ItemOK' /\ BatchOK' /\ LockInv'
      BY <1>2 DEF Consume, TableOK, LockOK, JobOK, ItemOK, BatchOK, LockInv
    <3>6. QED  BY <3>2, <3>3, <3>4, <3>5
  <2>3. QED  BY <2>1, <2>2
<1>3. CASE ProcessEvent
  <2>1. Head(current) \in Nat /\ Tail(current) \in Seq(Nat)
    BY <1>0, <1>3, NatSeqFacts DEF ProcessEvent, BusyInv
  <2>2. TableOK' /\ LoopOK' /\ BusyInv'
    BY <1>3, <2>1 DEF ProcessEvent, TableOK, LoopOK, BusyInv
  <2>3. LockOK' /\ JobOK' /\ ItemOK' /\ BatchOK' /\ QueueOK'
    BY <1>3 DEF ProcessEvent, LockOK, JobOK, ItemOK, BatchOK, QueueOK
  <2>4. LockInv' /\ DeliveryInv' /\ NewestIsNeverDropped'
    BY <1>3 DEF ProcessEvent, LockInv, DeliveryInv, NewestIsNeverDropped, Room
  <2>5. QED  BY <2>2, <2>3, <2>4
<1>4. CASE ProcessEventRaises
  <2>1. TableOK' /\ LoopOK' /\ BusyInv'
    BY <1>0, <1>4, NatSeqFacts DEF ProcessEventRaises, TableOK, LoopOK, BusyInv
  <2>2. LockOK' /\ JobOK' /\ ItemOK' /\ BatchOK' /\ QueueOK'
    BY <1>4 DEF ProcessEventRaises, LockOK, JobOK, ItemOK, BatchOK, QueueOK
  <2>3. LockInv' /\ DeliveryInv' /\ NewestIsNeverDropped'
    BY <1>4 DEF ProcessEventRaises, LockInv, DeliveryInv, NewestIsNeverDropped, Room
  <2>4. QED  BY <2>1, <2>2, <2>3
<1>5. CASE StopConsumer
  <2>1. LoopOK' /\ BusyInv' /\ TableOK'
    BY <1>5 DEF StopConsumer, LoopOK, BusyInv, TableOK
  <2>2. LockOK' /\ JobOK' /\ ItemOK' /\ BatchOK' /\ QueueOK'
    BY <1>5 DEF StopConsumer, LockOK, JobOK, ItemOK, BatchOK, QueueOK
  <2>3. LockInv' /\ DeliveryInv' /\ NewestIsNeverDropped'
    BY <1>5 DEF StopConsumer, LockInv, DeliveryInv, NewestIsNeverDropped, Room
  <2>4. QED  BY <2>1, <2>2, <2>3
<1>6. CASE Flush
  <2>1. TableOK' /\ LoopOK' /\ BusyInv' /\ QueueOK' /\ DeliveryInv'
    BY <1>6 DEF Flush, TableOK, LoopOK, BusyInv, QueueOK, DeliveryInv
  <2>2. CASE batch = <<>>
    BY <1>6, <2>1, <2>2
       DEF Flush, LockOK, JobOK, ItemOK, BatchOK, LockInv, NewestIsNeverDropped, Room
  <2>3. CASE batch # <<>>
    <3>1. LockOK' /\ JobOK' /\ ItemOK'
      BY <1>0, <1>6, <2>3 DEF Flush, FlushBatch, LockOK, JobOK, ItemOK, PutPcs
    <3>2. BatchOK'
      BY <1>6, <2>3, SizesAssumption DEF Flush, FlushBatch, BatchOK
    <3>3. LockInv' /\ NewestIsNeverDropped'
      BY <1>6, <2>3 DEF Flush, FlushBatch, LockFree, LockOK, ItemOK, LockInv, PutPcs,
                        NewestIsNeverDropped, Room
    <3>4. QED  BY <2>1, <3>1, <3>2, <3>3
  <2>4. QED  BY <2>2, <2>3
<1>7. CASE CloseDb
  <2>1. TableOK' /\ LoopOK' /\ BusyInv'
    BY <1>7, TruncatedRows DEF CloseDb, TableOK, LoopOK, BusyInv
  <2>2. LockOK' /\ JobOK' /\ ItemOK' /\ BatchOK' /\ QueueOK'
    BY <1>7 DEF CloseDb, LockOK, JobOK, ItemOK, BatchOK, QueueOK
  <2>3. LockInv' /\ DeliveryInv' /\ NewestIsNeverDropped'
    BY <1>7 DEF CloseDb, LockInv, DeliveryInv, NewestIsNeverDropped, Room
  <2>4. QED  BY <2>1, <2>2, <2>3
<1>8. CASE Restart
  <2>1. rows' \in Seq(Kinds) /\ committed' \in 0..Len(rows')
    BY <1>8, TruncatedRows DEF Restart, TableOK
  <2>2. processed' \subseteq Nat /\ lost' \subseteq Nat
    BY <1>8 DEF Restart, TableOK
  <2>3. closed' \in BOOLEAN
    BY <1>8 DEF Restart
  <2>4. TableOK' /\ LockOK' /\ JobOK' /\ ItemOK' /\ LoopOK'
    BY <1>8, <2>1, <2>2, <2>3 DEF Restart, TableOK, LockOK, JobOK, ItemOK, LoopOK
  <2>5. BatchOK' /\ QueueOK'
    BY <1>8, SizesAssumption DEF Restart, BatchOK, QueueOK
  <2>6. LockInv' /\ DeliveryInv' /\ BusyInv' /\ NewestIsNeverDropped'
    BY <1>8 DEF Restart, LockInv, DeliveryInv, BusyInv, NewestIsNeverDropped, PutPcs
  <2>7. QED  BY <2>4, <2>5, <2>6
<1>9. QED  BY <1>1, <1>2, <1>3, <1>4, <1>5, <1>6, <1>7, <1>8 DEF ConsumerStep

LEMMA StutterTypeInv == ASSUME TypeInv, UNCHANGED vars  PROVE  TypeInv'
BY DEF TypeInv, vars, table, putting, consumer, TableOK, LockOK, JobOK, ItemOK, BatchOK,
       QueueOK, LoopOK, LockInv, DeliveryInv, BusyInv, NewestIsNeverDropped, Room

LEMMA NextTypeInv == TypeInv /\ [Next]_vars => TypeInv'
BY InsertTypeInv, PublishTypeInv, OtherTypeInv, StutterTypeInv DEF Next

\* The types and bounds of every variable hold in every reachable state,
\* whatever the number of threads and the sizes of the queue and the batch.
THEOREM TypeCorrect == Spec => []TypeOK
<1>1. TypeInv => TypeOK
  BY TypeParts DEF TypeInv
<1>2. QED  BY <1>1, InitTypeInv, NextTypeInv, PTL DEF Spec

\* The second put_nowait of _put never raises Full: the branch that drops the
\* newest event is dead code.
THEOREM NewestKept == Spec => []NewestIsNeverDropped
<1>1. TypeInv => NewestIsNeverDropped
  BY DEF TypeInv
<1>2. QED  BY <1>1, InitTypeInv, NextTypeInv, PTL DEF Spec

-----------------------------------------------------------------------------
(* Durability.  What a publisher has still to enqueue is committed, unless  *)
(* it is about to commit it, and then it is newer than all that is.         *)

PendingInv ==
  \A t \in Threads :
    Range(job[t]) \subseteq IF pc[t] = "commit" THEN (committed + 1)..Len(rows) ELSE 1..committed

DurableInv == DurableBeforeDelivered /\ PendingInv

LEMMA InitDurableInv == Init => DurableInv
<1>1. Range(<<>>) = {} /\ EventsOf(<<>>) = {}
  BY RangeOfEmpty, EmptySeqFacts DEF EventsOf
<1>2. Init => Putting = {}
  BY <1>1 DEF Init, Putting
<1>3. Init => DurableBeforeDelivered
  BY <1>1, <1>2 DEF Init, DurableBeforeDelivered, Queued
<1>4. Init => PendingInv
  BY <1>1 DEF Init, PendingInv
<1>5. QED  BY <1>3, <1>4 DEF DurableInv

LEMMA InsertDurableInv ==
  ASSUME TypeInv, DurableInv, NEW t \in Threads, NEW kinds \in Calls, Insert(t, kinds)
  PROVE  DurableInv'
<1>1. /\ Len(rows') = Len(rows) + Len(kinds) /\ Len(rows) \in Nat /\ Len(kinds) \in Nat
      /\ committed \in Nat /\ committed <= Len(rows)
  BY CallsAssumption, ConcatProperties, LenProperties DEF TypeInv, TableOK, Insert
<1>2. DurableBeforeDelivered'
  BY DEF Insert, DurableInv, DurableBeforeDelivered, Queued, EventsOf, Putting, consumer
<1>3. Range([i \in 1..Len(kinds) |-> Len(rows) + i]) \subseteq (committed + 1)..Len(rows')
  BY <1>1 DEF Range
<1>4. PendingInv'
  <2> SUFFICES ASSUME NEW u \in Threads
               PROVE  Range(job'[u]) \subseteq
                        IF pc'[u] = "commit" THEN (committed' + 1)..Len(rows') ELSE 1..committed'
    BY DEF PendingInv
  <2>1. committed' = committed
    BY DEF Insert
  <2>2. CASE u = t
    BY <1>3, <2>1, <2>2 DEF Insert, TypeInv, LockOK, JobOK
  <2>3. CASE u # t
    <3>1. job'[u] = job[u] /\ pc'[u] = pc[u] /\ pc[u] = "idle"
      BY <2>3, ThreadsFacts DEF Insert, LockFree, TypeInv, LockInv, LockOK, JobOK
    <3>2. QED  BY <2>1, <3>1 DEF DurableInv, PendingInv
  <2>4. QED  BY <2>2, <2>3
<1>5. QED  BY <1>2, <1>4 DEF DurableInv

\* Only the holder of the lock has anything in hand.
LEMMA HolderOnly ==
  ASSUME NEW t \in Threads, NEW f, \A u \in Threads : u # t => f[u] = <<>>
  PROVE  UNION {Range(f[u]) : u \in Threads} = Range(f[t])
<1>1. \A u \in Threads : u # t => Range(f[u]) = {}
  BY RangeOfEmpty, EmptySeqFacts
<1>2. QED  BY <1>1

LEMMA HolderPlaces ==
  ASSUME TypeInv, NEW t \in Threads, pc[t] # "idle"
  PROVE  Putting = Range(item[t]) /\ Pending = Range(job[t])
<1>1. \A u \in Threads : u # t => item[u] = <<>> /\ job[u] = <<>>
  BY DEF TypeInv, LockInv, PutPcs
<1>2. QED  BY <1>1, HolderOnly DEF Putting, Pending

LEMMA HolderPlacesNext ==
  ASSUME TypeInv', NEW t \in Threads, pc'[t] # "idle"
  PROVE  Putting' = Range(item'[t]) /\ Pending' = Range(job'[t])
<1>1. \A u \in Threads : u # t => item'[u] = <<>> /\ job'[u] = <<>>
  BY DEF TypeInv, LockInv, PutPcs
<1>2. QED  BY <1>1, HolderOnly DEF Putting, Pending

\* With the lock free nobody has.
LEMMA FreePlaces ==
  ASSUME TypeInv, lock = NoThread
  PROVE  Putting = {} /\ Pending = {}
<1>1. \A u \in Threads : item[u] = <<>> /\ job[u] = <<>>
  BY ThreadsFacts DEF TypeInv, LockInv, PutPcs
<1>2. QED  BY <1>1, RangeOfEmpty, EmptySeqFacts DEF Putting, Pending

LEMMA FreePlacesNext ==
  ASSUME TypeInv', lock' = NoThread
  PROVE  Putting' = {} /\ Pending' = {}
<1>1. \A u \in Threads : item'[u] = <<>> /\ job'[u] = <<>>
  BY ThreadsFacts DEF TypeInv, LockInv, PutPcs
<1>2. QED  BY <1>1, RangeOfEmpty, EmptySeqFacts DEF Putting, Pending

-----------------------------------------------------------------------------
(* How each step moves events between the places they can be in.           *)

LEMMA BufferMoves ==
  ASSUME TypeInv, TypeInv', NEW t \in Threads, Buffer(t)
  PROVE  \E h \in Pending :
           /\ h = Head(job[t]) /\ Pending' = Range(Tail(job[t])) /\ Pending = Range(job[t])
           /\ Putting = {} /\ Queued' = Queued /\ current' = current
           /\ UNCHANGED <<processed, queue, committed, rows, lost>>
           /\ \/ /\ Putting' = {} /\ batch' = Append(batch, h)
                 /\ Range(batch') = Range(batch) \cup {h} /\ UNCHANGED item
              \/ /\ Putting' = Range(batch) \cup {h} /\ batch' = <<>>
                 /\ item' = [item EXCEPT ![t] = Append(batch, h)]
<1>1. /\ pc[t] = "enqueue" /\ pc'[t] \in {"enqueue", "put"} /\ item[t] = <<>>
      /\ job[t] \in Seq(Nat) /\ job[t] # <<>> /\ batch \in Seq(Nat) /\ job'[t] = Tail(job[t])
  BY DEF Buffer, TypeInv, LockOK, LockInv, JobOK, BatchOK, PutPcs
<1>2. Head(job[t]) \in Range(job[t]) /\ Head(job[t]) \in Nat
  BY <1>1, RangeOfTail
<1>3. /\ Pending = Range(job[t]) /\ Putting = {}
      /\ Pending' = Range(Tail(job[t])) /\ Putting' = Range(item'[t])
  BY <1>1, HolderPlaces, HolderPlacesNext, RangeOfEmpty, EmptySeqFacts
<1>4. Range(Append(batch, Head(job[t]))) = Range(batch) \cup {Head(job[t])}
  BY <1>1, <1>2, RangeOfAppend
<1>5. \/ /\ batch' = Append(batch, Head(job[t])) /\ item' = item
      \/ /\ batch' = <<>> /\ item' = [item EXCEPT ![t] = Append(batch, Head(job[t]))]
  BY DEF Buffer
<1>6. /\ Queued' = Queued
      /\ UNCHANGED <<current, processed, queue, committed, rows, lost>>
  BY DEF Buffer, Queued, EventsOf, table, consumer
<1>7. CASE batch' = Append(batch, Head(job[t])) /\ item' = item
  <2>1. Putting' = {}
    BY <1>1, <1>3, <1>7, RangeOfEmpty, EmptySeqFacts
  <2>2. QED  BY <1>1, <1>2, <1>3, <1>4, <1>6, <1>7, <2>1
<1>8. CASE batch' = <<>> /\ item' = [item EXCEPT ![t] = Append(batch, Head(job[t]))]
  <2>1. Putting' = Range(batch) \cup {Head(job[t])}
    BY <1>3, <1>4, <1>8 DEF TypeInv, ItemOK
  <2>2. QED  BY <1>1, <1>2, <1>3, <1>6, <1>8, <2>1
<1>9. QED  BY <1>5, <1>7, <1>8

\* _flush_batch: before a normal event, or from close.
LEMMA FlushMoves ==
  ASSUME TypeInv, TypeInv', NEW t \in Threads, FlushBatch(t),
         \/ FlushFirst(t)
         \/ t = Main /\ Flush /\ batch # <<>>
  PROVE  /\ Putting = {} /\ Putting' = Range(batch) /\ batch' = <<>> /\ Pending' = Pending
         /\ Queued' = Queued /\ item'[t] = batch
         /\ UNCHANGED <<current, processed, queue, committed, rows, lost, job>>
<1>1. /\ Queued' = Queued
      /\ UNCHANGED <<current, processed, queue, committed, rows, lost, job>>
  BY DEF Flush, FlushFirst, Queued, EventsOf, table, consumer
<1>2. Pending' = Pending
  BY <1>1 DEF Pending
<1>3. item'[t] = batch /\ pc'[t] = "put" /\ batch' = <<>>
  BY DEF FlushBatch, TypeInv, LockOK, ItemOK
<1>4. Putting' = Range(batch)
  BY <1>3, HolderPlacesNext
<1>5. Putting = {}
  <2>1. CASE FlushFirst(t)
    BY <2>1, HolderPlaces, RangeOfEmpty, EmptySeqFacts DEF FlushFirst, TypeInv, LockInv, PutPcs
  <2>2. CASE Flush
    BY <2>2, FreePlaces DEF Flush, LockFree
  <2>3. QED  BY <2>1, <2>2
<1>6. QED  BY <1>1, <1>2, <1>3, <1>4, <1>5

LEMMA NormalMoves ==
  ASSUME TypeInv, TypeInv', NEW t \in Threads, EnqueueNormal(t)
  PROVE  \E h \in Pending :
           /\ h = Head(job[t]) /\ Pending' = Range(Tail(job[t])) /\ Pending = Range(job[t])
           /\ Putting = {} /\ Putting' = {h} /\ batch = <<>> /\ Queued' = Queued
           /\ item' = [item EXCEPT ![t] = <<h>>]
           /\ UNCHANGED <<current, processed, queue, batch, committed, rows, lost>>
<1>1. /\ pc[t] = "enqueue" /\ pc'[t] = "put" /\ item[t] = <<>> /\ batch = <<>>
      /\ job[t] \in Seq(Nat) /\ job[t] # <<>> /\ job'[t] = Tail(job[t])
      /\ item' = [item EXCEPT ![t] = <<Head(job[t])>>] /\ item'[t] = <<Head(job[t])>>
  BY DEF EnqueueNormal, NoPendingBatch, TypeInv, LockOK, LockInv, JobOK, ItemOK, PutPcs
<1>2. Head(job[t]) \in Range(job[t]) /\ Head(job[t]) \in Nat
  BY <1>1, RangeOfTail
<1>3. /\ Pending = Range(job[t]) /\ Putting = {}
      /\ Pending' = Range(Tail(job[t])) /\ Putting' = Range(<<Head(job[t])>>)
  BY <1>1, HolderPlaces, HolderPlacesNext, RangeOfEmpty, EmptySeqFacts
<1>4. Range(<<Head(job[t])>>) = {Head(job[t])}
  BY DEF Range
<1>5. /\ Queued' = Queued
      /\ UNCHANGED <<current, processed, queue, batch, committed, rows, lost>>
  BY DEF EnqueueNormal, Queued, EventsOf, table, consumer
<1>6. QED  BY <1>1, <1>2, <1>3, <1>4, <1>5

LEMMA DeliverMoves ==
  ASSUME TypeInv, TypeInv', NEW t \in Threads, pc[t] \in PutPcs, Deliver(t),
         UNCHANGED <<table, lock, job, batch, consumer, shutdown, lost>>
  PROVE  /\ Queued' = Queued \cup Putting /\ Putting' = {} /\ Putting = Range(item[t])
         /\ Pending' = Pending
<1>1. /\ item[t] \in Seq(Nat) /\ queue \in Seq(Seq(Nat)) /\ pc[t] # "idle"
      /\ pc'[t] = "enqueue" /\ item'[t] = <<>>
  BY DEF Deliver, TypeInv, ItemOK, QueueOK, LockOK, PutPcs
<1>2. Putting = Range(item[t]) /\ Putting' = {}
  BY <1>1, HolderPlaces, HolderPlacesNext, RangeOfEmpty, EmptySeqFacts
<1>3. Queued' = Queued \cup Range(item[t])
  BY <1>1, EventsOfAppend DEF Deliver, Queued
<1>4. Pending' = Pending
  BY DEF Pending
<1>5. QED  BY <1>2, <1>3, <1>4

LEMMA EvictMoves ==
  ASSUME TypeInv, NEW t \in Threads, Evict(t)
  PROVE  /\ Queued' \subseteq Queued /\ queue' = IF queue = <<>> THEN queue ELSE Tail(queue)
         /\ Putting' = Putting /\ Pending' = Pending
         /\ UNCHANGED <<current, processed, batch, committed, rows, item, job>>
         /\ lost' = lost \cup (IF queue = <<>> THEN {} ELSE Range(Head(queue)))
<1>1. UNCHANGED <<current, processed, batch, committed, rows, item, job>>
  BY DEF Evict, table, consumer
<1>2. Putting' = Putting /\ Pending' = Pending
  BY <1>1 DEF Putting, Pending
<1>3. CASE queue = <<>>
  BY <1>1, <1>2, <1>3 DEF Evict, Queued, EventsOf
<1>4. CASE queue # <<>>
  <2>1. queue' = Tail(queue) /\ queue \in Seq(Seq(Nat)) /\ lost' = lost \cup Range(Head(queue))
    BY <1>4 DEF Evict, TypeInv, QueueOK
  <2>2. Queued' \subseteq Queued
    BY <1>4, <2>1, EventsOfTail DEF Queued
  <2>3. QED  BY <1>1, <1>2, <1>4, <2>1, <2>2
<1>5. QED  BY <1>3, <1>4

LEMMA ConsumeMoves ==
  ASSUME TypeInv, Consume, queue # <<>>
  PROVE  /\ Range(current) = {} /\ Range(current') \cup Queued' = Queued
         /\ current' = Head(queue) /\ queue' = Tail(queue)
         /\ Putting' = Putting /\ Pending' = Pending
         /\ UNCHANGED <<processed, batch, committed, rows, item, job, pc, lost>>
<1>1. /\ current' = Head(queue) /\ queue' = Tail(queue) /\ queue \in Seq(Seq(Nat))
      /\ UNCHANGED <<processed, batch, committed, rows, item, job, pc, lost>>
      /\ current = <<>>
  BY DEF Consume, TypeInv, QueueOK, BusyInv, table, putting
<1>2. Range(current') \cup Queued' = Queued
  BY <1>1, EventsOfTail DEF Queued
<1>3. QED  BY <1>1, <1>2, RangeOfEmpty DEF Putting, Pending

LEMMA ProcessMoves ==
  ASSUME TypeInv, ProcessEvent
  PROVE  \E h \in Range(current) :
           /\ h = Head(current) /\ current' = Tail(current) /\ processed' = processed \cup {h}
           /\ Range(current) = {h} \cup Range(current') /\ current # <<>>
           /\ Queued' = Queued /\ Putting' = Putting /\ Pending' = Pending
           /\ UNCHANGED <<queue, batch, committed, rows, item, job, pc, lost>>
<1>1. /\ current' = Tail(current) /\ processed' = processed \cup {Head(current)}
      /\ current # <<>> /\ current \in Seq(Nat)
      /\ UNCHANGED <<queue, batch, committed, rows, item, job, pc, lost>>
  BY DEF ProcessEvent, TypeInv, LoopOK, BusyInv, table, putting
<1>2. Head(current) \in Range(current) /\ Range(current) = {Head(current)} \cup Range(Tail(current))
  BY <1>1, RangeOfTail
<1>3. QED  BY <1>1, <1>2 DEF Queued, EventsOf, Putting, Pending

LEMMA PublishDurableInv ==
  ASSUME TypeInv, TypeInv', DurableInv, NEW t \in Threads, PublishStep(t)
  PROVE  DurableInv'
<1> USE DEF DurableInv, DurableBeforeDelivered
<1>0. committed \in Nat /\ Len(rows) \in Nat /\ committed <= Len(rows)
  BY LenProperties DEF TypeInv, TableOK
<1>a. ASSUME NEW S, S = Pending, pc[t] # "commit", pc[t] # "idle"  PROVE S \subseteq 1..committed
  BY <1>a, HolderPlaces DEF PendingInv
<1>b. ASSUME Pending' \subseteq 1..committed, committed' = committed
      PROVE  PendingInv' \/ \E u \in Threads : pc'[u] = "commit"
  BY <1>b DEF PendingInv, Pending
<1>c. ASSUME UNCHANGED <<job, committed, rows>>, pc[t] # "commit", pc'[t] # "commit",
             \A u \in Threads : u # t => pc'[u] = pc[u]
      PROVE  PendingInv'
  BY <1>c DEF PendingInv
<1>1. CASE Commit(t)
  <2>1. DurableBeforeDelivered'
    BY <1>0, <1>1 DEF Commit, Queued, EventsOf, Putting, consumer
  <2>2. PendingInv'
    <3> SUFFICES ASSUME NEW u \in Threads
                 PROVE  Range(job'[u]) \subseteq
                          IF pc'[u] = "commit" THEN (committed' + 1)..Len(rows') ELSE 1..committed'
      BY DEF PendingInv
    <3>1. CASE u = t
      BY <1>0, <1>1, <3>1 DEF Commit, PendingInv, TypeInv, LockOK
    <3>2. CASE u # t
      <4>1. job'[u] = <<>>
        BY <1>1, <3>2 DEF Commit, TypeInv, LockInv
      <4>2. QED  BY <4>1, RangeOfEmpty
    <3>3. QED  BY <3>1, <3>2
  <2>3. QED  BY <2>1, <2>2
<1>2. CASE CommitFails(t)
  <2>1. DurableBeforeDelivered'
    BY <1>2 DEF CommitFails, Queued, EventsOf, Putting, table, consumer
  <2>2. \A u \in Threads : job'[u] = <<>>
    BY <1>2, ThreadsFacts DEF CommitFails, TypeInv, LockInv, JobOK
  <2>3. PendingInv'
    BY <2>2, RangeOfEmpty DEF PendingInv
  <2>4. QED  BY <2>1, <2>3
<1>d. ASSUME NEW h \in Pending, h = Head(job[t]), pc[t] = "enqueue", committed' = committed,
             job' = [job EXCEPT ![t] = Tail(@)], job[t] # <<>>, rows' = rows,
             pc' = pc \/ pc' = [pc EXCEPT ![t] = "put"]
      PROVE  h \in 1..committed /\ PendingInv'
  <2>1. h \in Range(job[t]) /\ Range(job[t]) \subseteq 1..committed /\ job[t] \in Seq(Nat)
    BY <1>d, HolderPlaces DEF PendingInv, TypeInv, JobOK
  <2>2. Range(Tail(job[t])) \subseteq 1..committed
    BY <1>d, <2>1, RangeOfTail
  <2>3. PendingInv'
    BY <1>d, <2>2 DEF PendingInv, TypeInv, JobOK, LockOK
  <2>4. QED  BY <2>1, <2>3
<1>3. CASE Buffer(t)
  <2>1. PICK h \in Pending :
           /\ h = Head(job[t]) /\ Queued' = Queued /\ current' = current
           /\ UNCHANGED <<processed, committed, rows>>
           /\ \/ Putting' = {} /\ Range(batch') = Range(batch) \cup {h}
              \/ Putting' = Range(batch) \cup {h} /\ batch' = <<>>
    BY <1>3, BufferMoves
  <2>2. h \in 1..committed /\ PendingInv'
    BY <1>3, <1>d, <2>1 DEF Buffer
  <2>3. DurableBeforeDelivered'
    BY <2>1, <2>2, RangeOfEmpty
  <2>4. QED  BY <2>2, <2>3
<1>4. CASE FlushFirst(t)
  <2>1. DurableBeforeDelivered'
    BY <1>4, FlushMoves, RangeOfEmpty DEF FlushFirst
  <2>2. PendingInv'
    BY <1>4, <1>c DEF FlushFirst, FlushBatch, table, TypeInv, LockOK
  <2>3. QED  BY <2>1, <2>2
<1>5. CASE EnqueueNormal(t)
  <2>1. PICK h \in Pending :
           /\ h = Head(job[t]) /\ Putting' = {h} /\ Queued' = Queued
           /\ UNCHANGED <<current, processed, batch, committed, rows>>
    BY <1>5, NormalMoves
  <2>2. h \in 1..committed /\ PendingInv'
    BY <1>5, <1>d, <2>1 DEF EnqueueNormal
  <2>3. DurableBeforeDelivered'
    BY <2>1, <2>2
  <2>4. QED  BY <2>2, <2>3
<1>6. CASE Release(t)
  <2>1. DurableBeforeDelivered'
    BY <1>6 DEF Release, Queued, EventsOf, Putting, table, consumer
  <2>2. PendingInv'
    BY <1>6, <1>c DEF Release, table, TypeInv, LockOK
  <2>3. QED  BY <2>1, <2>2
<1>7. ASSUME pc[t] \in PutPcs, Deliver(t),
             UNCHANGED <<table, lock, job, batch, consumer, shutdown, lost>>
      PROVE  DurableInv'
  <2>1. DurableBeforeDelivered'
    BY <1>7, DeliverMoves DEF table, consumer
  <2>2. PendingInv'
    BY <1>7, <1>c DEF Deliver, table, TypeInv, LockOK, PutPcs
  <2>3. QED  BY <2>1, <2>2
<1>8. CASE Put(t)
  <2>1. CASE Room
    BY <1>7, <1>8, <2>1 DEF Put, PutPcs
  <2>2. CASE ~Room
    <3>1. DurableBeforeDelivered'
      BY <1>8, <2>2 DEF Put, Queued, EventsOf, Putting, table, consumer
    <3>2. PendingInv'
      BY <1>8, <1>c, <2>2 DEF Put, table, TypeInv, LockOK, PutPcs
    <3>3. QED  BY <3>1, <3>2
  <2>3. QED  BY <2>1, <2>2
<1>9. CASE Evict(t)
  <2>1. DurableBeforeDelivered'
    BY <1>9, EvictMoves
  <2>2. PendingInv'
    BY <1>9, <1>c DEF Evict, table, TypeInv, LockOK, PutPcs
  <2>3. QED  BY <2>1, <2>2
<1>10. CASE Reput(t)
  BY <1>7, <1>10 DEF Reput, TypeInv, NewestIsNeverDropped, PutPcs
<1>11. QED
  BY <1>1, <1>2, <1>3, <1>4, <1>5, <1>6, <1>8, <1>9, <1>10 DEF PublishStep

LEMMA OtherDurableInv ==
  ASSUME TypeInv, TypeInv', DurableInv, ConsumerStep \/ StopConsumer \/ Flush \/ CloseDb \/ Restart
  PROVE  DurableInv'
<1> USE DEF DurableInv, DurableBeforeDelivered
<1>a. ASSUME UNCHANGED <<job, committed, rows, pc>>  PROVE PendingInv'
  BY <1>a DEF PendingInv
<1>1. CASE CheckStop \/ EndChecks \/ StopConsumer
  BY <1>1, <1>a
  DEF CheckStop, EndChecks, StopConsumer, Queued, EventsOf, Putting, table, putting, consumer
<1>2. CASE Consume
  <2>1. CASE queue = <<>>
    BY <1>2, <1>a, <2>1 DEF Consume, Queued, EventsOf, Putting, table, putting
  <2>2. CASE queue # <<>>
    <3>1. DurableBeforeDelivered'
      BY <1>2, <2>2, ConsumeMoves
    <3>2. PendingInv'
      BY <1>2, <1>a, <2>2, ConsumeMoves
    <3>3. QED  BY <3>1, <3>2
  <2>3. QED  BY <2>1, <2>2
<1>3. CASE ProcessEvent
  BY <1>3, <1>a, ProcessMoves
<1>4. CASE ProcessEventRaises
  <2>1. Range(current') = {}
    BY <1>4, RangeOfEmpty DEF ProcessEventRaises
  <2>2. QED  BY <1>4, <1>a, <2>1 DEF ProcessEventRaises, Queued, EventsOf, Putting, table, putting
<1>5. CASE Flush
  <2>1. CASE batch = <<>>
    BY <1>5, <1>a, <2>1 DEF Flush, Queued, EventsOf, Putting, table, putting, consumer
  <2>2. CASE batch # <<>>
    <3>1. FlushBatch(Main) /\ Main \in Threads
      BY <1>5, <2>2, ThreadsFacts DEF Flush
    <3>2. DurableBeforeDelivered'
      BY <1>5, <2>2, <3>1, FlushMoves, RangeOfEmpty
    <3>3. /\ UNCHANGED <<job, committed, rows>> /\ \A u \in Threads : u # Main => pc'[u] = pc[u]
          /\ pc'[Main] # "commit" /\ pc[Main] # "commit"
      BY <1>5, <2>2, <3>1, ThreadsFacts
         DEF Flush, FlushBatch, LockFree, table, TypeInv, LockOK, LockInv
    <3>4. PendingInv'
      BY <3>3 DEF PendingInv
    <3>5. QED  BY <3>2, <3>4
  <2>3. QED  BY <2>1, <2>2
<1>6. CASE CloseDb
  <2>1. DurableBeforeDelivered'
    BY <1>6 DEF CloseDb, Queued, EventsOf, Putting, putting, consumer
  <2>2. \A u \in Threads : job'[u] = <<>>
    BY <1>6, ThreadsFacts DEF CloseDb, LockFree, putting, TypeInv, LockInv
  <2>3. PendingInv'
    BY <2>2, RangeOfEmpty DEF PendingInv
  <2>4. QED  BY <2>1, <2>3
<1>7. CASE Restart
  <2>1. Putting' = {} /\ Queued' = {} /\ Range(batch') = {} /\ Range(current') = {}
    BY <1>7, RangeOfEmpty, EmptySeqFacts DEF Restart, Putting, Queued, EventsOf
  <2>2. processed' = processed /\ committed' = committed
    BY <1>7 DEF Restart
  <2>3. PendingInv'
    BY <1>7, RangeOfEmpty DEF Restart, PendingInv
  <2>4. QED  BY <2>1, <2>2, <2>3
<1>8. QED  BY <1>1, <1>2, <1>3, <1>4, <1>5, <1>6, <1>7 DEF ConsumerStep

LEMMA NextDurableInv == TypeInv /\ TypeInv' /\ DurableInv /\ [Next]_vars => DurableInv'
<1>1. ASSUME DurableInv, UNCHANGED vars  PROVE DurableInv'
  BY <1>1 DEF DurableInv, DurableBeforeDelivered, PendingInv, vars, table, putting, consumer,
              Queued, EventsOf, Putting
<1>2. QED  BY <1>1, InsertDurableInv, PublishDurableInv, OtherDurableInv DEF Next

\* What the detectors see has been committed to events.db.
THEOREM Durability == Spec => []DurableBeforeDelivered
<1>1. DurableInv => DurableBeforeDelivered
  BY DEF DurableInv
<1>2. QED
  BY <1>1, InitTypeInv, NextTypeInv, InitDurableInv, NextDurableInv, PTL DEF Spec

-----------------------------------------------------------------------------
(* Order.  Chain is the part of InOrder that is about the places, Ascending *)
(* the part that is about the order inside one.                             *)

Chain(p, c, q, i, b, j) ==
  /\ Before(p, c \cup q \cup i \cup b \cup j) /\ Before(c, q \cup i \cup b \cup j)
  /\ Before(q, i \cup b \cup j) /\ Before(i, b \cup j) /\ Before(b, j)

PlacesInOrder == Chain(processed, Range(current), Queued, Putting, Range(batch), Pending)

HandsAscend == \A t \in Threads : Ascending(item[t]) /\ Ascending(job[t])

OrderInv == /\ PlacesInOrder /\ HandsAscend
            /\ Ascending(current) /\ Ascending(batch) /\ QueueAscends(queue)

LEMMA OrderInvInOrder == OrderInv => InOrder
BY DEF OrderInv, PlacesInOrder, Chain, InOrder

LEMMA AscendingTail ==
  ASSUME NEW s \in Seq(Nat), s # <<>>, Ascending(s)
  PROVE  Ascending(Tail(s)) /\ Before({Head(s)}, Range(Tail(s)))
<1>1. /\ DOMAIN s = 1..Len(s) /\ Len(s) \in Nat /\ DOMAIN Tail(s) = 1..Len(Tail(s))
      /\ Len(Tail(s)) = Len(s) - 1 /\ Len(s) # 0 /\ Head(s) = s[1]
      /\ \A i \in 1..Len(Tail(s)) : Tail(s)[i] = s[i + 1]
  BY HeadTailProperties, LenProperties, EmptySeq
<1>2. \A i \in 1..Len(Tail(s)) : i + 1 \in 1..Len(s) /\ 1 \in 1..Len(s) /\ 1 < i + 1
  BY <1>1
<1>3. Ascending(Tail(s))
  BY <1>1, <1>2 DEF Ascending
<1>4. ASSUME NEW x \in Range(Tail(s))  PROVE Head(s) < x
  <2>1. PICK i \in 1..Len(Tail(s)) : x = Tail(s)[i]
    BY <1>1 DEF Range
  <2>2. QED  BY <1>1, <1>2, <2>1 DEF Ascending
<1>5. QED  BY <1>3, <1>4 DEF Before

LEMMA AscendingAppend ==
  ASSUME NEW s \in Seq(Nat), Ascending(s), NEW e \in Nat, Before(Range(s), {e})
  PROVE  Ascending(Append(s, e))
<1>1. /\ DOMAIN s = 1..Len(s) /\ Len(s) \in Nat
      /\ DOMAIN Append(s, e) = 1..(Len(s) + 1) /\ Append(s, e)[Len(s) + 1] = e
      /\ \A i \in 1..Len(s) : Append(s, e)[i] = s[i] /\ s[i] \in Range(s)
  BY AppendProperties, LenProperties DEF Range
<1>2. ASSUME NEW i \in 1..(Len(s) + 1), NEW j \in 1..(Len(s) + 1), i < j
      PROVE  Append(s, e)[i] < Append(s, e)[j]
  <2>1. i \in 1..Len(s) /\ (j \in 1..Len(s) \/ j = Len(s) + 1)
    BY <1>1, <1>2
  <2>2. CASE j \in 1..Len(s)
    BY <1>1, <1>2, <2>1, <2>2 DEF Ascending
  <2>3. CASE j = Len(s) + 1
    BY <1>1, <2>1, <2>3 DEF Before
  <2>4. QED  BY <2>1, <2>2, <2>3
<1>3. QED  BY <1>1, <1>2 DEF Ascending

LEMMA QueueAscendsTail ==
  ASSUME NEW q \in Seq(Seq(Nat)), q # <<>>, QueueAscends(q)
  PROVE  /\ QueueAscends(Tail(q)) /\ Ascending(Head(q))
         /\ Before(Range(Head(q)), EventsOf(Tail(q)))
<1>1. /\ DOMAIN q = 1..Len(q) /\ Len(q) \in Nat /\ DOMAIN Tail(q) = 1..Len(Tail(q))
      /\ Len(Tail(q)) = Len(q) - 1 /\ Len(q) # 0 /\ Head(q) = q[1]
      /\ \A i \in 1..Len(Tail(q)) : Tail(q)[i] = q[i + 1]
  BY HeadTailProperties, LenProperties, EmptySeq
<1>2. \A i \in 1..Len(Tail(q)) : i + 1 \in 1..Len(q) /\ 1 < i + 1
  BY <1>1
<1>3. 1 \in 1..Len(q)
  BY <1>1
<1>4. Ascending(Head(q))
  BY <1>1, <1>3 DEF QueueAscends
<1>5. ASSUME NEW i \in 1..Len(Tail(q)), NEW j \in 1..Len(Tail(q)), i < j
      PROVE  Before(Range(Tail(q)[i]), Range(Tail(q)[j]))
  <2>1. i + 1 < j + 1 /\ i + 1 \in DOMAIN q /\ j + 1 \in DOMAIN q
    BY <1>1, <1>2, <1>5
  <2>2. Before(Range(q[i + 1]), Range(q[j + 1]))
    BY <2>1 DEF QueueAscends
  <2>3. QED  BY <1>1, <2>2
<1>6. \A i \in 1..Len(Tail(q)) : Ascending(Tail(q)[i])
  BY <1>1, <1>2 DEF QueueAscends
<1>7. QueueAscends(Tail(q))
  BY <1>1, <1>5, <1>6 DEF QueueAscends
<1>8. ASSUME NEW x \in Range(Head(q)), NEW y \in EventsOf(Tail(q))  PROVE x < y
  <2>1. PICK i \in 1..Len(Tail(q)) : y \in Range(Tail(q)[i])
    BY <1>1 DEF EventsOf
  <2>2. y \in Range(q[i + 1]) /\ Before(Range(q[1]), Range(q[i + 1]))
    BY <1>1, <1>2, <1>3, <2>1 DEF QueueAscends
  <2>3. QED  BY <1>1, <1>8, <2>2 DEF Before
<1>9. QED  BY <1>4, <1>7, <1>8 DEF Before

LEMMA QueueAscendsAppend ==
  ASSUME NEW q \in Seq(Seq(Nat)), NEW d \in Seq(Nat), QueueAscends(q), Ascending(d),
         Before(EventsOf(q), Range(d))
  PROVE  QueueAscends(Append(q, d))
<1>1. /\ DOMAIN q = 1..Len(q) /\ Len(q) \in Nat
      /\ DOMAIN Append(q, d) = 1..(Len(q) + 1) /\ Append(q, d)[Len(q) + 1] = d
      /\ \A i \in 1..Len(q) : Append(q, d)[i] = q[i]
  BY AppendProperties, LenProperties
<1>2. \A i \in 1..(Len(q) + 1) : i \in 1..Len(q) \/ i = Len(q) + 1
  BY <1>1
<1>3. \A i \in 1..(Len(q) + 1) : Ascending(Append(q, d)[i])
  BY <1>1, <1>2 DEF QueueAscends
<1>4. ASSUME NEW i \in 1..(Len(q) + 1), NEW j \in 1..(Len(q) + 1), i < j
      PROVE  Before(Range(Append(q, d)[i]), Range(Append(q, d)[j]))
  <2>1. i \in 1..Len(q)
    BY <1>1, <1>4
  <2>2. CASE j \in 1..Len(q)
    BY <1>1, <1>4, <2>1, <2>2 DEF QueueAscends
  <2>3. CASE j = Len(q) + 1
    <3>1. Range(q[i]) \subseteq EventsOf(q)
      BY <1>1, <2>1 DEF EventsOf
    <3>2. QED  BY <1>1, <2>1, <2>3, <3>1 DEF Before
  <2>4. QED  BY <1>2, <2>2, <2>3
<1>5. QED  BY <1>1, <1>3, <1>4 DEF QueueAscends

\* The oldest pending event joins the batch, which stays or is delivered.
LEMMA ChainBuffer ==
  ASSUME NEW p, NEW c, NEW q, NEW b, NEW j, NEW h \in j, NEW j2, j2 \subseteq j,
         Before({h}, j2), Chain(p, c, q, {}, b, j)
  PROVE  Chain(p, c, q, {}, b \cup {h}, j2) /\ Chain(p, c, q, b \cup {h}, {}, j2)
<1>1. /\ Before(p, c \cup q \cup (b \cup {h}) \cup j2) /\ Before(c, q \cup (b \cup {h}) \cup j2)
      /\ Before(q, (b \cup {h}) \cup j2)
  BY DEF Chain, Before
<1>2. Before(b \cup {h}, j2)
  BY DEF Chain, Before
<1>3. QED  BY <1>1, <1>2 DEF Chain, Before

LEMMA EmptyAscends == Ascending(<<>>) /\ QueueAscends(<<>>)
BY EmptySeqFacts DEF Ascending, QueueAscends

LEMMA InitOrderInv == Init => OrderInv
<1>1. Range(<<>>) = {} /\ EventsOf(<<>>) = {}
  BY RangeOfEmpty, EmptySeqFacts DEF EventsOf
<1>2. Init => Putting = {} /\ Pending = {}
  BY <1>1 DEF Init, Putting, Pending
<1>3. Init => PlacesInOrder
  BY <1>1, <1>2 DEF Init, PlacesInOrder, Chain, Before, Queued
<1>4. Init => HandsAscend
  BY EmptyAscends DEF Init, HandsAscend
<1>5. QED  BY <1>3, <1>4, EmptyAscends DEF Init, OrderInv

LEMMA InsertOrderInv ==
  ASSUME TypeInv, TypeInv', DurableInv, OrderInv,
         NEW t \in Threads, NEW kinds \in Calls, Insert(t, kinds)
  PROVE  OrderInv'
<1> DEFINE new == [i \in 1..Len(kinds) |-> Len(rows) + i]
<1>1. /\ Len(rows) \in Nat /\ Len(kinds) \in Nat /\ committed \in Nat /\ committed <= Len(rows)
  BY CallsAssumption, LenProperties DEF TypeInv, TableOK
<1>2. /\ UNCHANGED <<processed, current, queue, batch, item>>
      /\ job' = [job EXCEPT ![t] = new] /\ pc'[t] = "commit" /\ lock = NoThread
  BY DEF Insert, LockFree, consumer, TypeInv, LockOK
<1>3. Putting = {} /\ Pending = {}
  BY <1>2, FreePlaces
<1>4. Putting' = {} /\ Queued' = Queued
  BY <1>2, <1>3 DEF Putting, Queued, EventsOf
<1>5. job'[t] = new
  BY <1>2 DEF TypeInv, JobOK
<1>6. Pending' = Range(new)
  BY <1>2, <1>5, HolderPlacesNext
<1>7. ASSUME NEW x \in 1..committed, NEW y \in Range(new)  PROVE x < y
  <2>1. PICK i \in 1..Len(kinds) : y = Len(rows) + i
    BY DEF Range
  <2>2. QED  BY <1>1, <2>1
<1> HIDE DEF new
<1>8. PlacesInOrder'
  BY <1>2, <1>3, <1>4, <1>6, <1>7
     DEF OrderInv, PlacesInOrder, Chain, Before, DurableInv, DurableBeforeDelivered
<1>9. Ascending(new)
  BY <1>1 DEF Ascending, new
<1>10. HandsAscend'
  BY <1>2, <1>9 DEF OrderInv, HandsAscend, TypeInv, JobOK
<1>11. QED  BY <1>2, <1>8, <1>10 DEF OrderInv

\* Taking the head of what a publisher has to enqueue.
LEMMA HeadOfJob ==
  ASSUME TypeInv, OrderInv, NEW t \in Threads, job[t] # <<>>
  PROVE  /\ Before({Head(job[t])}, Range(Tail(job[t]))) /\ Ascending(Tail(job[t]))
         /\ Range(Tail(job[t])) \subseteq Range(job[t]) /\ Head(job[t]) \in Nat
BY AscendingTail, RangeOfTail DEF OrderInv, HandsAscend, TypeInv, JobOK

LEMMA DeliverOrderInv ==
  ASSUME TypeInv, TypeInv', OrderInv, NEW t \in Threads, pc[t] \in PutPcs, Deliver(t),
         UNCHANGED <<table, lock, job, batch, consumer, shutdown, lost>>
  PROVE  OrderInv'
<1>1. /\ Queued' = Queued \cup Putting /\ Putting' = {} /\ Putting = Range(item[t])
      /\ Pending' = Pending /\ queue' = Append(queue, item[t])
      /\ item' = [item EXCEPT ![t] = <<>>]
      /\ UNCHANGED <<job, batch, current, processed>>
  BY DeliverMoves DEF Deliver, consumer
<1>2. PlacesInOrder'
  BY <1>1 DEF OrderInv, PlacesInOrder, Chain, Before
<1>3. QueueAscends(queue')
  <2>1. Before(EventsOf(queue), Range(item[t])) /\ Ascending(item[t]) /\ QueueAscends(queue)
    BY <1>1 DEF OrderInv, PlacesInOrder, Chain, Before, Queued, HandsAscend
  <2>2. queue \in Seq(Seq(Nat)) /\ item[t] \in Seq(Nat)
    BY DEF TypeInv, QueueOK, ItemOK
  <2>3. QED  BY <1>1, <2>1, <2>2, QueueAscendsAppend
<1>4. HandsAscend'
  BY <1>1, EmptyAscends DEF OrderInv, HandsAscend, TypeInv, ItemOK
<1>5. QED  BY <1>1, <1>2, <1>3, <1>4 DEF OrderInv

LEMMA PublishOrderInv ==
  ASSUME TypeInv, TypeInv', OrderInv, NEW t \in Threads, PublishStep(t)
  PROVE  OrderInv'
<1>a. ASSUME UNCHANGED <<processed, current, queue, item, batch, job>>  PROVE OrderInv'
  BY <1>a DEF OrderInv, PlacesInOrder, HandsAscend, Queued, EventsOf, Putting, Pending
<1>1. CASE Commit(t) \/ Release(t)
  BY <1>1, <1>a DEF Commit, Release, consumer
<1>2. CASE CommitFails(t)
  <2>1. UNCHANGED <<processed, current, queue, item, batch>> /\ job' = [job EXCEPT ![t] = <<>>]
    BY <1>2 DEF CommitFails, consumer
  <2>2. Pending' = {} /\ Putting' = Putting /\ Queued' = Queued
    BY <1>2, <2>1, FreePlacesNext DEF CommitFails, Putting, Queued, EventsOf
  <2>3. PlacesInOrder'
    BY <2>1, <2>2 DEF OrderInv, PlacesInOrder, Chain, Before
  <2>4. HandsAscend'
    BY <2>1, EmptyAscends DEF OrderInv, HandsAscend, TypeInv, JobOK
  <2>5. QED  BY <2>1, <2>3, <2>4 DEF OrderInv
<1>3. CASE Buffer(t)
  <2>1. PICK h \in Pending :
           /\ h = Head(job[t]) /\ Pending' = Range(Tail(job[t])) /\ Pending = Range(job[t])
           /\ Putting = {} /\ Queued' = Queued /\ current' = current
           /\ UNCHANGED <<processed, queue>>
           /\ \/ /\ Putting' = {} /\ batch' = Append(batch, h)
                 /\ Range(batch') = Range(batch) \cup {h} /\ UNCHANGED item
              \/ /\ Putting' = Range(batch) \cup {h} /\ batch' = <<>>
                 /\ item' = [item EXCEPT ![t] = Append(batch, h)]
    BY <1>3, BufferMoves
  <2>2. /\ Before({h}, Pending') /\ Pending' \subseteq Pending /\ h \in Nat
        /\ Ascending(Tail(job[t]))
    BY <1>3, <2>1, HeadOfJob DEF Buffer
  <2>3. Ascending(Append(batch, h))
    <3>1. Before(Range(batch), {h}) /\ Ascending(batch) /\ batch \in Seq(Nat)
      BY <2>1 DEF OrderInv, PlacesInOrder, Chain, Before, TypeInv, BatchOK
    <3>2. QED  BY <2>2, <3>1, AscendingAppend
  <2>4. PlacesInOrder'
    <3>0. /\ Chain(processed, Range(current), Queued, {}, Range(batch) \cup {h}, Pending')
          /\ Chain(processed, Range(current), Queued, Range(batch) \cup {h}, {}, Pending')
      BY <2>1, <2>2, ChainBuffer DEF OrderInv, PlacesInOrder
    <3>1. CASE Putting' = {} /\ Range(batch') = Range(batch) \cup {h}
      BY <2>1, <3>0, <3>1 DEF PlacesInOrder
    <3>2. CASE Putting' = Range(batch) \cup {h} /\ batch' = <<>>
      <4>1. Range(batch') = {}
        BY <3>2, RangeOfEmpty
      <4>2. QED  BY <2>1, <3>0, <3>2, <4>1 DEF PlacesInOrder
    <3>3. QED  BY <2>1, <3>1, <3>2
  <2>5. HandsAscend'
    <3>1. job' = [job EXCEPT ![t] = Tail(@)]
      BY <1>3 DEF Buffer
    <3>2. \A u \in Threads : Ascending(job'[u])
      BY <2>2, <3>1 DEF OrderInv, HandsAscend, TypeInv, JobOK
    <3>3. \A u \in Threads : Ascending(item'[u])
      BY <2>1, <2>3 DEF OrderInv, HandsAscend, TypeInv, ItemOK
    <3>4. QED  BY <3>2, <3>3 DEF HandsAscend
  <2>6. Ascending(batch') /\ Ascending(current') /\ QueueAscends(queue')
    BY <2>1, <2>3, EmptyAscends DEF OrderInv
  <2>7. QED  BY <2>4, <2>5, <2>6 DEF OrderInv
<1>4. CASE FlushFirst(t)
  <2>1. /\ Putting = {} /\ Putting' = Range(batch) /\ batch' = <<>> /\ Pending' = Pending
        /\ Queued' = Queued /\ item' = [item EXCEPT ![t] = batch]
        /\ UNCHANGED <<current, processed, queue, job>>
    BY <1>4, FlushMoves DEF FlushFirst, FlushBatch
  <2>2. PlacesInOrder'
    BY <2>1, RangeOfEmpty DEF OrderInv, PlacesInOrder, Chain, Before
  <2>3. HandsAscend'
    BY <2>1 DEF OrderInv, HandsAscend, TypeInv, ItemOK
  <2>4. QED  BY <2>1, <2>2, <2>3, EmptyAscends DEF OrderInv
<1>5. CASE EnqueueNormal(t)
  <2>1. PICK h \in Pending :
           /\ h = Head(job[t]) /\ Pending' = Range(Tail(job[t])) /\ Pending = Range(job[t])
           /\ Putting = {} /\ Putting' = {h} /\ batch = <<>> /\ Queued' = Queued
           /\ item' = [item EXCEPT ![t] = <<h>>]
           /\ UNCHANGED <<current, processed, queue, batch>>
    BY <1>5, NormalMoves
  <2>2. /\ Before({h}, Pending') /\ Pending' \subseteq Pending
        /\ Ascending(Tail(job[t]))
    BY <1>5, <2>1, HeadOfJob DEF EnqueueNormal
  <2>3. Range(batch) = {} /\ Range(batch') = {} /\ Ascending(<<h>>)
    BY <2>1, RangeOfEmpty DEF Ascending
  <2>4. PlacesInOrder'
    BY <2>1, <2>2, <2>3 DEF OrderInv, PlacesInOrder, Chain, Before
  <2>5. HandsAscend'
    <3>1. job' = [job EXCEPT ![t] = Tail(@)]
      BY <1>5 DEF EnqueueNormal
    <3>2. \A u \in Threads : Ascending(job'[u])
      BY <2>2, <3>1 DEF OrderInv, HandsAscend, TypeInv, JobOK
    <3>3. \A u \in Threads : Ascending(item'[u])
      BY <2>1, <2>3 DEF OrderInv, HandsAscend, TypeInv, ItemOK
    <3>4. QED  BY <3>2, <3>3 DEF HandsAscend
  <2>6. QED  BY <2>1, <2>4, <2>5 DEF OrderInv
<1>6. CASE Put(t)
  <2>1. CASE Room
    BY <1>6, <2>1, DeliverOrderInv DEF Put, PutPcs
  <2>2. CASE ~Room
    BY <1>6, <1>a, <2>2 DEF Put, consumer
  <2>3. QED  BY <2>1, <2>2
<1>7. CASE Evict(t)
  <2>1. /\ Queued' \subseteq Queued /\ queue' = IF queue = <<>> THEN queue ELSE Tail(queue)
        /\ Putting' = Putting /\ Pending' = Pending
        /\ UNCHANGED <<current, processed, batch, item, job>>
    BY <1>7, EvictMoves
  <2>2. PlacesInOrder'
    BY <2>1 DEF OrderInv, PlacesInOrder, Chain, Before
  <2>3. QueueAscends(queue')
    BY <2>1, QueueAscendsTail DEF OrderInv, TypeInv, QueueOK
  <2>4. QED  BY <2>1, <2>2, <2>3 DEF OrderInv, HandsAscend
<1>8. CASE Reput(t)
  BY <1>8, DeliverOrderInv DEF Reput, TypeInv, NewestIsNeverDropped, PutPcs
<1>9. QED  BY <1>1, <1>2, <1>3, <1>4, <1>5, <1>6, <1>7, <1>8 DEF PublishStep

LEMMA OtherOrderInv ==
  ASSUME TypeInv, TypeInv', OrderInv, ConsumerStep \/ StopConsumer \/ Flush \/ CloseDb \/ Restart
  PROVE  OrderInv'
<1>a. ASSUME UNCHANGED <<processed, current, queue, item, batch, job>>  PROVE OrderInv'
  BY <1>a DEF OrderInv, PlacesInOrder, HandsAscend, Queued, EventsOf, Putting, Pending
<1>1. CASE CheckStop \/ EndChecks \/ StopConsumer \/ CloseDb
  BY <1>1, <1>a DEF CheckStop, EndChecks, StopConsumer, CloseDb, putting, consumer
<1>2. CASE Consume
  <2>1. CASE queue = <<>>
    BY <1>2, <1>a, <2>1 DEF Consume, putting
  <2>2. CASE queue # <<>>
    <3>1. /\ Range(current) = {} /\ Range(current') \cup Queued' = Queued
          /\ current' = Head(queue) /\ queue' = Tail(queue)
          /\ Putting' = Putting /\ Pending' = Pending
          /\ UNCHANGED <<processed, batch, item, job>>
      BY <1>2, <2>2, ConsumeMoves
    <3>2. QueueAscends(Tail(queue)) /\ Ascending(Head(queue)) /\ Before(Range(current'), Queued')
      BY <2>2, <3>1, QueueAscendsTail DEF OrderInv, TypeInv, QueueOK, Queued
    <3>3. PlacesInOrder'
      BY <3>1, <3>2 DEF OrderInv, PlacesInOrder, Chain, Before
    <3>4. QED  BY <3>1, <3>2, <3>3 DEF OrderInv, HandsAscend
  <2>3. QED  BY <2>1, <2>2
<1>3. CASE ProcessEvent
  <2>1. PICK h \in Range(current) :
           /\ h = Head(current) /\ current' = Tail(current) /\ processed' = processed \cup {h}
           /\ Range(current) = {h} \cup Range(current') /\ current # <<>>
           /\ Queued' = Queued /\ Putting' = Putting /\ Pending' = Pending
           /\ UNCHANGED <<queue, batch, item, job>>
    BY <1>3, ProcessMoves
  <2>2. Ascending(current') /\ Before({h}, Range(current'))
    BY <2>1, AscendingTail DEF OrderInv, TypeInv, LoopOK
  <2>3. PlacesInOrder'
    BY <2>1, <2>2 DEF OrderInv, PlacesInOrder, Chain, Before
  <2>4. QED  BY <2>1, <2>2, <2>3 DEF OrderInv, HandsAscend
<1>4. CASE ProcessEventRaises
  <2>1. /\ current' = <<>> /\ UNCHANGED <<processed, queue, batch, item, job>>
        /\ Range(current') = {}
    BY <1>4, RangeOfEmpty DEF ProcessEventRaises, putting
  <2>2. Queued' = Queued /\ Putting' = Putting /\ Pending' = Pending
    BY <2>1 DEF Queued, EventsOf, Putting, Pending
  <2>3. PlacesInOrder'
    BY <2>1, <2>2 DEF OrderInv, PlacesInOrder, Chain, Before
  <2>4. QED  BY <2>1, <2>3, EmptyAscends DEF OrderInv, HandsAscend
<1>5. CASE Flush
  <2>1. CASE batch = <<>>
    BY <1>5, <1>a, <2>1 DEF Flush, putting, consumer
  <2>2. CASE batch # <<>>
    <3>1. FlushBatch(Main) /\ Main \in Threads
      BY <1>5, <2>2, ThreadsFacts DEF Flush
    <3>2. /\ Putting = {} /\ Putting' = Range(batch) /\ batch' = <<>> /\ Pending' = Pending
          /\ Queued' = Queued /\ item' = [item EXCEPT ![Main] = batch]
          /\ UNCHANGED <<current, processed, queue, job>>
      BY <1>5, <2>2, <3>1, FlushMoves DEF FlushBatch
    <3>3. PlacesInOrder'
      BY <3>2, RangeOfEmpty DEF OrderInv, PlacesInOrder, Chain, Before
    <3>4. HandsAscend'
      BY <3>1, <3>2 DEF OrderInv, HandsAscend, TypeInv, ItemOK
    <3>5. QED  BY <3>2, <3>3, <3>4, EmptyAscends DEF OrderInv
  <2>3. QED  BY <2>1, <2>2
<1>6. CASE Restart
  <2>1. Putting' = {} /\ Queued' = {} /\ Range(batch') = {} /\ Range(current') = {} /\ Pending' = {}
    BY <1>6, RangeOfEmpty, EmptySeqFacts DEF Restart, Putting, Pending, Queued, EventsOf
  <2>2. PlacesInOrder'
    BY <2>1 DEF PlacesInOrder, Chain, Before
  <2>3. HandsAscend'
    BY <1>6, EmptyAscends DEF Restart, HandsAscend
  <2>4. QED  BY <1>6, <2>2, <2>3, EmptyAscends DEF Restart, OrderInv
<1>7. QED  BY <1>1, <1>2, <1>3, <1>4, <1>5, <1>6 DEF ConsumerStep

LEMMA NextOrderInv ==
  TypeInv /\ TypeInv' /\ DurableInv /\ OrderInv /\ [Next]_vars => OrderInv'
<1>1. ASSUME OrderInv, UNCHANGED vars  PROVE OrderInv'
  BY <1>1 DEF OrderInv, PlacesInOrder, HandsAscend, vars, table, putting, consumer,
              Queued, EventsOf, Putting, Pending
<1>2. QED  BY <1>1, InsertOrderInv, PublishOrderInv, OtherOrderInv DEF Next

\* Events reach the detectors in the order of their rows.
THEOREM Ordered == Spec => []InOrder
<1>1. QED
  BY InitTypeInv, NextTypeInv, InitDurableInv, NextDurableInv, InitOrderInv, NextOrderInv,
     OrderInvInOrder, PTL DEF Spec
-----------------------------------------------------------------------------
(* Accounting.  What is on its way is processed later than what has been,  *)
(* so that the two are apart; an event that is lost leaves the one place    *)
(* it was in.                                                               *)

LEMMA BeforeApart ==
  ASSUME NEW S, NEW T, Before(S, T), S \subseteq Nat \/ T \subseteq Nat
  PROVE  S \cap T = {}
BY DEF Before

\* The sets of the places, and what an order of the places says of them.
LEMMA PlacesAreNat ==
  ASSUME TypeInv
  PROVE  /\ Range(current) \subseteq Nat /\ Queued \subseteq Nat /\ Putting \subseteq Nat
         /\ Range(batch) \subseteq Nat /\ Pending \subseteq Nat /\ processed \subseteq Nat
         /\ InMemory \subseteq Nat /\ Len(rows) \in Nat
<1>1. /\ Range(current) \subseteq Nat /\ Range(batch) \subseteq Nat /\ processed \subseteq Nat
      /\ Len(rows) \in Nat
  BY NatSeqFacts, LenProperties DEF TypeInv, LoopOK, BatchOK, TableOK
<1>2. Putting \subseteq Nat /\ Pending \subseteq Nat
  BY NatSeqFacts DEF Putting, Pending, TypeInv, ItemOK, JobOK
<1>3. \A i \in DOMAIN queue : queue[i] \in Seq(Nat)
  BY DEF TypeInv, QueueOK
<1>4. Queued \subseteq Nat
  BY <1>3, NatSeqFacts DEF Queued, EventsOf
<1>5. QED  BY <1>1, <1>2, <1>4 DEF InMemory

\* Nothing moves between the table, the events processed, those on their way and
\* those lost.
LEMMA AccountsStay ==
  ASSUME Conserved, processed' \cup InMemory' = processed \cup InMemory,
         lost' = lost, Len(rows') = Len(rows)
  PROVE  Conserved'
BY DEF Conserved

\* The events X leave memory for the lost ones, and none of them was anywhere else.
LEMMA AccountsLose ==
  ASSUME Conserved, NEW X, InMemory = X \cup InMemory', X \cap (processed \cup InMemory') = {},
         lost' = lost \cup X, processed' = processed, Len(rows') = Len(rows)
  PROVE  Conserved'
BY DEF Conserved

LEMMA InitConserved == Init => Conserved
<1>1. Range(<<>>) = {} /\ EventsOf(<<>>) = {} /\ 1..0 = {}
  BY RangeOfEmpty, EmptySeqFacts DEF EventsOf
<1>2. Init => Putting = {} /\ Pending = {}
  BY <1>1 DEF Init, Putting, Pending
<1>3. QED  BY <1>1, <1>2, EmptySeqFacts DEF Init, Conserved, InMemory, Queued

LEMMA InsertConserved ==
  ASSUME TypeInv, TypeInv', Conserved, NEW t \in Threads, NEW kinds \in Calls, Insert(t, kinds)
  PROVE  Conserved'
<1> DEFINE new == [i \in 1..Len(kinds) |-> Len(rows) + i]
<1>1. /\ Len(rows) \in Nat /\ Len(kinds) \in Nat /\ Len(rows') = Len(rows) + Len(kinds)
  BY CallsAssumption, ConcatProperties, LenProperties DEF TypeInv, TableOK, Insert
<1>2. /\ UNCHANGED <<processed, current, queue, batch, item, lost>>
      /\ job' = [job EXCEPT ![t] = new] /\ pc'[t] = "commit" /\ lock = NoThread
  BY DEF Insert, LockFree, consumer, TypeInv, LockOK
<1>3. Putting = {} /\ Pending = {}
  BY <1>2, FreePlaces
<1>4. Putting' = {} /\ Queued' = Queued
  BY <1>2, <1>3 DEF Putting, Queued, EventsOf
<1>5. job'[t] = new
  BY <1>2 DEF TypeInv, JobOK
<1>6. Pending' = Range(new)
  BY <1>2, <1>5, HolderPlacesNext
<1>7. Range(new) = (Len(rows) + 1)..(Len(rows) + Len(kinds))
  <2>1. ASSUME NEW y \in (Len(rows) + 1)..(Len(rows) + Len(kinds))  PROVE y \in Range(new)
    <3>1. y - Len(rows) \in 1..Len(kinds) /\ y = Len(rows) + (y - Len(rows))
      BY <1>1
    <3>2. QED  BY <3>1 DEF Range
  <2>2. Range(new) \subseteq (Len(rows) + 1)..(Len(rows) + Len(kinds))
    BY <1>1 DEF Range
  <2>3. QED  BY <2>1, <2>2
<1> HIDE DEF new
<1>8. InMemory' = InMemory \cup Range(new)
  BY <1>2, <1>3, <1>4, <1>6 DEF InMemory
<1>9. /\ 1..Len(rows') = 1..Len(rows) \cup Range(new)
      /\ Range(new) \cap 1..Len(rows) = {}
  BY <1>1, <1>7
<1>10. QED  BY <1>2, <1>8, <1>9 DEF Conserved

LEMMA DeliverConserved ==
  ASSUME TypeInv, TypeInv', Conserved, NEW t \in Threads, pc[t] \in PutPcs, Deliver(t),
         UNCHANGED <<table, lock, job, batch, consumer, shutdown, lost>>
  PROVE  Conserved'
<1>1. /\ Queued' = Queued \cup Putting /\ Putting' = {} /\ Pending' = Pending
      /\ UNCHANGED <<batch, current, processed, rows, lost>>
  BY DeliverMoves DEF Deliver, consumer, table
<1>2. InMemory' = InMemory
  BY <1>1 DEF InMemory
<1>3. QED  BY <1>1, <1>2, AccountsStay

\* What is evicted, or left by the consumer, is in no other place.
LEMMA PlacesApart ==
  ASSUME TypeInv, OrderInv
  PROVE  /\ Pending \cap (processed \cup Range(current) \cup Queued \cup Putting \cup Range(batch)) = {}
         /\ Range(current) \cap (processed \cup Queued \cup Putting \cup Range(batch) \cup Pending) = {}
         /\ Queued \cap (processed \cup Range(current) \cup Putting \cup Range(batch) \cup Pending) = {}
         /\ processed \cap InMemory = {}
BY PlacesAreNat, BeforeApart DEF OrderInv, PlacesInOrder, Chain, Before, InMemory

LEMMA PublishConserved ==
  ASSUME TypeInv, TypeInv', OrderInv, Conserved, NEW t \in Threads, PublishStep(t)
  PROVE  Conserved'
<1>a. ASSUME UNCHANGED <<processed, current, queue, item, batch, job, lost, rows>>
      PROVE  Conserved'
  BY <1>a DEF Conserved, InMemory, Queued, EventsOf, Putting, Pending
<1>1. CASE Commit(t) \/ Release(t)
  BY <1>1, <1>a DEF Commit, Release, consumer, table
<1>2. CASE CommitFails(t)
  <2>1. /\ UNCHANGED <<processed, current, queue, item, batch, rows>>
        /\ lost' = lost \cup Range(job[t]) /\ pc[t] # "idle"
    BY <1>2 DEF CommitFails, consumer, table
  <2>2. Pending' = {} /\ Putting' = Putting /\ Queued' = Queued /\ Pending = Range(job[t])
    BY <1>2, <2>1, FreePlacesNext, HolderPlaces DEF CommitFails, Putting, Queued, EventsOf
  <2>3. InMemory = Pending \cup InMemory' /\ Pending \cap (processed \cup InMemory') = {}
    BY <2>1, <2>2, PlacesApart DEF InMemory
  <2>4. QED  BY <2>1, <2>2, <2>3, AccountsLose
<1>3. CASE Buffer(t)
  <2>1. PICK h \in Pending :
           /\ h = Head(job[t]) /\ Pending' = Range(Tail(job[t])) /\ Pending = Range(job[t])
           /\ Putting = {} /\ Queued' = Queued /\ current' = current
           /\ UNCHANGED <<processed, rows, lost>>
           /\ \/ Putting' = {} /\ Range(batch') = Range(batch) \cup {h}
              \/ Putting' = Range(batch) \cup {h} /\ batch' = <<>>
    BY <1>3, BufferMoves
  <2>2. Pending = {h} \cup Pending'
    BY <1>3, <2>1, RangeOfTail DEF Buffer, TypeInv, JobOK
  <2>3. InMemory' = InMemory
    BY <2>1, <2>2, RangeOfEmpty DEF InMemory
  <2>4. QED  BY <2>1, <2>3, AccountsStay
<1>4. CASE FlushFirst(t)
  <2>1. /\ Putting = {} /\ Putting' = Range(batch) /\ batch' = <<>> /\ Pending' = Pending
        /\ Queued' = Queued /\ UNCHANGED <<current, processed, rows, lost>>
    BY <1>4, FlushMoves DEF FlushFirst
  <2>2. InMemory' = InMemory
    BY <2>1, RangeOfEmpty DEF InMemory
  <2>3. QED  BY <2>1, <2>2, AccountsStay
<1>5. CASE EnqueueNormal(t)
  <2>1. PICK h \in Pending :
           /\ h = Head(job[t]) /\ Pending' = Range(Tail(job[t])) /\ Pending = Range(job[t])
           /\ Putting = {} /\ Putting' = {h} /\ Queued' = Queued
           /\ UNCHANGED <<current, processed, batch, rows, lost>>
    BY <1>5, NormalMoves
  <2>2. Pending = {h} \cup Pending'
    BY <1>5, <2>1, RangeOfTail DEF EnqueueNormal, TypeInv, JobOK
  <2>3. InMemory' = InMemory
    BY <2>1, <2>2 DEF InMemory
  <2>4. QED  BY <2>1, <2>3, AccountsStay
<1>6. CASE Put(t)
  <2>1. CASE Room
    BY <1>6, <2>1, DeliverConserved DEF Put, PutPcs
  <2>2. CASE ~Room
    BY <1>6, <1>a, <2>2 DEF Put, consumer, table
  <2>3. QED  BY <2>1, <2>2
<1>7. CASE Evict(t)
  <2>1. /\ Putting' = Putting /\ Pending' = Pending
        /\ queue' = IF queue = <<>> THEN queue ELSE Tail(queue)
        /\ UNCHANGED <<current, processed, batch, item, job, rows>>
        /\ lost' = lost \cup (IF queue = <<>> THEN {} ELSE Range(Head(queue)))
    BY <1>7, EvictMoves
  <2>2. CASE queue = <<>>
    BY <1>a, <2>1, <2>2
  <2>3. CASE queue # <<>>
    <3>1. Range(Head(queue)) \subseteq Queued /\ Queued = Range(Head(queue)) \cup Queued'
      BY <2>1, <2>3, EventsOfTail DEF TypeInv, QueueOK, Queued
    <3>2. Range(Head(queue)) \cap Queued' = {}
      <4>1. Before(Range(Head(queue)), Queued')
        BY <2>1, <2>3, QueueAscendsTail DEF OrderInv, TypeInv, QueueOK, Queued
      <4>2. QED  BY <3>1, <4>1, PlacesAreNat, BeforeApart
    <3>3. /\ InMemory = Range(Head(queue)) \cup InMemory'
          /\ Range(Head(queue)) \cap (processed \cup InMemory') = {}
      BY <2>1, <3>1, <3>2, PlacesApart DEF InMemory
    <3>4. QED  BY <2>1, <2>3, <3>3, AccountsLose
  <2>4. QED  BY <2>2, <2>3
<1>8. CASE Reput(t)
  BY <1>8, DeliverConserved DEF Reput, TypeInv, NewestIsNeverDropped, PutPcs
<1>9. QED  BY <1>1, <1>2, <1>3, <1>4, <1>5, <1>6, <1>7, <1>8 DEF PublishStep

LEMMA OtherConserved ==
  ASSUME TypeInv, TypeInv', DurableInv, OrderInv, Conserved,
         ConsumerStep \/ StopConsumer \/ Flush \/ CloseDb \/ Restart
  PROVE  Conserved'
<1>a. ASSUME UNCHANGED <<processed, current, queue, item, batch, job, lost, rows>>
      PROVE  Conserved'
  BY <1>a DEF Conserved, InMemory, Queued, EventsOf, Putting, Pending
<1>0. /\ committed \in Nat /\ Len(rows) \in Nat /\ committed <= Len(rows)
      /\ Len(SubSeq(rows, 1, committed)) = committed
  BY TruncatedRows, LenProperties DEF TypeInv, TableOK
<1>b. 1..committed \subseteq 1..Len(rows)
  BY <1>0
<1>1. CASE CheckStop \/ EndChecks \/ StopConsumer
  BY <1>1, <1>a DEF CheckStop, EndChecks, StopConsumer, putting, consumer, table
<1>2. CASE Consume
  <2>1. CASE queue = <<>>
    BY <1>2, <1>a, <2>1 DEF Consume, putting, table
  <2>2. CASE queue # <<>>
    <3>1. /\ Range(current) = {} /\ Range(current') \cup Queued' = Queued
          /\ Putting' = Putting /\ Pending' = Pending
          /\ UNCHANGED <<processed, batch, rows, lost>>
      BY <1>2, <2>2, ConsumeMoves
    <3>2. InMemory' = InMemory
      BY <3>1 DEF InMemory
    <3>3. QED  BY <3>1, <3>2, AccountsStay
  <2>3. QED  BY <2>1, <2>2
<1>3. CASE ProcessEvent
  <2>1. PICK h \in Range(current) :
           /\ processed' = processed \cup {h}
           /\ Range(current) = {h} \cup Range(current')
           /\ Queued' = Queued /\ Putting' = Putting /\ Pending' = Pending
           /\ UNCHANGED <<batch, rows, lost>>
    BY <1>3, ProcessMoves
  <2>2. processed' \cup InMemory' = processed \cup InMemory
    BY <2>1 DEF InMemory
  <2>3. QED  BY <2>1, <2>2, AccountsStay
<1>4. CASE ProcessEventRaises
  <2>1. /\ UNCHANGED <<processed, queue, batch, item, job, rows>>
        /\ Range(current') = {} /\ lost' = lost \cup Range(current)
    BY <1>4, RangeOfEmpty DEF ProcessEventRaises, putting, table
  <2>2. Queued' = Queued /\ Putting' = Putting /\ Pending' = Pending
    BY <2>1 DEF Queued, EventsOf, Putting, Pending
  <2>3. /\ InMemory = Range(current) \cup InMemory'
        /\ Range(current) \cap (processed \cup InMemory') = {}
    BY <2>1, <2>2, PlacesApart DEF InMemory
  <2>4. QED  BY <2>1, <2>3, AccountsLose
<1>5. CASE Flush
  <2>1. CASE batch = <<>>
    BY <1>5, <1>a, <2>1 DEF Flush, putting, consumer, table
  <2>2. CASE batch # <<>>
    <3>1. FlushBatch(Main) /\ Main \in Threads
      BY <1>5, <2>2, ThreadsFacts DEF Flush
    <3>2. /\ Putting = {} /\ Putting' = Range(batch) /\ batch' = <<>> /\ Pending' = Pending
          /\ Queued' = Queued /\ UNCHANGED <<current, processed, rows, lost>>
      BY <1>5, <2>2, <3>1, FlushMoves
    <3>3. InMemory' = InMemory
      BY <3>2, RangeOfEmpty DEF InMemory
    <3>4. QED  BY <3>2, <3>3, AccountsStay
  <2>3. QED  BY <2>1, <2>2
<1>6. CASE CloseDb
  <2>1. /\ UNCHANGED <<processed, current, queue, item, batch, job>>
        /\ lost' = lost \cap 1..committed /\ Len(rows') = committed
    BY <1>0, <1>6 DEF CloseDb, putting, consumer
  <2>2. InMemory' = InMemory
    BY <2>1 DEF InMemory, Queued, EventsOf, Putting, Pending
  <2>3. Pending = {}
    BY <1>6, FreePlaces DEF CloseDb, LockFree
  <2>4. processed \cup InMemory \subseteq 1..committed
    BY <2>3 DEF InMemory, DurableInv, DurableBeforeDelivered
  <2>5. QED  BY <1>b, <2>1, <2>2, <2>4 DEF Conserved
<1>7. CASE Restart
  <2>1. Putting' = {} /\ Queued' = {} /\ Range(batch') = {} /\ Range(current') = {} /\ Pending' = {}
    BY <1>7, RangeOfEmpty, EmptySeqFacts DEF Restart, Putting, Pending, Queued, EventsOf
  <2>2. /\ InMemory' = {} /\ processed' = processed /\ Len(rows') = committed
        /\ lost' = (lost \cup InMemory) \cap 1..committed
    BY <1>0, <1>7, <2>1 DEF Restart, InMemory
  <2>3. processed \subseteq 1..committed /\ processed \cap InMemory = {}
    BY PlacesApart DEF DurableInv, DurableBeforeDelivered
  <2>4. QED  BY <1>b, <2>2, <2>3 DEF Conserved
<1>8. QED  BY <1>1, <1>2, <1>3, <1>4, <1>5, <1>6, <1>7 DEF ConsumerStep

LEMMA NextConserved ==
  TypeInv /\ TypeInv' /\ DurableInv /\ OrderInv /\ Conserved /\ [Next]_vars => Conserved'
<1>1. ASSUME Conserved, UNCHANGED vars  PROVE Conserved'
  BY <1>1 DEF Conserved, InMemory, vars, table, putting, consumer, Queued, EventsOf, Putting, Pending
<1>2. QED  BY <1>1, InsertConserved, PublishConserved, OtherConserved DEF Next

\* Every event of the table is processed, on its way or lost, and never two of these:
\* none is forgotten, and none is delivered after it was given up.
THEOREM NothingForgotten == Spec => []Conserved
<1>1. QED
  BY InitTypeInv, NextTypeInv, InitDurableInv, NextDurableInv, InitOrderInv, NextOrderInv,
     InitConserved, NextConserved, PTL DEF Spec

-----------------------------------------------------------------------------
(* The bus is one log and one queue.  A thread that moves an event between  *)
(* its places moves nothing in the abstract one; by the order of the places *)
(* the first delivery of the queue has the oldest events that wait.         *)

LEMMA InitMaps == Init => Bus!Init
<1>1. Range(<<>>) = {} /\ EventsOf(<<>>) = {} /\ Len(<<>>) = 0
  BY RangeOfEmpty, EmptySeqFacts DEF EventsOf
<1>2. Init => Putting = {} /\ Pending = {}
  BY <1>1 DEF Init, Putting, Pending
<1>3. QED  BY <1>1, <1>2 DEF Init, Bus!Init, Queued

LEMMA InsertMaps ==
  ASSUME TypeInv, TypeInv', DurableInv, NEW t \in Threads, NEW kinds \in Calls, Insert(t, kinds)
  PROVE  \E n \in 0..MaxRows : Bus!Accept(n)
<1> DEFINE new == [i \in 1..Len(kinds) |-> Len(rows) + i]
           n == Len(kinds)
<1>1. /\ Len(rows) \in Nat /\ n \in Nat /\ Len(rows') = Len(rows) + n
      /\ Len(rows) + n <= MaxRows /\ MaxRows \in Nat
  BY CallsAssumption, SizesAssumption, ConcatProperties, LenProperties DEF TypeInv, TableOK, Insert
<1>2. /\ UNCHANGED <<committed, processed, current, queue, batch, item, lost>>
      /\ job' = [job EXCEPT ![t] = new] /\ pc'[t] = "commit" /\ lock = NoThread
  BY DEF Insert, LockFree, consumer, TypeInv, LockOK
<1>3. Putting = {} /\ Pending = {}
  BY <1>2, FreePlaces
<1>4. Putting' = {} /\ Queued' = Queued
  BY <1>2, <1>3 DEF Putting, Queued, EventsOf
<1>5. job'[t] = new
  BY <1>2 DEF TypeInv, JobOK
<1>6. Pending' = Range(new)
  BY <1>2, <1>5, HolderPlacesNext
<1>7. Range(new) = (Len(rows) + 1)..(Len(rows) + n)
  <2>1. ASSUME NEW y \in (Len(rows) + 1)..(Len(rows) + n)  PROVE y \in Range(new)
    <3>1. y - Len(rows) \in 1..n /\ y = Len(rows) + (y - Len(rows))
      BY <1>1
    <3>2. QED  BY <3>1 DEF Range
  <2>2. Range(new) \subseteq (Len(rows) + 1)..(Len(rows) + n)
    BY <1>1 DEF Range
  <2>3. QED  BY <2>1, <2>2
<1> HIDE DEF new, n
<1>8. n \in 0..MaxRows
  BY <1>1
<1>9. Queued \cup Putting \cup Range(batch) \cup Pending \subseteq 1..committed
  BY <1>3 DEF DurableInv, DurableBeforeDelivered
<1>10. Bus!Accept(n)
  BY <1>1, <1>2, <1>3, <1>4, <1>6, <1>7, <1>9 DEF Bus!Accept
<1>11. QED  BY <1>8, <1>10

\* Nothing but the places inside the bus changes.
LEMMA Stutters ==
  ASSUME UNCHANGED <<committed, rows, processed, current, lost>>,
         Queued' \cup Putting' \cup Range(batch') \cup Pending' =
           Queued \cup Putting \cup Range(batch) \cup Pending
  PROVE  UNCHANGED Bus!busVars
BY DEF Bus!busVars

LEMMA StaysAll ==
  ASSUME UNCHANGED <<committed, rows, processed, current, lost, queue, item, batch, job>>
  PROVE  UNCHANGED Bus!busVars
<1>1. Queued' = Queued /\ Putting' = Putting /\ Pending' = Pending
  BY DEF Queued, EventsOf, Putting, Pending
<1>2. QED  BY <1>1, Stutters

LEMMA DeliverMaps ==
  ASSUME TypeInv, TypeInv', NEW t \in Threads, pc[t] \in PutPcs, Deliver(t),
         UNCHANGED <<table, lock, job, batch, consumer, shutdown, lost>>
  PROVE  UNCHANGED Bus!busVars
<1>1. /\ Queued' = Queued \cup Putting /\ Putting' = {} /\ Pending' = Pending
      /\ UNCHANGED <<batch, current, processed, committed, rows, lost>>
  BY DeliverMoves DEF consumer, table
<1>2. QED  BY <1>1, Stutters

\* The first delivery of the queue has the oldest of the events that wait.
LEMMA FirstIsOldest ==
  ASSUME TypeInv, DurableInv, OrderInv, queue # <<>>
  PROVE  /\ Bus!Oldest(Range(Head(queue)))
         /\ Range(Head(queue)) \subseteq Queued
         /\ Queued = Range(Head(queue)) \cup EventsOf(Tail(queue))
         /\ Range(Head(queue)) \cap
              (EventsOf(Tail(queue)) \cup Putting \cup Range(batch) \cup Pending) = {}
<1> DEFINE first == Range(Head(queue))
           rest == EventsOf(Tail(queue))
<1>1. queue \in Seq(Seq(Nat)) /\ Queued = EventsOf(queue) /\ QueueAscends(queue)
  BY DEF TypeInv, QueueOK, Queued, OrderInv
<1>2. first \subseteq Queued /\ Queued = first \cup rest
  BY <1>1, EventsOfTail
<1>3. Before(first, rest)
  BY <1>1, QueueAscendsTail
<1> HIDE DEF first, rest
<1>4. Before(Queued, Putting \cup Range(batch) \cup Pending)
  BY DEF OrderInv, PlacesInOrder, Chain
<1>5. \A x \in first, y \in rest \cup Putting \cup Range(batch) \cup Pending : x < y
  BY <1>2, <1>3, <1>4 DEF Before
<1>6. first \subseteq Nat
  BY <1>2, PlacesAreNat
<1>7. first \cap (rest \cup Putting \cup Range(batch) \cup Pending) = {}
  <2> SUFFICES ASSUME NEW x \in first, x \in rest \cup Putting \cup Range(batch) \cup Pending
               PROVE  FALSE
    OBVIOUS
  <2>1. x < x /\ x \in Nat
    BY <1>5, <1>6
  <2>2. QED  BY <2>1
<1>8. first \subseteq 1..committed
  BY <1>2 DEF DurableInv, DurableBeforeDelivered
<1>9. Bus!Oldest(first)
  BY <1>2, <1>5, <1>8 DEF Bus!Oldest
<1>10. QED  BY <1>2, <1>7, <1>9 DEF first, rest

LEMMA PublishMaps ==
  ASSUME TypeInv, TypeInv', DurableInv, OrderInv, NEW t \in Threads, PublishStep(t)
  PROVE  Bus!Next \/ UNCHANGED Bus!busVars
<1>1. CASE Commit(t)
  <2>1. /\ committed' = Len(rows)
        /\ UNCHANGED <<rows, queue, item, batch, job, current, processed, lost>>
    BY <1>1 DEF Commit, consumer
  <2>2. Queued' = Queued /\ Putting' = Putting /\ Pending' = Pending
    BY <2>1 DEF Queued, EventsOf, Putting, Pending
  <2>3. Bus!Persist
    BY <2>1, <2>2 DEF Bus!Persist
  <2>4. QED  BY <2>3 DEF Bus!Next
<1>2. CASE CommitFails(t)
  <2>1. /\ UNCHANGED <<processed, current, queue, item, batch, rows, committed>>
        /\ lost' = lost \cup Range(job[t]) /\ pc[t] = "commit"
    BY <1>2 DEF CommitFails, consumer, table
  <2>2. Pending' = {} /\ Putting' = Putting /\ Queued' = Queued /\ Pending = Range(job[t])
    BY <1>2, <2>1, FreePlacesNext, HolderPlaces DEF CommitFails, Putting, Queued, EventsOf
  <2>3. Pending \subseteq (committed + 1)..Len(rows) /\ committed \in Nat /\ Len(rows) \in Nat
    BY <2>1, <2>2, PlacesAreNat DEF DurableInv, PendingInv, TypeInv, TableOK
  <2>4. Queued \cup Putting \cup Range(batch) \subseteq 1..committed
    BY DEF DurableInv, DurableBeforeDelivered
  <2>5. Pending \cap 1..committed = {}
    BY <2>3
  <2>6. Bus!Reject
    BY <2>1, <2>2, <2>4, <2>5 DEF Bus!Reject
  <2>7. QED  BY <2>6 DEF Bus!Next
<1>3. CASE Buffer(t)
  <2>1. PICK h \in Pending :
           /\ h = Head(job[t]) /\ Pending' = Range(Tail(job[t])) /\ Pending = Range(job[t])
           /\ Putting = {} /\ Queued' = Queued /\ current' = current
           /\ UNCHANGED <<processed, committed, rows, lost>>
           /\ \/ Putting' = {} /\ Range(batch') = Range(batch) \cup {h}
              \/ Putting' = Range(batch) \cup {h} /\ batch' = <<>>
    BY <1>3, BufferMoves
  <2>2. Pending = {h} \cup Pending'
    BY <1>3, <2>1, RangeOfTail DEF Buffer, TypeInv, JobOK
  <2>3. QED  BY <2>1, <2>2, Stutters, RangeOfEmpty
<1>4. CASE FlushFirst(t)
  <2>1. /\ Putting = {} /\ Putting' = Range(batch) /\ batch' = <<>> /\ Pending' = Pending
        /\ Queued' = Queued /\ UNCHANGED <<current, processed, committed, rows, lost>>
    BY <1>4, FlushMoves DEF FlushFirst
  <2>2. QED  BY <2>1, Stutters, RangeOfEmpty
<1>5. CASE EnqueueNormal(t)
  <2>1. PICK h \in Pending :
           /\ h = Head(job[t]) /\ Pending' = Range(Tail(job[t])) /\ Pending = Range(job[t])
           /\ Putting = {} /\ Putting' = {h} /\ Queued' = Queued
           /\ UNCHANGED <<current, processed, batch, committed, rows, lost>>
    BY <1>5, NormalMoves
  <2>2. Pending = {h} \cup Pending'
    BY <1>5, <2>1, RangeOfTail DEF EnqueueNormal, TypeInv, JobOK
  <2>3. QED  BY <2>1, <2>2, Stutters
<1>6. CASE Release(t)
  BY <1>6, StaysAll DEF Release, consumer, table
<1>7. CASE Put(t)
  <2>1. CASE Room
    BY <1>7, <2>1, DeliverMaps DEF Put, PutPcs
  <2>2. CASE ~Room
    BY <1>7, <2>2, StaysAll DEF Put, consumer, table
  <2>3. QED  BY <2>1, <2>2
<1>8. CASE Evict(t)
  <2>1. /\ Putting' = Putting /\ Pending' = Pending
        /\ queue' = IF queue = <<>> THEN queue ELSE Tail(queue)
        /\ UNCHANGED <<current, processed, batch, item, job, rows, committed>>
        /\ lost' = lost \cup (IF queue = <<>> THEN {} ELSE Range(Head(queue)))
    BY <1>8, EvictMoves
  <2>2. CASE queue = <<>>
    BY <2>1, <2>2, StaysAll
  <2>3. CASE queue # <<>>
    <3>1. Queued' = EventsOf(Tail(queue))
      BY <2>1, <2>3 DEF Queued
    <3>2. Bus!Drop(Range(Head(queue)))
      BY <2>1, <2>3, <3>1, FirstIsOldest DEF Bus!Drop
    <3>3. Range(Head(queue)) \in SUBSET (Queued \cup Putting \cup Range(batch) \cup Pending)
      BY <2>3, FirstIsOldest
    <3>4. QED  BY <3>2, <3>3 DEF Bus!Next
  <2>4. QED  BY <2>2, <2>3
<1>9. CASE Reput(t)
  BY <1>9, DeliverMaps DEF Reput, TypeInv, NewestIsNeverDropped, PutPcs
<1>10. QED
  BY <1>1, <1>2, <1>3, <1>4, <1>5, <1>6, <1>7, <1>8, <1>9 DEF PublishStep

LEMMA OtherMaps ==
  ASSUME TypeInv, TypeInv', DurableInv, OrderInv,
         ConsumerStep \/ StopConsumer \/ Flush \/ CloseDb \/ Restart
  PROVE  Bus!Next \/ UNCHANGED Bus!busVars
<1>1. CASE CheckStop \/ EndChecks \/ StopConsumer
  BY <1>1, StaysAll DEF CheckStop, EndChecks, StopConsumer, putting, consumer, table
<1>2. CASE Consume
  <2>1. CASE queue = <<>>
    BY <1>2, <2>1, StaysAll DEF Consume, putting, table
  <2>2. CASE queue # <<>>
    <3>1. /\ Range(current) = {} /\ current' = Head(queue) /\ queue' = Tail(queue)
          /\ Putting' = Putting /\ Pending' = Pending
          /\ UNCHANGED <<processed, batch, committed, rows, lost>>
      BY <1>2, <2>2, ConsumeMoves
    <3>2. Queued' = EventsOf(Tail(queue))
      BY <3>1 DEF Queued
    <3>3. Bus!Take(Range(Head(queue)))
      BY <2>2, <3>1, <3>2, FirstIsOldest DEF Bus!Take
    <3>4. Range(Head(queue)) \in SUBSET (Queued \cup Putting \cup Range(batch) \cup Pending)
      BY <2>2, FirstIsOldest
    <3>5. QED  BY <3>3, <3>4 DEF Bus!Next
  <2>3. QED  BY <2>1, <2>2
<1>3. CASE ProcessEvent
  <2>1. PICK h \in Range(current) :
           /\ h = Head(current) /\ current' = Tail(current) /\ processed' = processed \cup {h}
           /\ Range(current) = {h} \cup Range(current') /\ current # <<>>
           /\ Queued' = Queued /\ Putting' = Putting /\ Pending' = Pending
           /\ UNCHANGED <<batch, committed, rows, lost>>
    BY <1>3, ProcessMoves
  <2>2. Before({h}, Range(current')) /\ Range(current) \subseteq Nat
    BY <2>1, AscendingTail, PlacesAreNat DEF OrderInv, TypeInv, LoopOK
  <2>3. (\A x \in Range(current) : h <= x) /\ Range(current') = Range(current) \ {h}
    BY <2>1, <2>2 DEF Before
  <2>4. Bus!Process(h)
    BY <2>1, <2>3 DEF Bus!Process
  <2>5. QED  BY <2>1, <2>4 DEF Bus!Next
<1>4. CASE ProcessEventRaises
  <2>1. /\ UNCHANGED <<processed, queue, batch, item, job, rows, committed>>
        /\ Range(current') = {} /\ lost' = lost \cup Range(current)
    BY <1>4, RangeOfEmpty DEF ProcessEventRaises, putting, table
  <2>2. Queued' = Queued /\ Putting' = Putting /\ Pending' = Pending
    BY <2>1 DEF Queued, EventsOf, Putting, Pending
  <2>3. Bus!Abandon
    BY <2>1, <2>2 DEF Bus!Abandon
  <2>4. QED  BY <2>3 DEF Bus!Next
<1>5. CASE Flush
  <2>1. CASE batch = <<>>
    BY <1>5, <2>1, StaysAll DEF Flush, putting, consumer, table
  <2>2. CASE batch # <<>>
    <3>1. FlushBatch(Main) /\ Main \in Threads
      BY <1>5, <2>2, ThreadsFacts DEF Flush
    <3>2. /\ Putting = {} /\ Putting' = Range(batch) /\ batch' = <<>> /\ Pending' = Pending
          /\ Queued' = Queued /\ UNCHANGED <<current, processed, committed, rows, lost>>
      BY <1>5, <2>2, <3>1, FlushMoves
    <3>3. QED  BY <3>2, Stutters, RangeOfEmpty
  <2>3. QED  BY <2>1, <2>2
<1>0. /\ committed \in Nat /\ Len(SubSeq(rows, 1, committed)) = committed
  BY TruncatedRows, LenProperties DEF TypeInv, TableOK
<1>6. CASE CloseDb
  <2>1. /\ UNCHANGED <<processed, current, queue, item, batch, job, committed>>
        /\ lost' = lost \cap 1..committed /\ Len(rows') = committed
    BY <1>0, <1>6 DEF CloseDb, putting, consumer
  <2>2. Queued' = Queued /\ Putting' = Putting /\ Pending' = Pending
    BY <2>1 DEF Queued, EventsOf, Putting, Pending
  <2>3. Pending = {}
    BY <1>6, FreePlaces DEF CloseDb, LockFree
  <2>4. Queued \cup Putting \cup Range(batch) \cup Pending \subseteq 1..committed
    BY <2>3 DEF DurableInv, DurableBeforeDelivered
  <2>5. Bus!Close
    BY <2>1, <2>2, <2>4 DEF Bus!Close
  <2>6. QED  BY <2>5 DEF Bus!Next
<1>7. CASE Restart
  <2>1. Putting' = {} /\ Queued' = {} /\ Range(batch') = {} /\ Range(current') = {} /\ Pending' = {}
    BY <1>7, RangeOfEmpty, EmptySeqFacts DEF Restart, Putting, Pending, Queued, EventsOf
  <2>2. /\ processed' = processed /\ committed' = committed /\ Len(rows') = committed
        /\ lost' = (lost \cup InMemory) \cap 1..committed
    BY <1>0, <1>7 DEF Restart
  <2>3. InMemory = (Queued \cup Putting \cup Range(batch) \cup Pending) \cup Range(current)
    BY DEF InMemory
  <2>4. Bus!Crash
    BY <2>1, <2>2, <2>3 DEF Bus!Crash
  <2>5. QED  BY <2>4 DEF Bus!Next
<1>8. QED  BY <1>1, <1>2, <1>3, <1>4, <1>5, <1>6, <1>7 DEF ConsumerStep

LEMMA NextMaps ==
  TypeInv /\ TypeInv' /\ DurableInv /\ OrderInv /\ [Next]_vars => [Bus!Next]_(Bus!busVars)
<1> SUFFICES ASSUME TypeInv, TypeInv', DurableInv, OrderInv, [Next]_vars
             PROVE  Bus!Next \/ UNCHANGED Bus!busVars
  OBVIOUS
<1>1. ASSUME NEW t \in Threads, NEW kinds \in Calls, Insert(t, kinds)  PROVE Bus!Next
  BY <1>1, InsertMaps DEF Bus!Next
<1>2. CASE UNCHANGED vars
  BY <1>2, StaysAll DEF vars, table, putting, consumer
<1>3. QED  BY <1>1, <1>2, PublishMaps, OtherMaps DEF Next

\* For every number of threads, every size of the queue and of a batch: the bus is a log on
\* disk that is a queue, from which the consumer has the oldest events, once and in order, and
\* which drops its oldest only (publish, publish_many, _put, consume).
THEOREM OneLog == Spec => ImplementsBus
<1>1. QED
  BY InitTypeInv, NextTypeInv, InitDurableInv, NextDurableInv, InitOrderInv, NextOrderInv,
     InitMaps, NextMaps, PTL DEF Spec, ImplementsBus, Bus!Spec
=============================================================================
