------------------------------ MODULE EventBus ------------------------------
(***************************************************************************)
(* The hub between the sensors and the detection engines:                  *)
(* sentinel/engine/event_bus.py, and the loop of the one consumer thread,  *)
(* sentinel/engine/consumer.py.                                            *)
(*                                                                         *)
(* An event is identified by its SQLite rowid, so that `rows`, the         *)
(* sequence of the kinds of the inserted events, is the table; the rows up *)
(* to `committed` are on disk, the later ones are in the open transaction. *)
(* A delivery, an item of the in-memory queue, is the sequence of the      *)
(* rowids it carries: one for a normal event, several for a batch.         *)
(*                                                                         *)
(* Publishers hold the bus lock from the INSERT to the last put, but the   *)
(* consumer takes from the queue without that lock, so that _put is        *)
(* modelled as its three calls on the queue (put_nowait, get_nowait,       *)
(* put_nowait).  Every publish and every call inside it can fail or be cut *)
(* by a crash of the process.  `processed` and `lost` are history          *)
(* variables.                                                              *)
(***************************************************************************)
EXTENDS Integers, Sequences, Functions

CONSTANTS Sensors,    \* the sensor threads
          Consumer,   \* the DetectionConsumer thread; it publishes too (responder.py)
          Main,       \* the thread of the orchestrator, which closes the bus
          NoThread,   \* the lock's holder when it is free
          QueueSize,  \* queue_size
          BatchSize,  \* high_volume_batch
          Calls,      \* the lists of kinds one publish or publish_many may carry
          MaxRows     \* bound: rows ever inserted

Threads == Sensors \cup {Consumer, Main}
Kinds   == {"normal", "high"}      \* high: registry_write, image_load

ASSUME ThreadsAssumption ==
  /\ NoThread \notin Threads
  /\ Consumer \notin Sensors
  /\ Main \notin Sensors
  /\ Consumer # Main
ASSUME SizesAssumption ==
  /\ QueueSize \in Nat \ {0}
  /\ BatchSize \in Nat \ {0}
  /\ MaxRows \in Nat
ASSUME CallsAssumption == Calls \subseteq Seq(Kinds)

VARIABLES rows,       \* the events table, the open transaction included
          committed,  \* how many of its rows are committed
          closed,     \* the connection is closed
          lock,       \* the holder of self._lock
          pc,         \* where each thread is in publish, publish_many or flush
          job,        \* the events it has still to enqueue
          item,       \* the delivery it is putting
          batch,      \* self._batch
          queue,      \* self._queue
          loop,       \* where the consumer's loop is
          current,    \* the events of its last delivery it has still to process
          shutdown,   \* how far the orchestrator's cleanup is
          processed,  \* events whose processing ended normally
          lost        \* events inserted that will never be processed

table    == <<rows, committed, closed>>
putting  == <<lock, pc, job, item, batch>>
consumer == <<loop, current, processed>>
vars == <<table, putting, queue, consumer, shutdown, lost>>

Init ==
  /\ rows = <<>> /\ committed = 0 /\ closed = FALSE
  /\ lock = NoThread
  /\ pc = [t \in Threads |-> "idle"]
  /\ job = [t \in Threads |-> <<>>]
  /\ item = [t \in Threads |-> <<>>]
  /\ batch = <<>> /\ queue = <<>>
  /\ loop = "top" /\ current = <<>>
  /\ shutdown = "no"
  /\ processed = {} /\ lost = {}

-----------------------------------------------------------------------------
(* Publishing: publish, publish_many and flush.                            *)

CanPublish(t) ==
  /\ pc[t] = "idle"
  /\ t # Main
  /\ t = Consumer => loop \in {"busy", "checks"}   \* from a response to what it found
  /\ ~closed

LockFree == lock = NoThread

\* The lock and the INSERTs.  An INSERT that fails changes nothing: the
\* exception leaves through the `with`.
Insert(t, kinds) ==
  /\ CanPublish(t)
  /\ LockFree
  /\ Len(rows) + Len(kinds) <= MaxRows
  /\ lock' = t
  /\ rows' = rows \o kinds
  /\ job' = [job EXCEPT ![t] = [i \in 1..Len(kinds) |-> Len(rows) + i]]
  /\ pc' = [pc EXCEPT ![t] = "commit"]
  /\ UNCHANGED <<committed, closed, item, batch, queue, consumer, shutdown, lost>>

CommitLate(t) ==       \* mutant: the commit is left to the next publish
  /\ pc[t] = "commit"
  /\ pc' = [pc EXCEPT ![t] = "enqueue"]
  /\ UNCHANGED <<table, lock, job, item, batch, queue, consumer, shutdown, lost>>

Commit(t) ==
  /\ pc[t] = "commit"
  /\ committed' = Len(rows)
  /\ pc' = [pc EXCEPT ![t] = "enqueue"]
  /\ UNCHANGED <<rows, closed, lock, job, item, batch, queue, consumer, shutdown, lost>>

\* commit raises (a reader of events.db holds its lock too long): the caller
\* gets the exception, nothing is enqueued, and the row stays in the open
\* transaction, which the next commit writes.
CommitFails(t) ==
  /\ pc[t] = "commit"
  /\ lost' = lost \cup Range(job[t])
  /\ job' = [job EXCEPT ![t] = <<>>]
  /\ pc' = [pc EXCEPT ![t] = "idle"]
  /\ lock' = NoThread
  /\ UNCHANGED <<table, item, batch, queue, consumer, shutdown>>

IsHigh(id) == rows[id] = "high"

BufferOneMore(t) ==    \* mutant: > for >= in the test on the batch's length
  /\ pc[t] = "enqueue" /\ job[t] # <<>> /\ IsHigh(Head(job[t]))
  /\ LET full == Append(batch, Head(job[t])) IN
       IF Len(full) > BatchSize
         THEN /\ batch' = <<>>
              /\ item' = [item EXCEPT ![t] = full]
              /\ pc' = [pc EXCEPT ![t] = "put"]
         ELSE /\ batch' = full
              /\ UNCHANGED <<item, pc>>
  /\ job' = [job EXCEPT ![t] = Tail(@)]
  /\ UNCHANGED <<table, lock, queue, consumer, shutdown, lost>>

\* _enqueue of a high-volume event: buffered, and the buffer is delivered
\* when it is full.
Buffer(t) ==
  /\ pc[t] = "enqueue" /\ job[t] # <<>> /\ IsHigh(Head(job[t]))
  /\ LET full == Append(batch, Head(job[t])) IN
       IF Len(full) >= BatchSize
         THEN /\ batch' = <<>>
              /\ item' = [item EXCEPT ![t] = full]
              /\ pc' = [pc EXCEPT ![t] = "put"]
         ELSE /\ batch' = full
              /\ UNCHANGED <<item, pc>>
  /\ job' = [job EXCEPT ![t] = Tail(@)]
  /\ UNCHANGED <<table, lock, queue, consumer, shutdown, lost>>

FlushBatchDropped(t) ==  \* mutant: the buffer is emptied, and not delivered
  /\ batch' = <<>>
  /\ UNCHANGED <<item, pc>>

\* _flush_batch, from flush or before a normal event.
FlushBatch(t) ==
  /\ item' = [item EXCEPT ![t] = batch]
  /\ batch' = <<>>
  /\ pc' = [pc EXCEPT ![t] = "put"]

\* _enqueue of a normal event: a pending batch is delivered first.
FlushFirst(t) ==
  /\ pc[t] = "enqueue" /\ job[t] # <<>> /\ ~IsHigh(Head(job[t]))
  /\ batch # <<>>
  /\ FlushBatch(t)
  /\ UNCHANGED <<table, lock, job, queue, consumer, shutdown, lost>>

AnyBatch == TRUE         \* mutant: a normal event overtakes the pending batch
NoPendingBatch == batch = <<>>

EnqueueNormal(t) ==
  /\ pc[t] = "enqueue" /\ job[t] # <<>> /\ ~IsHigh(Head(job[t]))
  /\ NoPendingBatch
  /\ item' = [item EXCEPT ![t] = <<Head(job[t])>>]
  /\ job' = [job EXCEPT ![t] = Tail(@)]
  /\ pc' = [pc EXCEPT ![t] = "put"]
  /\ UNCHANGED <<table, lock, batch, queue, consumer, shutdown, lost>>

\* The end of publish, publish_many or flush.
Release(t) ==
  /\ pc[t] = "enqueue" /\ job[t] = <<>>
  /\ pc' = [pc EXCEPT ![t] = "idle"]
  /\ lock' = NoThread
  /\ UNCHANGED <<table, job, item, batch, queue, consumer, shutdown, lost>>

Room == Len(queue) < QueueSize

\* The delivery enters the queue and _put returns.
Deliver(t) ==
  /\ queue' = Append(queue, item[t])
  /\ item' = [item EXCEPT ![t] = <<>>]
  /\ pc' = [pc EXCEPT ![t] = "enqueue"]

PutBlocking(t) ==        \* mutant: queue.put, which waits for room
  /\ pc[t] = "put"
  /\ Room
  /\ Deliver(t)
  /\ UNCHANGED <<table, lock, job, batch, consumer, shutdown, lost>>

\* _put, first put_nowait.
Put(t) ==
  /\ pc[t] = "put"
  /\ \/ /\ Room
        /\ Deliver(t)
     \/ /\ ~Room
        /\ pc' = [pc EXCEPT ![t] = "evict"]
        /\ UNCHANGED <<item, queue>>
  /\ UNCHANGED <<table, lock, job, batch, consumer, shutdown, lost>>

RetryOnly(t) ==          \* mutant: put_nowait is tried again, and nothing evicted
  /\ pc[t] = "evict"
  /\ pc' = [pc EXCEPT ![t] = "reput"]
  /\ UNCHANGED <<table, lock, job, item, batch, queue, consumer, shutdown, lost>>

\* _put, get_nowait: the oldest delivery is dropped, a batch as a whole.  The
\* consumer may have emptied the queue since the first put_nowait.
Evict(t) ==
  /\ pc[t] = "evict"
  /\ \/ /\ queue # <<>>
        /\ lost' = lost \cup Range(Head(queue))
        /\ queue' = Tail(queue)
     \/ /\ queue = <<>>
        /\ UNCHANGED <<queue, lost>>
  /\ pc' = [pc EXCEPT ![t] = "reput"]
  /\ UNCHANGED <<table, lock, job, item, batch, consumer, shutdown>>

\* _put, second put_nowait: when the queue is full again the new delivery is
\* dropped.
Reput(t) ==
  /\ pc[t] = "reput"
  /\ \/ /\ Room
        /\ Deliver(t)
        /\ UNCHANGED lost
     \/ /\ ~Room
        /\ lost' = lost \cup Range(item[t])
        /\ item' = [item EXCEPT ![t] = <<>>]
        /\ pc' = [pc EXCEPT ![t] = "enqueue"]
        /\ UNCHANGED queue
  /\ UNCHANGED <<table, lock, job, batch, consumer, shutdown>>

-----------------------------------------------------------------------------
(* The consumer thread: DetectionConsumer._run_consumer.                   *)

Stopping == shutdown # "no"

CheckStop ==
  /\ loop = "top"
  /\ loop' = IF Stopping THEN "exited" ELSE "waiting"
  /\ UNCHANGED <<table, putting, queue, current, processed, shutdown, lost>>

\* consume: an item, or None once the timeout passed on an empty queue.
Consume ==
  /\ loop = "waiting"
  /\ \/ /\ queue # <<>>
        /\ current' = Head(queue)
        /\ queue' = Tail(queue)
        /\ loop' = "busy"
     \/ /\ queue = <<>>
        /\ loop' = "checks"
        /\ UNCHANGED <<current, queue>>
  /\ UNCHANGED <<table, putting, processed, shutdown, lost>>

ProcessEvent ==
  /\ loop = "busy" /\ pc[Consumer] = "idle"
  /\ processed' = processed \cup {Head(current)}
  /\ current' = Tail(current)
  /\ loop' = IF Tail(current) = <<>> THEN "checks" ELSE "busy"
  /\ UNCHANGED <<table, putting, queue, shutdown, lost>>

ProcessEventKills ==     \* mutant: the exception leaves the loop
  /\ loop = "busy" /\ pc[Consumer] = "idle"
  /\ lost' = lost \cup Range(current)
  /\ current' = <<>>
  /\ loop' = "exited"
  /\ UNCHANGED <<table, putting, queue, processed, shutdown>>

\* An exception of process_event ends the item: the events of the batch that
\* follow are dropped with the one that raised, and the periodic checks left out.
ProcessEventRaises ==
  /\ loop = "busy" /\ pc[Consumer] = "idle"
  /\ lost' = lost \cup Range(current)
  /\ current' = <<>>
  /\ loop' = "top"
  /\ UNCHANGED <<table, putting, queue, processed, shutdown>>

\* _periodic_checks, which may respond and so publish with no event in hand.
EndChecks ==
  /\ loop = "checks" /\ pc[Consumer] = "idle"
  /\ loop' = "top"
  /\ UNCHANGED <<table, putting, queue, current, processed, shutdown, lost>>

-----------------------------------------------------------------------------
(* Shutdown and crash.                                                     *)

\* DetectionConsumer.stop: the join has a timeout, so that the cleanup goes on
\* whether or not the thread ended.
StopConsumer ==
  /\ shutdown = "no"
  /\ shutdown' = "stopped"
  /\ UNCHANGED <<table, putting, queue, consumer, lost>>

\* EventBus.close: flush under the lock, then the lock again for conn.close.
Flush ==
  /\ shutdown = "stopped" /\ LockFree
  /\ shutdown' = "flushed"
  /\ IF batch = <<>>
       THEN UNCHANGED putting
       ELSE /\ FlushBatch(Main)
            /\ lock' = Main
            /\ UNCHANGED job
  /\ UNCHANGED <<table, queue, consumer, lost>>

\* A row in the open transaction goes with the connection.
CloseDb ==
  /\ shutdown = "flushed" /\ pc[Main] = "idle" /\ LockFree
  /\ shutdown' = "closed" /\ closed' = TRUE
  /\ rows' = SubSeq(rows, 1, committed)
  /\ lost' = lost \cap 1..committed
  /\ UNCHANGED <<committed, putting, queue, consumer>>

EventsOf(q) == UNION {Range(q[i]) : i \in DOMAIN q}
Queued  == EventsOf(queue)
Putting == UNION {Range(item[t]) : t \in Threads}
Pending == UNION {Range(job[t]) : t \in Threads}
InMemory == Range(current) \cup Queued \cup Putting \cup Range(batch) \cup Pending

\* The process dies (also when it has shut down) and is started again: what
\* was in memory is gone, the committed rows are not.
Restart ==
  /\ rows' = SubSeq(rows, 1, committed)
  /\ lost' = (lost \cup InMemory) \cap 1..committed
  /\ closed' = FALSE /\ lock' = NoThread
  /\ pc' = [t \in Threads |-> "idle"]
  /\ job' = [t \in Threads |-> <<>>]
  /\ item' = [t \in Threads |-> <<>>]
  /\ batch' = <<>> /\ queue' = <<>>
  /\ loop' = "top" /\ current' = <<>>
  /\ shutdown' = "no"
  /\ UNCHANGED <<committed, processed>>

-----------------------------------------------------------------------------
PublishStep(t) ==
  \/ Commit(t) \/ CommitFails(t)
  \/ Buffer(t) \/ FlushFirst(t) \/ EnqueueNormal(t) \/ Release(t)
  \/ Put(t) \/ Evict(t) \/ Reput(t)

ConsumerStep == CheckStop \/ Consume \/ ProcessEvent \/ ProcessEventRaises \/ EndChecks

Next ==
  \/ \E t \in Threads, kinds \in Calls : Insert(t, kinds)
  \/ \E t \in Threads : PublishStep(t)
  \/ ConsumerStep
  \/ StopConsumer \/ Flush \/ CloseDb
  \/ Restart

Spec == Init /\ [][Next]_vars

\* A thread inside publish never waits (the lock is its own), and the
\* consumer's waits have a timeout: the scheduler runs both.  Nothing obliges
\* a sensor to publish, the service to stop, or the process to die.
Fairness == /\ \A t \in Threads : WF_vars(PublishStep(t))
            /\ WF_vars(ConsumerStep)
FairSpec == Spec /\ Fairness

-----------------------------------------------------------------------------
(* Properties.                                                             *)

PutPcs == {"put", "evict", "reput"}

\* Types and bounds: the queue never exceeds queue_size, and a batch never
\* waits at high_volume_batch events or carries more of them.
TypeOK ==
  /\ rows \in Seq(Kinds) /\ committed \in 0..Len(rows) /\ closed \in BOOLEAN
  /\ lock \in Threads \cup {NoThread}
  /\ pc \in [Threads -> {"idle", "commit", "enqueue"} \cup PutPcs]
  /\ job \in [Threads -> Seq(Nat)] /\ item \in [Threads -> Seq(Nat)]
  /\ batch \in Seq(Nat) /\ Len(batch) < BatchSize
  /\ queue \in Seq(Seq(Nat)) /\ Len(queue) <= QueueSize
  /\ loop \in {"top", "waiting", "busy", "checks", "exited"}
  /\ current \in Seq(Nat)
  /\ shutdown \in {"no", "stopped", "flushed", "closed"}
  /\ processed \subseteq Nat /\ lost \subseteq Nat

Before(S, T) == \A x \in S, y \in T : x < y
Ascending(s) == \A i, j \in DOMAIN s : i < j => s[i] < s[j]
QueueAscends(q) ==
  /\ \A i \in DOMAIN q : Ascending(q[i])
  /\ \A i, j \in DOMAIN q : i < j => Before(Range(q[i]), Range(q[j]))

\* The second put_nowait of _put always finds room: the branch "queue still
\* full; dropped new item" is dead code as long as every put is made under the
\* bus lock, whatever the consumer takes in between.
NewestIsNeverDropped == \A t \in Threads : pc[t] = "reput" => Room

\* Events reach the detectors in the order of their rows, across threads, batches,
\* evictions and restarts: an event further along is older than any event
\* behind it ("flush any pending high-volume batch first to preserve rough
\* order" in fact preserves it exactly).
InOrder ==
  /\ Before(processed, Range(current) \cup Queued \cup Putting \cup Range(batch) \cup Pending)
  /\ Before(Range(current), Queued \cup Putting \cup Range(batch) \cup Pending)
  /\ Before(Queued, Putting \cup Range(batch) \cup Pending)
  /\ Before(Putting, Range(batch) \cup Pending)
  /\ Before(Range(batch), Pending)
  /\ Ascending(current) /\ Ascending(batch) /\ QueueAscends(queue)

\* What a detector sees or has seen is on disk: no response can be to an event
\* a crash would erase from events.db.
DurableBeforeDelivered ==
  processed \cup Range(current) \cup Queued \cup Putting \cup Range(batch) \subseteq 1..committed

\* Every row is in exactly one place: processed, on its way, or lost through
\* one of the paths that lose it.  No event is delivered twice or forgotten.
Conserved ==
  /\ 1..Len(rows) = processed \cup InMemory \cup lost
  /\ lost \cap (processed \cup InMemory) = {}

\* To the threads it is one log, of which the consumer has the oldest events that wait
\* and are on disk, each once and in order, and of which nothing but the oldest is ever
\* dropped, however the puts, the takes, the failures and the crashes interleave.
Bus == INSTANCE DurableQueue WITH
         stored <- Len(rows), durable <- committed,
         waiting <- Queued \cup Putting \cup Range(batch) \cup Pending,
         taken <- Range(current), done <- processed, dropped <- lost
ImplementsBus == Bus!Spec

\* A publisher comes back from the bus, with the consumer dead, stuck or
\* publishing itself and the queue full.
PublishReturns == \A t \in Threads : pc[t] # "idle" ~> pc[t] = "idle"

\* An event in the queue leaves it (delivered or evicted) unless the service
\* stops: an exception of one event does not end detection.
QueuedLeaves == \A id \in 1..MaxRows : id \in Queued ~> (id \notin Queued \/ Stopping)
=============================================================================
