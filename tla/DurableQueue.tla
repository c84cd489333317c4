---------------------------- MODULE DurableQueue ----------------------------
(***************************************************************************)
(* What the event bus promises to the sensors and to the one consumer      *)
(* (engine/event_bus.py, the module's docstring): a log on disk that is    *)
(* also a queue.  Events are numbered in the order in which they are       *)
(* accepted.  The consumer takes the oldest, of those on disk only; what   *)
(* does not fit is dropped from the old end; and what has been accepted    *)
(* but could not be put on disk is dropped at once.                        *)
(***************************************************************************)
EXTENDS Integers

CONSTANT MaxRows    \* bound: events ever accepted

VARIABLES stored,    \* how many events the log has
          durable,   \* how many of them are on disk
          waiting,   \* the events that the consumer has still to take
          taken,     \* those that it has in hand
          done,      \* those that it has processed
          dropped    \* those that it will never process

busVars == <<stored, durable, waiting, taken, done, dropped>>

Init ==
  /\ stored = 0 /\ durable = 0
  /\ waiting = {} /\ taken = {} /\ done = {} /\ dropped = {}

\* The events of one publish_many, when those of the last one are on disk or dropped.
Accept(n) ==
  /\ waiting \subseteq 1..durable
  /\ stored' = stored + n
  /\ waiting' = waiting \cup (stored + 1)..(stored + n)
  /\ UNCHANGED <<durable, taken, done, dropped>>

Persist ==
  /\ durable' = stored
  /\ UNCHANGED <<stored, waiting, taken, done, dropped>>

Reject ==
  /\ waiting' = waiting \cap 1..durable
  /\ dropped' = dropped \cup (waiting \ 1..durable)
  /\ UNCHANGED <<stored, durable, taken, done>>

\* The first few of those that wait, all on disk.
Oldest(some) ==
  /\ some \subseteq waiting \cap 1..durable
  /\ \A x \in some, y \in waiting \ some : x < y

Take(some) ==
  /\ taken = {} /\ Oldest(some)
  /\ taken' = some /\ waiting' = waiting \ some
  /\ UNCHANGED <<stored, durable, done, dropped>>

Drop(some) ==
  /\ Oldest(some)
  /\ waiting' = waiting \ some /\ dropped' = dropped \cup some
  /\ UNCHANGED <<stored, durable, taken, done>>

Process(e) ==
  /\ \A x \in taken : e <= x
  /\ taken' = taken \ {e} /\ done' = done \cup {e}
  /\ UNCHANGED <<stored, durable, waiting, dropped>>

\* The event in hand could not be processed: the rest of what was taken goes with it.
Abandon ==
  /\ taken' = {} /\ dropped' = dropped \cup taken
  /\ UNCHANGED <<stored, durable, waiting, done>>

\* The log is closed: what is not on disk was dropped, and is forgotten.
Close ==
  /\ waiting \subseteq 1..durable
  /\ stored' = durable /\ dropped' = dropped \cap 1..durable
  /\ UNCHANGED <<durable, waiting, taken, done>>

Crash ==
  /\ stored' = durable /\ waiting' = {} /\ taken' = {}
  /\ dropped' = (dropped \cup waiting \cup taken) \cap 1..durable
  /\ UNCHANGED <<durable, done>>

Next ==
  \/ \E n \in 0..MaxRows : Accept(n)
  \/ Persist \/ Reject
  \/ \E some \in SUBSET waiting : Take(some) \/ Drop(some)
  \/ \E e \in taken : Process(e)
  \/ Abandon \/ Close \/ Crash

Spec == Init /\ [][Next]_busVars
=============================================================================
