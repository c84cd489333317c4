----------------------------- MODULE Minifilter -----------------------------
(***************************************************************************)
(* The kernel driver: the sorted list of driver/SentinelFilter/blocklist.c *)
(* under its spin lock, the port's message callback (communication.c) and  *)
(* the pre-create callback of every file open (SentinelFilter.c).          *)
(*                                                                         *)
(* The linked list is the sequence of its entries and a pointer into it a  *)
(* position.  A critical section is one action per node it visits and one  *)
(* for each of its two writes (the link, the count), because SfPreCreate   *)
(* reads `count` without the lock.  Left out: g_TotalBlocks, a statistic,  *)
(* and the content of the block event, which SfPreCreate sends with a      *)
(* timeout and whose result it ignores.                                    *)
(*                                                                         *)
(* Assumed of the Filter Manager, which is not in the repository: names    *)
(* are null-terminated, and FltUnregisterFilter returns when no callback   *)
(* of the driver is running.                                               *)
(***************************************************************************)
EXTENDS Integers, Sequences, FiniteSets, SequencesExt

CONSTANTS Clients, Openers, Paths, Norm,   \* as in BlockedPaths
          NoThread                         \* the lock's holder when it is free

VARIABLES list,       \* g_Blocklist: the keys from head to tail
          count,      \* g_Blocklist.count
          lock,       \* the holder of g_BlocklistLockCtx
          pc,         \* where each thread is in SfPortMessage or SfPreCreate
          at,         \* the position of its `cur` in the list
          call,       \* its arguments
          answer,     \* its return value
          connected,  \* g_ClientPort # NULL
          loaded      \* "yes", "unloading" (in SfUnload) or "no"

vars == <<list, count, lock, pc, at, call, answer, connected, loaded>>
blocklist == <<list, count>>
driver == <<connected, loaded>>

\* The blocked set a caller sees: it changes when `count` does.
Counting(op) == {call[t].path : t \in {u \in DOMAIN pc : pc[u] = "count" /\ call[u].op = op}}
Visible ==
  (Range(list) \ {Norm[p] : p \in Counting("add")}) \cup {Norm[p] : p \in Counting("remove")}

Abstract == INSTANCE BlockedPaths WITH blocked <- Visible

Threads == Abstract!Threads
Keys    == Abstract!Keys
TooLong == Abstract!TooLong
NoCall  == Abstract!NoCall
Key(t)  == Abstract!Key(t)
Word(w) == Abstract!Word(w)
NoAnswer == Abstract!NoAnswer

ASSUME NormAssumption == Norm \in [Paths -> Nat]
ASSUME PathsAssumption == IsFiniteSet(Paths)
ASSUME ThreadsAssumption == Clients \cap Openers = {}
ASSUME NoThreadAssumption == NoThread \notin Clients \cup Openers

Init ==
  /\ list = <<>> /\ count = 0 /\ lock = NoThread
  /\ pc = [t \in Threads |-> "idle"]
  /\ at = [t \in Threads |-> 1]
  /\ call = [t \in Threads |-> NoCall]
  /\ answer = [t \in Threads |-> NoAnswer]
  /\ connected = FALSE /\ loaded = "yes"

-----------------------------------------------------------------------------
(* Entry and exit.                                                         *)

Call(t, request) ==
  /\ pc[t] = "idle" /\ loaded = "yes"
  /\ t \in Clients => connected
  /\ request \in (IF t \in Clients THEN Abstract!Commands ELSE Abstract!Opens)
  /\ call' = [call EXCEPT ![t] = request]
  /\ pc' = [pc EXCEPT ![t] = IF t \in Clients THEN "entered" ELSE "test"]
  /\ UNCHANGED <<blocklist, lock, at, answer, driver>>

IsCall(t, op) == call[t].op = op

Decide(t, a) ==
  /\ answer' = [answer EXCEPT ![t] = a]
  /\ pc' = [pc EXCEPT ![t] = "decided"]

Unlock == lock' = NoThread

Return(t) ==
  /\ pc[t] = "decided"
  /\ pc' = [pc EXCEPT ![t] = "idle"]
  /\ call' = [call EXCEPT ![t] = NoCall]
  /\ answer' = [answer EXCEPT ![t] = NoAnswer]
  /\ UNCHANGED <<blocklist, lock, at, driver>>

-----------------------------------------------------------------------------
(* Before the lock.                                                        *)

\* SfPreCreate, the test of `count` without the lock.
EmptyList(t) ==
  /\ pc[t] = "test" /\ count = 0
  /\ Decide(t, Word("allow"))
  /\ UNCHANGED <<blocklist, lock, at, call, driver>>

NonEmptyList(t) ==
  /\ pc[t] = "test" /\ count # 0
  /\ pc' = [pc EXCEPT ![t] = "entered"]
  /\ UNCHANGED <<blocklist, lock, at, call, answer, driver>>

\* A kernel-mode caller, none of the rights of FILE_GENERIC_EXECUTE,
\* FILE_COMPLETE_IF_OPLOCKED, or the name is not available.
LetThrough(t) ==
  /\ pc[t] = "entered" /\ IsCall(t, "other")
  /\ Decide(t, Word("allow"))
  /\ UNCHANGED <<blocklist, lock, at, call, driver>>

\* bl_normalize_path fails: what each caller makes of BL_ERR_PATH_TOO_LONG.
PathTooLong(t) ==
  /\ pc[t] = "entered" /\ call[t].op \in {"add", "remove", "execute"}
  /\ Key(t) = TooLong
  /\ Decide(t, Word(CASE IsCall(t, "add") -> "failed"
                      [] IsCall(t, "remove") -> "ok"
                      [] IsCall(t, "execute") -> "allow"))
  /\ UNCHANGED <<blocklist, lock, at, call, driver>>

Needed(t) ==
  \/ IsCall(t, "status")
  \/ /\ call[t].op \in {"add", "remove", "execute"}
     /\ Key(t) # TooLong

AnyLock == TRUE             \* mutant: the list is walked without the lock
LockFree == lock = NoThread

Lock(t) ==
  /\ pc[t] = "entered" /\ Needed(t)
  /\ LockFree
  /\ lock' = t
  /\ at' = [at EXCEPT ![t] = 1]
  /\ pc' = [pc EXCEPT ![t] = IF IsCall(t, "status") THEN "read" ELSE "walk"]
  /\ UNCHANGED <<blocklist, call, answer, driver>>

-----------------------------------------------------------------------------
(* The walk, from head while the entries are smaller.                      *)

Walking(t) == pc[t] = "walk"
AtEnd(t)   == at[t] > Len(list)
Smaller(t) == Walking(t) /\ ~AtEnd(t) /\ list[at[t]] < Key(t)
Hit(t)     == Walking(t) /\ ~AtEnd(t) /\ list[at[t]] = Key(t)
Miss(t)    == Walking(t) /\ (~AtEnd(t) => list[at[t]] > Key(t))

WalkStays(t) ==             \* mutant: cur is not advanced
  /\ Smaller(t)
  /\ UNCHANGED vars

Walk(t) ==
  /\ Smaller(t)
  /\ at' = [at EXCEPT ![t] = @ + 1]
  /\ UNCHANGED <<blocklist, lock, pc, call, answer, driver>>

\* blocklist_add: BL_ERR_DUPLICATE, a success for the client.
Duplicate(t) ==
  /\ Hit(t) /\ IsCall(t, "add")
  /\ Decide(t, Word("ok"))
  /\ Unlock
  /\ UNCHANGED <<blocklist, at, call, driver>>

\* blocklist_add: the new entry goes before cur.
Link(t) ==
  /\ Miss(t) /\ IsCall(t, "add")
  /\ list' = InsertAt(list, at[t], Key(t))
  /\ pc' = [pc EXCEPT ![t] = "count"]
  /\ UNCHANGED <<count, lock, at, call, answer, driver>>

\* blocklist_add: BL_ERR_ALLOC_FAIL.
NoMemory(t) ==
  /\ Miss(t) /\ IsCall(t, "add")
  /\ Decide(t, Word("failed"))
  /\ Unlock
  /\ UNCHANGED <<blocklist, at, call, driver>>

UnlinkFromHead(t) ==        \* mutant: head, not prev->next, is set
  /\ Hit(t) /\ IsCall(t, "remove")
  /\ list' = SubSeq(list, at[t] + 1, Len(list))
  /\ pc' = [pc EXCEPT ![t] = "count"]
  /\ UNCHANGED <<count, lock, at, call, answer, driver>>

\* blocklist_remove: found.
Unlink(t) ==
  /\ Hit(t) /\ IsCall(t, "remove")
  /\ list' = RemoveAt(list, at[t])
  /\ pc' = [pc EXCEPT ![t] = "count"]
  /\ UNCHANGED <<count, lock, at, call, answer, driver>>

NotFoundCounts(t) ==        \* mutant: falls through to the count
  /\ Miss(t) /\ IsCall(t, "remove")
  /\ count' = count - 1
  /\ Decide(t, Word("ok"))
  /\ Unlock
  /\ UNCHANGED <<list, at, call, driver>>

\* blocklist_remove: BL_ERR_NOT_FOUND, a success for the client.
NotFound(t) ==
  /\ Miss(t) /\ IsCall(t, "remove")
  /\ Decide(t, Word("ok"))
  /\ Unlock
  /\ UNCHANGED <<blocklist, at, call, driver>>

Change(t) == IF IsCall(t, "add") THEN 1 ELSE -1

\* The end of blocklist_add and blocklist_remove: count++ or count--.
Count(t) ==
  /\ pc[t] = "count"
  /\ count' = count + Change(t)
  /\ Decide(t, Word("ok"))
  /\ Unlock
  /\ UNCHANGED <<list, at, call, driver>>

\* blocklist_contains: 1, and the open completes with STATUS_ACCESS_DENIED.
Deny(t) ==
  /\ Hit(t) /\ IsCall(t, "execute")
  /\ Decide(t, Word("deny"))
  /\ Unlock
  /\ UNCHANGED <<blocklist, at, call, driver>>

\* blocklist_contains: 0.
Allow(t) ==
  /\ Miss(t) /\ IsCall(t, "execute")
  /\ Decide(t, Word("allow"))
  /\ Unlock
  /\ UNCHANGED <<blocklist, at, call, driver>>

\* blocklist_count, for MSG_QUERY_STATUS.
ReadCount(t) ==
  /\ pc[t] = "read"
  /\ Decide(t, Abstract!Number(count))
  /\ Unlock
  /\ UNCHANGED <<blocklist, at, call, driver>>

-----------------------------------------------------------------------------
(* The port and the driver's lifetime.                                     *)

Connect ==
  /\ loaded = "yes" /\ ~connected
  /\ connected' = TRUE
  /\ UNCHANGED <<blocklist, lock, pc, at, call, answer, loaded>>

\* The blocked paths stay: the service that comes back finds them blocked.
Disconnect ==
  /\ connected
  /\ connected' = FALSE
  /\ UNCHANGED <<blocklist, lock, pc, at, call, answer, loaded>>

\* SfUnload closes the ports, then FltUnregisterFilter waits for the callbacks.
Unload ==
  /\ loaded = "yes"
  /\ loaded' = "unloading" /\ connected' = FALSE
  /\ UNCHANGED <<blocklist, lock, pc, at, call, answer>>

Drained == \A t \in Threads : pc[t] = "idle"

Destroy ==
  /\ loaded = "unloading" /\ Drained /\ LockFree
  /\ list' = <<>> /\ count' = 0
  /\ loaded' = "no"
  /\ UNCHANGED <<lock, pc, at, call, answer, connected>>

\* DriverEntry, when all its calls succeed.
Load ==
  /\ loaded = "no"
  /\ list' = <<>> /\ count' = 0 /\ lock' = NoThread
  /\ loaded' = "yes"
  /\ UNCHANGED <<pc, at, call, answer, connected>>

-----------------------------------------------------------------------------
BeforeLock(t) ==
  EmptyList(t) \/ NonEmptyList(t) \/ LetThrough(t) \/ PathTooLong(t) \/ Lock(t)

Locked(t) ==
  \/ Walk(t)
  \/ Duplicate(t) \/ Link(t) \/ NoMemory(t)
  \/ Unlink(t) \/ NotFound(t) \/ Count(t)
  \/ Deny(t) \/ Allow(t) \/ ReadCount(t)

Lifetime == Connect \/ Disconnect \/ Unload \/ Destroy \/ Load

Next ==
  \/ \E t \in Threads, request \in Abstract!Requests : Call(t, request)
  \/ \E t \in Threads : BeforeLock(t) \/ Locked(t) \/ Return(t)
  \/ Lifetime

Spec == Init /\ [][Next]_vars

\* The holder of the lock runs at DISPATCH_LEVEL and cannot be preempted.  Spin
\* locks are not fair: no thread is promised the lock.
FairSpec == Spec /\ \A t \in Threads : WF_vars(Locked(t))

-----------------------------------------------------------------------------
(* Properties.                                                             *)

TypeOK ==
  /\ list \in Seq(Keys) /\ count \in Nat
  /\ lock \in Threads \cup {NoThread}
  /\ pc \in [Threads -> {"idle", "test", "entered", "walk", "read", "count", "decided"}]
  /\ at \in [Threads -> Nat \ {0}]
  /\ call \in [Threads -> Abstract!Requests \cup {NoCall}]
  /\ answer \in [Threads -> Abstract!Answers]
  /\ connected \in BOOLEAN /\ loaded \in {"yes", "unloading", "no"}

\* The list is sorted and free of duplicates, which the early break of the three
\* walks relies on.
Sorted == \A i, j \in DOMAIN list : i < j => list[i] < list[j]

\* Whenever the lock is free, `count` is the length of the list: the unlocked
\* test of SfPreCreate on it is a test for an empty list.
CountIsLength == lock = NoThread => count = Len(list)

\* A walk never holds a pointer beyond the list's end, nor to an entry freed
\* under it; and it has not passed its key.
CursorIsLive ==
  \A t \in Threads : Walking(t) =>
    /\ at[t] <= Len(list) + 1
    /\ \A i \in 1..(at[t] - 1) : list[i] < Key(t)

\* What the three walks and the unlocked test rely on: the list is sorted and free of
\* duplicates, `count` is its length whenever the lock is free, and no cursor is on an
\* entry that was freed.
ListIsSound == Sorted /\ CountIsLength /\ CursorIsLive

\* The driver is an atomic set of paths to its callers: every command and every
\* open, the one that leaves by the unlocked test included, takes effect at
\* an instant between its call and its return.
ImplementsBlockedPaths == Abstract!Spec

\* Every critical section ends: no path through the three functions returns
\* with the lock held.
LockIsReleased == \A t \in Threads : lock = t ~> lock # t
=============================================================================
