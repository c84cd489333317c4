---------------------------- MODULE BlockedPaths ----------------------------
(***************************************************************************)
(* What SentinelFilter.sys promises to its callers, as one atomic set: an  *)
(* add or a remove takes effect, and an open or a status query looks at    *)
(* the set, at a single instant between the call and its return            *)
(* (driver/SentinelFilter/blocklist.h, "Public API").                      *)
(***************************************************************************)
EXTENDS Integers, FiniteSets

CONSTANTS Clients,   \* threads of the service that send commands to the port
          Openers,   \* threads whose file opens pass through the filter
          Paths,     \* the paths in commands and opens
          Norm       \* bl_normalize_path: equal for paths that differ in case
                     \* or in the slash; TooLong for one it refuses

Threads == Clients \cup Openers
TooLong == 0
Keys    == {Norm[p] : p \in Paths} \ {TooLong}

\* execute: a user-mode open with any of the rights of FILE_GENERIC_EXECUTE, whose
\* name the Filter Manager provides; other: every other open, which the driver
\* lets through.
Commands == [op : {"add", "remove"}, path : Paths] \cup {[op |-> "status"]}
Opens    == [op : {"execute"}, path : Paths] \cup {[op |-> "other"]}
Requests == Commands \cup Opens
NoCall   == [op |-> "none"]

\* An answer is a word, with the number of blocked paths for a status query.
Word(w)   == [word |-> w, count |-> 0]
Number(n) == [word |-> "count", count |-> n]
NoAnswer  == Word("none")
Answers   == [word : {"none", "ok", "failed", "allow", "deny", "count"}, count : Nat]

VARIABLES blocked,   \* the normalized paths that are blocked
          call,      \* the request of each thread
          answer     \* its answer: NoAnswer until it is decided

abstractVars == <<blocked, call, answer>>

Init ==
  /\ blocked = {}
  /\ call = [t \in Threads |-> NoCall]
  /\ answer = [t \in Threads |-> NoAnswer]

Key(t) == Norm[call[t].path]

Ask(t, request) ==
  /\ call[t] = NoCall
  /\ request \in (IF t \in Clients THEN Commands ELSE Opens)
  /\ call' = [call EXCEPT ![t] = request]
  /\ UNCHANGED <<blocked, answer>>

Decides(t, op) == call[t] # NoCall /\ call[t].op = op /\ answer[t] = NoAnswer
Answer(t, a) == answer' = [answer EXCEPT ![t] = a]

\* Also when the path was on the list already.
Add(t) ==
  /\ Decides(t, "add") /\ Key(t) # TooLong
  /\ blocked' = blocked \cup {Key(t)}
  /\ Answer(t, Word("ok"))
  /\ UNCHANGED call

\* No memory, or the path is too long.
AddFails(t) ==
  /\ Decides(t, "add")
  /\ Answer(t, Word("failed"))
  /\ UNCHANGED <<blocked, call>>

\* Also when the path was not on the list, or is too long to be.
Remove(t) ==
  /\ Decides(t, "remove")
  /\ blocked' = blocked \ {Key(t)}
  /\ Answer(t, Word("ok"))
  /\ UNCHANGED call

Status(t) ==
  /\ Decides(t, "status")
  /\ Answer(t, Number(Cardinality(blocked)))
  /\ UNCHANGED <<blocked, call>>

\* Denied exactly when the path is blocked.
Execute(t) ==
  /\ Decides(t, "execute")
  /\ Answer(t, Word(IF Key(t) \in blocked THEN "deny" ELSE "allow"))
  /\ UNCHANGED <<blocked, call>>

Other(t) ==
  /\ Decides(t, "other")
  /\ Answer(t, Word("allow"))
  /\ UNCHANGED <<blocked, call>>

Return(t) ==
  /\ call[t] # NoCall /\ answer[t] # NoAnswer
  /\ call' = [call EXCEPT ![t] = NoCall]
  /\ Answer(t, NoAnswer)
  /\ UNCHANGED blocked

\* The driver is unloaded.
Clear ==
  /\ \A t \in Threads : call[t] = NoCall
  /\ blocked' = {}
  /\ UNCHANGED <<call, answer>>

Next ==
  \/ \E t \in Threads, request \in Requests : Ask(t, request)
  \/ \E t \in Threads : \/ Add(t) \/ AddFails(t) \/ Remove(t) \/ Status(t)
                        \/ Execute(t) \/ Other(t) \/ Return(t)
  \/ Clear

Spec == Init /\ [][Next]_abstractVars
=============================================================================
