------------------------------- MODULE Canary -------------------------------
(***************************************************************************)
(* The canary traps, sentinel/engine/canary.py: files that nobody has a    *)
(* reason to touch, written by a CanaryManager that remembers them.        *)
(*                                                                         *)
(* Several threads work on one manager without a lock (the orchestrator    *)
(* arms and disarms, the handlers of IPC verify and repair), and each      *)
(* process has a manager of its own for the same files.  A thread takes    *)
(* the traps one by one.  What it walks over matters: `verify` and         *)
(* `disarm` walk over the dictionary itself, and Python raises when its    *)
(* size has changed; `repair` walks over a copy.                           *)
(*                                                                         *)
(* A file is as it was written, changed or gone; which template it has,    *)
(* its attributes and the order of a walk are left out.                    *)
(***************************************************************************)
EXTENDS Naturals, FiniteSets

CONSTANTS Traps, Threads,
          Managers, ManagerOf,   \* the manager a thread works on
          None

ASSUME CanaryAssumption ==
  /\ IsFiniteSet(Traps) /\ None \notin Traps
  /\ ManagerOf \in [Threads -> Managers]

VARIABLES disk,        \* the files: "intact", "changed" or "gone"
          canaries,    \* _canaries of each manager: the traps it remembers
          job,         \* what each thread is doing
          failed       \* history: a write or an unlink has failed

trapVars == <<disk, canaries, job, failed>>

\* `size` is that of the dictionary when the walk began; `due` is history: the traps
\* that have been bad all along.
Idle == [op |-> "none", todo |-> {}, at |-> None, size |-> 0, found |-> {}, due |-> {}]
Jobs == [op : {"none", "arm", "verify", "repair", "disarm"},
         todo : SUBSET Traps, at : Traps \cup {None}, size : 0..Cardinality(Traps),
         found : SUBSET Traps, due : SUBSET Traps]

Mine(t) == canaries[ManagerOf[t]]
Remember(t, S) == canaries' = [canaries EXCEPT ![ManagerOf[t]] = S]

Init ==
  /\ disk = [x \in Traps |-> "gone"]
  /\ canaries = [m \in Managers |-> {}]
  /\ job = [t \in Threads |-> Idle]
  /\ failed = FALSE

\* check_tampering: a file with the name of a trap that is not remembered counts as
\* tampered too.
TamperedIfGone(t, x) == x \notin Mine(t) \/ disk[x] = "gone"   \* mutant: no hash
Tampered(t, x) == x \notin Mine(t) \/ disk[x] # "intact"

\* A walk over the dictionary itself.
SizeChanged(t) == Cardinality(Mine(t)) # job[t].size

\* Write and register the new state of one thread; the others that verify lose the
\* traps that were repaired under them from what they owe.
Work(t, j, d) ==
  job' = [u \in Threads |->
            LET w == IF u = t THEN j ELSE job[u]
            IN  [w EXCEPT !.due = {x \in @ : d[x] # "intact"}]]

-----------------------------------------------------------------------------
Begin(t, op) ==
  /\ job[t].op = "none"
  /\ LET S == IF op = "arm" THEN {} ELSE Mine(t)
     IN  /\ Remember(t, S)
         /\ job' = [job EXCEPT ![t] =
                      [op |-> op, todo |-> IF op = "arm" THEN Traps ELSE S,
                       at |-> None, size |-> Cardinality(S), found |-> {},
                       due |-> {x \in S : disk[x] # "intact"}]]
  /\ UNCHANGED <<disk, failed>>

Doing(t, op) == job[t].op = op
Ended(t) == Doing(t, "none")

\* write_canary_content: a write that fails may have emptied the file.
Written(x) == disk' = [disk EXCEPT ![x] = "intact"]
WriteFails(x) == \E to \in {disk[x], "changed"} : disk' = [disk EXCEPT ![x] = to]

\* arm_traps: a trap is remembered when its file was written.
ArmOne(t) ==
  /\ Doing(t, "arm")
  /\ \E x \in job[t].todo :
       /\ \/ Written(x) /\ Remember(t, Mine(t) \cup {x}) /\ UNCHANGED failed
          \/ WriteFails(x) /\ failed' = TRUE /\ UNCHANGED canaries
       /\ Work(t, [job[t] EXCEPT !.todo = @ \ {x}], disk')

\* verify_all_canaries
VerifyOne(t) ==
  /\ Doing(t, "verify") /\ ~SizeChanged(t)
  /\ \E x \in job[t].todo :
       Work(t, [job[t] EXCEPT !.todo = @ \ {x},
                              !.found = IF Tampered(t, x) THEN @ \cup {x} ELSE @],
            disk)
  /\ UNCHANGED <<disk, canaries, failed>>

WalkRaises(t) ==
  /\ Doing(t, "verify") \/ Doing(t, "disarm")
  /\ SizeChanged(t)
  /\ job' = [job EXCEPT ![t] = Idle]
  /\ UNCHANGED <<disk, canaries, failed>>

\* repair_canaries: check, write, remember.
RepairCheck(t) ==
  /\ Doing(t, "repair") /\ job[t].at = None
  /\ \E x \in job[t].todo :
       Work(t, [job[t] EXCEPT !.todo = @ \ {x},
                              !.at = IF Tampered(t, x) THEN x ELSE None], disk)
  /\ UNCHANGED <<disk, canaries, failed>>

RepairWrite(t) ==
  /\ Doing(t, "repair") /\ job[t].at # None /\ job[t].at \notin job[t].found
  /\ Written(job[t].at)
  /\ Work(t, [job[t] EXCEPT !.found = @ \cup {job[t].at}], disk')
  /\ UNCHANGED <<canaries, failed>>

RepairFails(t) ==
  /\ Doing(t, "repair") /\ job[t].at # None /\ job[t].at \notin job[t].found
  /\ WriteFails(job[t].at) /\ failed' = TRUE
  /\ Work(t, [job[t] EXCEPT !.at = None], disk')
  /\ UNCHANGED canaries

RepairRemember(t) ==
  /\ Doing(t, "repair") /\ job[t].at \in job[t].found
  /\ Remember(t, Mine(t) \cup {job[t].at})
  /\ Work(t, [job[t] EXCEPT !.at = None], disk)
  /\ UNCHANGED <<disk, failed>>

DisarmIntact(t) ==              \* mutant: a trap that was changed is passed over
  /\ Doing(t, "disarm") /\ ~SizeChanged(t)
  /\ \E x \in job[t].todo :
       /\ disk' = [disk EXCEPT ![x] = IF @ = "intact" THEN "gone" ELSE @]
       /\ Work(t, [job[t] EXCEPT !.todo = @ \ {x}], disk')
  /\ UNCHANGED <<canaries, failed>>

\* disarm_traps: an unlink that fails (another program has the file open) is passed
\* over.
DisarmOne(t) ==
  /\ Doing(t, "disarm") /\ ~SizeChanged(t)
  /\ \E x \in job[t].todo :
       \/ /\ disk' = [disk EXCEPT ![x] = "gone"]
          /\ Work(t, [job[t] EXCEPT !.todo = @ \ {x}], disk')
          /\ UNCHANGED failed
       \/ /\ disk[x] # "gone"
          /\ Work(t, [job[t] EXCEPT !.todo = @ \ {x}], disk)
          /\ failed' = TRUE
          /\ UNCHANGED disk
  /\ UNCHANGED canaries

DisarmClear(t) ==
  /\ Doing(t, "disarm") /\ job[t].todo = {} /\ ~SizeChanged(t)
  /\ Remember(t, {})
  /\ job' = [job EXCEPT ![t] = Idle]
  /\ UNCHANGED <<disk, failed>>

\* A walk has come to its end.
WalkEnds(t) ==
  /\ job[t].op \in {"arm", "verify", "repair"}
  /\ job[t].todo = {} /\ job[t].at = None
  /\ Doing(t, "verify") => ~SizeChanged(t)
  /\ job' = [job EXCEPT ![t] = Idle]
  /\ UNCHANGED <<disk, canaries, failed>>

\* Another program changes or removes a trap.
Tamper(x, to) ==
  /\ disk[x] # "gone" /\ disk[x] # to
  /\ disk' = [disk EXCEPT ![x] = to]
  /\ UNCHANGED <<canaries, job, failed>>

Step(t) ==
  \/ ArmOne(t) \/ VerifyOne(t) \/ WalkRaises(t)
  \/ RepairCheck(t) \/ RepairWrite(t) \/ RepairFails(t) \/ RepairRemember(t)
  \/ DisarmOne(t) \/ DisarmClear(t) \/ WalkEnds(t)

-----------------------------------------------------------------------------
(* Properties.                                                             *)

\* verify_all_canaries reports every trap that was bad when it began and that nobody
\* has written since, whatever other threads repair, arm or disarm meanwhile.
VerifySees ==
  \A t \in Threads :
    Doing(t, "verify") => job[t].due \subseteq job[t].todo \cup job[t].found
=============================================================================
