------------------------------- MODULE Sandbox -------------------------------
(***************************************************************************)
(* The sandbox: analyze and run_binary of sentinel/sandbox/runner.py,      *)
(* run_isolated of isolation.py and the job object of job_object.py, with  *)
(* the program that is run and the processes it starts.                    *)
(*                                                                         *)
(* What an emulation finds is chosen freely here; Emulator has its steps.  *)
(* Files the program leaves in its folder are "script" (an extension of an *)
(* executable), "cipher" (of high entropy) and "many": more than three of  *)
(* any other kind, which a report counts; fewer of them show nothing.      *)
(***************************************************************************)
EXTENDS Naturals, FiniteSets

CONSTANTS Systems,           \* of "windows", "linux", "darwin"
          Root, Kids,        \* the program that is run, and those it starts
          MaxProcesses       \* ActiveProcessLimit

ASSUME SandboxAssumption == Root \notin Kids /\ MaxProcesses \in Nat \ {0}

VARIABLES system,
          run,               \* the call of analyze
          job,               \* the job object: "none", "lax" (no limits were set),
                             \* "strict" or "closed"
          procs,             \* the processes
          folder             \* the temporary folder: the files in it

sandboxVars == <<system, run, job, procs, folder>>

Family == {Root} \cup Kids
Drops == {"script", "cipher", "many"}

NoReport == [mode |-> "none", reasons |-> {}, seen |-> {}, timedOut |-> FALSE]
NoRun == [at |-> "out", mode |-> "none", emulated |-> {}, timedOut |-> FALSE, report |-> NoReport]
Unborn == [alive |-> FALSE, born |-> FALSE, jobbed |-> FALSE]
NoFolder == [there |-> FALSE, files |-> {}]

SandboxInit ==
  /\ system \in Systems
  /\ run = NoRun /\ job = "none" /\ folder = NoFolder
  /\ procs = [p \in Family |-> Unborn]

Alive == {p \in Family : procs[p].alive}
Kill(S) == [p \in Family |-> [procs[p] EXCEPT !.alive = @ /\ p \notin S]]
Going(at) == run' = [run EXCEPT !.at = at]

-----------------------------------------------------------------------------
(* The report: is_malicious, is_suspicious and to_signals.                 *)

IsMalicious(r) == "script" \in r.seen \/ "cipher" \in r.seen \/ "severe" \in r.reasons
IsSuspicious(r) ==
  IsMalicious(r) \/ r.reasons # {} \/ "many" \in r.seen

Signals(r) ==
  (IF "yara" \in r.reasons THEN {"sandbox_unpacked_yara"}
   ELSE IF IsMalicious(r) THEN {"sandbox_malicious"} ELSE {})
  \cup (IF "evasion" \in r.reasons THEN {"sandbox_evasion_detected"}
        ELSE IF IsSuspicious(r) /\ ~IsMalicious(r) THEN {"sandbox_suspicious"} ELSE {})

-----------------------------------------------------------------------------
(* analyze.                                                                *)

Analyze(mode) ==
  /\ run.at = "out"
  /\ run' = [NoRun EXCEPT !.mode = mode,
                          !.at = IF mode = "detonation" THEN "stage" ELSE "emulate"]
  /\ UNCHANGED <<system, job, procs, folder>>

\* A hybrid analysis goes on when the emulation is inconclusive.
Emulate(found) ==
  LET r == [NoReport EXCEPT !.mode = "emulation", !.reasons = found] IN
  /\ run.at = "emulate"
  /\ run' = IF run.mode = "hybrid" /\ ~IsMalicious(r)
            THEN [run EXCEPT !.at = "stage", !.emulated = found]
            ELSE [run EXCEPT !.at = "done", !.report = r]
  /\ UNCHANGED <<system, job, procs, folder>>

-----------------------------------------------------------------------------
(* run_binary.                                                             *)

\* The binary is not there.
NoBinary ==
  /\ run.at = "stage" /\ Going("raised")
  /\ UNCHANGED <<system, job, procs, folder>>

Stage ==
  /\ run.at = "stage"
  /\ folder' = [there |-> TRUE, files |-> {}]
  /\ Going("copy")
  /\ UNCHANGED <<system, job, procs>>

CopyFails ==
  /\ run.at = "copy"
  /\ folder' = NoFolder /\ Going("raised")
  /\ UNCHANGED <<system, job, procs>>

\* _create_job: without a handle, with one that took no limits, or with both.
Copy ==
  /\ run.at = "copy" /\ Going("spawn")
  /\ job' \in IF system = "windows" THEN {"none", "lax", "strict"} ELSE {"none"}
  /\ UNCHANGED <<system, procs, folder>>

SpawnFails ==
  /\ run.at = "spawn" /\ Going("close")
  /\ UNCHANGED <<system, job, procs, folder>>

SpawnRoot ==
  /\ run.at = "spawn"
  /\ procs' = [procs EXCEPT ![Root] = [Unborn EXCEPT !.alive = TRUE, !.born = TRUE]]
  /\ Going(IF system = "windows" THEN "assign" ELSE "wait")
  /\ UNCHANGED <<system, job, folder>>

\* The program has been running for a while when it is put into the job.
Assign ==
  /\ run.at = "assign" /\ job # "none" /\ procs[Root].alive
  /\ procs' = [procs EXCEPT ![Root].jobbed = TRUE]
  /\ Going("wait")
  /\ UNCHANGED <<system, job, folder>>

AssignFails ==
  /\ run.at = "assign" /\ Going("wait")
  /\ UNCHANGED <<system, job, procs, folder>>

Exited ==
  /\ run.at = "wait" /\ ~procs[Root].alive /\ Going("close")
  /\ UNCHANGED <<system, job, procs, folder>>

TimedOutUnkilled ==             \* mutant: the program is not killed
  /\ run.at = "wait" /\ procs[Root].alive
  /\ run' = [run EXCEPT !.at = "close", !.timedOut = TRUE]
  /\ UNCHANGED <<system, job, procs, folder>>

\* On Windows the wait may fail too.
TimedOut ==
  /\ run.at = "wait" /\ procs[Root].alive
  /\ procs' = Kill({Root})
  /\ \E late \in {TRUE} \cup {system # "windows"} :
       run' = [run EXCEPT !.at = "close", !.timedOut = late]
  /\ UNCHANGED <<system, job, folder>>

\* SandboxJobObject.close, and what the limits do then.
CloseJob ==
  /\ run.at = "close" /\ Going("look")
  /\ procs' = IF job = "strict" THEN Kill({p \in Family : procs[p].jobbed}) ELSE procs
  /\ job' = IF job = "strict" THEN "closed" ELSE "none"
  /\ UNCHANGED <<system, folder>>

\* The walk over the folder; a file may not be readable, and its entropy is not known.
\* Of what the emulation before it found, the report keeps the evasions.
LookAtFolder(unread) ==
  LET seen == folder.files \ (unread \cap {"cipher"})
      r == [mode |-> run.mode, timedOut |-> run.timedOut, seen |-> seen,
            reasons |-> (seen \cap {"script", "cipher"}) \cup (run.emulated \cap {"evasion"})]
  IN  /\ run.at = "look" /\ unread \subseteq folder.files
      /\ run' = [run EXCEPT !.at = "clean", !.report = r]
      /\ UNCHANGED <<system, job, procs, folder>>

\* rmtree ignores its errors: what a process holds open stays.
Clean ==
  /\ run.at = "clean" /\ Going("done")
  /\ \/ folder' = NoFolder
     \/ Alive # {} /\ UNCHANGED folder
  /\ UNCHANGED <<system, job, procs>>

\* Only a call that leaves nothing behind is followed by another.
Finish ==
  /\ run.at \in {"done", "raised"} /\ Alive = {} /\ ~folder.there
  /\ run' = NoRun /\ job' = "none"
  /\ procs' = [p \in Family |-> Unborn]
  /\ UNCHANGED <<system, folder>>

-----------------------------------------------------------------------------
(* The program.                                                            *)

\* A child is in the job of its parent, as far as the job takes it; on Linux the limit
\* of processes is the user's.
Fork(p, k) ==
  /\ procs[p].alive /\ ~procs[k].born
  /\ procs[p].jobbed /\ job = "strict" =>
       Cardinality({q \in Alive : procs[q].jobbed}) < MaxProcesses
  /\ procs' = [procs EXCEPT ![k] = [alive |-> TRUE, born |-> TRUE,
                                    jobbed |-> procs[p].jobbed]]
  /\ UNCHANGED <<system, run, job, folder>>

Exits(p) ==
  /\ procs[p].alive
  /\ procs' = Kill({p})
  /\ UNCHANGED <<system, run, job, folder>>

Write(d) ==
  /\ Alive # {} /\ folder.there
  /\ folder' = [folder EXCEPT !.files = @ \cup {d}]
  /\ UNCHANGED <<system, run, job, procs>>

SandboxNext ==
  \/ \E mode \in {"emulation", "detonation", "hybrid"} : Analyze(mode)
  \/ \E found \in SUBSET {"yara", "severe", "evasion", "mild"} :
       /\ "yara" \in found => "severe" \in found
       /\ Emulate(found)
  \/ NoBinary \/ Stage \/ CopyFails \/ Copy \/ SpawnFails \/ SpawnRoot
  \/ Assign \/ AssignFails \/ Exited \/ TimedOut \/ CloseJob
  \/ \E unread \in SUBSET Drops : LookAtFolder(unread)
  \/ Clean \/ Finish
  \/ \E p \in Family : Exits(p) \/ \E k \in Kids : Fork(p, k)
  \/ \E d \in Drops : Write(d)

SandboxSpec == SandboxInit /\ [][SandboxNext]_sandboxVars

-----------------------------------------------------------------------------
(* Properties.                                                             *)

SandboxOK ==
  /\ run.at \in {"out", "emulate", "stage", "copy", "spawn", "assign", "wait", "close",
                 "look", "clean", "done", "raised"}
  /\ job \in {"none", "lax", "strict", "closed"}
  /\ folder.files \subseteq Drops /\ (folder.files # {} => folder.there)
  /\ run.at = "done" => Signals(run.report) # {} \/ ~IsSuspicious(run.report)

\* When the folder is looked at, the program itself is dead, and with the limits of its
\* job set so is everything that it started after it was put into the job.
ContainedDie ==
  run.at \in {"look", "clean", "done"} =>
    /\ ~procs[Root].alive
    /\ job = "closed" => \A p \in Alive : ~procs[p].jobbed

\* runner.py:13, "Guaranteed cleanup and process termination".
NothingSurvives == run.at = "done" => Alive = {}
=============================================================================
