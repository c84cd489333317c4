----------------------------- MODULE Lifecycle -----------------------------
(***************************************************************************)
(* The life of the service on Windows, sentinel/service.py, under the      *)
(* watchdog, sentinel/watchdog_svc.py.                                     *)
(*                                                                         *)
(* A process of the service has two threads here: the one of the Windows   *)
(* service (SvcDoRun), which the Service Control Manager (SCM) knows, and  *)
(* the orchestrator, which the SCM does not.  The watchdog finds out       *)
(* whether the service is alive in separate reads: of the pid file, of     *)
(* that pid, of the SCM.  A process is named by its pid, and a pid can be  *)
(* given to another program when its process has gone.                     *)
(*                                                                         *)
(* The SCM takes the service as stopped once SvcDoRun has returned, which  *)
(* can be before its process has gone.  The steps of _cleanup before the   *)
(* removal of the pid file are one step that may never come or may fail.   *)
(***************************************************************************)
EXTENDS Integers, FiniteSets

CONSTANTS Pids,
          None,       \* no pid file
          Cooldown    \* _RESTART_COOLDOWN, in ticks

ASSUME LifecycleAssumption == None \notin Pids /\ Cooldown \in Nat

VARIABLES scm,      \* the state the SCM reports
          host,     \* where the first thread of each process is
          orch,     \* where its orchestrator is
          stop,     \* the processes whose stop events are set
          pidFile,  \* sentinel.pid
          foreign,  \* the pids another program has got
          wanted,   \* history: the user has started the service, and not stopped it
          wpc, wpid,  \* where the watchdog is; the pid it has read
          cool      \* what is left of its cooldown

service  == <<scm, host, orch, stop>>
watchdog == <<wpc, wpid, cool>>
vars == <<service, pidFile, foreign, wanted, watchdog>>

Gone(i) == host[i] = "none"

Init ==
  /\ scm = "stopped"
  /\ host = [i \in Pids |-> "none"] /\ orch = [i \in Pids |-> "none"] /\ stop = {}
  /\ pidFile = None /\ foreign = {} /\ wanted = FALSE
  /\ wpc = "sleep" /\ wpid = None /\ cool = 0

-----------------------------------------------------------------------------
(* The service.                                                            *)

\* StartService, by the user or by the watchdog.
Launch ==
  /\ scm = "stopped"
  /\ scm' = "start pending"
  /\ \E i \in Pids \ foreign :
       /\ Gone(i)
       /\ host' = [host EXCEPT ![i] = "starting"]
  /\ UNCHANGED <<orch, stop>>

UserStart ==
  /\ Launch
  /\ wanted' = TRUE
  /\ UNCHANGED <<pidFile, foreign, watchdog>>

\* SvcDoRun: the orchestrator gets a thread of its own.
SvcDoRun(i) ==
  /\ host[i] = "starting"
  /\ scm' = "running"
  /\ host' = [host EXCEPT ![i] = "waiting"]
  /\ orch' = [orch EXCEPT ![i] = "new"]
  /\ UNCHANGED <<stop, pidFile, foreign, wanted, watchdog>>

SvcStop ==
  /\ scm = "running"
  /\ scm' = "stop pending"
  /\ stop' = stop \cup {i \in Pids : host[i] = "waiting"}
  /\ wanted' = FALSE
  /\ UNCHANGED <<host, orch, pidFile, foreign, watchdog>>

Join(i) ==
  /\ host[i] = "waiting" /\ i \in stop
  /\ host' = [host EXCEPT ![i] = "joining"]
  /\ UNCHANGED <<scm, orch, stop, pidFile, foreign, wanted, watchdog>>

Return(i) ==
  /\ host[i] = "joining"
  /\ scm' = "stopped"
  /\ host' = [host EXCEPT ![i] = "leaving"]
  /\ UNCHANGED <<orch, stop, pidFile, foreign, wanted, watchdog>>

JoinWithoutTimeout(i) ==     \* mutant: thread.join()
  /\ orch[i] = "ended"
  /\ Return(i)

\* thread.join(timeout=10): the orchestrator has ended, or the time is up.
JoinReturns(i) == Return(i)

\* The process is gone: its threads are, whatever they were doing.
Vanish(i) ==
  /\ host' = [host EXCEPT ![i] = "none"]
  /\ orch' = [orch EXCEPT ![i] = "none"]
  /\ stop' = stop \ {i}
  /\ UNCHANGED <<pidFile, foreign, wanted, watchdog>>

Leave(i) ==
  /\ host[i] = "leaving"
  /\ Vanish(i)
  /\ UNCHANGED scm

\* The process is killed, or breaks down.
Kill(i) ==
  /\ ~Gone(i)
  /\ scm' = IF host[i] = "leaving" THEN scm ELSE "stopped"
  /\ Vanish(i)

\* Another program gets the pid of a process that has gone, or gives it back.
GivePid(i) ==
  /\ Gone(i)
  /\ foreign' = IF i \in foreign THEN foreign \ {i} ELSE foreign \cup {i}
  /\ UNCHANGED <<service, pidFile, wanted, watchdog>>

-----------------------------------------------------------------------------
(* SentinelOrchestrator.start.                                             *)

Advance(i, to) == orch' = [orch EXCEPT ![i] = to]

WritePid(i) ==
  /\ orch[i] = "new"
  /\ pidFile' = i
  /\ Advance(i, "init")
  /\ UNCHANGED <<scm, host, stop, foreign, wanted, watchdog>>

\* _write_pid is not inside the `try`.
WritePidFails(i) ==
  /\ orch[i] = "new"
  /\ Advance(i, "ended")
  /\ UNCHANGED <<scm, host, stop, pidFile, foreign, wanted, watchdog>>

\* _init_components, which can raise (events.db cannot be opened).
InitComponents(i) ==
  /\ orch[i] = "init"
  /\ Advance(i, "loop") \/ Advance(i, "cleanup")
  /\ UNCHANGED <<scm, host, stop, pidFile, foreign, wanted, watchdog>>

RunLoopEnds(i) ==
  /\ orch[i] = "loop" /\ i \in stop
  /\ Advance(i, "cleanup")
  /\ UNCHANGED <<scm, host, stop, pidFile, foreign, wanted, watchdog>>

\* _cleanup, in the `finally`: after a stop and after a crash alike.  The close of
\* the bus is the one step whose exception is not caught.
Cleanup(i) ==
  /\ orch[i] = "cleanup"
  /\ Advance(i, "ended")
  /\ pidFile' \in {pidFile, None}
  /\ UNCHANGED <<scm, host, stop, foreign, wanted, watchdog>>

-----------------------------------------------------------------------------
(* Watchdog.start, _check_alive and _handle_death.                         *)

At(pc) == wpc = pc
Go(pc) == wpc' = pc

ReadPid ==
  /\ At("sleep")
  /\ wpid' = pidFile
  /\ Go("pid")
  /\ UNCHANGED <<service, pidFile, foreign, wanted, cool>>

PidAlive == wpid # None /\ (wpid \in foreign \/ ~Gone(wpid))

CheckPid ==
  /\ At("pid")
  /\ Go(IF PidAlive THEN "sleep" ELSE "scm")
  /\ UNCHANGED <<service, pidFile, foreign, wanted, wpid, cool>>

\* _service_running, which answers no when it may not ask; no pid file is taken for
\* a service that has not been started yet.
AskScm ==
  /\ At("scm")
  /\ \/ scm = "running" /\ Go("sleep")
     \/ Go(IF wpid = None THEN "sleep" ELSE "dead")
  /\ UNCHANGED <<service, pidFile, foreign, wanted, wpid, cool>>

InCooldownResets ==          \* mutant: the cooldown starts again when it is hit
  /\ At("dead") /\ cool > 0
  /\ cool' = Cooldown
  /\ Go("sleep")
  /\ UNCHANGED <<service, pidFile, foreign, wanted, wpid>>

InCooldown ==
  /\ At("dead") /\ cool > 0
  /\ Go("sleep")
  /\ UNCHANGED <<service, pidFile, foreign, wanted, wpid, cool>>

Notify ==
  /\ At("dead") /\ cool = 0
  /\ Go("restart")
  /\ UNCHANGED <<service, pidFile, foreign, wanted, wpid, cool>>

RestartBySpawn ==            \* mutant: a process of its own, past the SCM
  /\ At("restart")
  /\ \E i \in Pids \ foreign :
       /\ Gone(i)
       /\ host' = [host EXCEPT ![i] = "starting"]
  /\ cool' \in 0..Cooldown
  /\ Go("sleep")
  /\ UNCHANGED <<scm, orch, stop, pidFile, foreign, wanted, wpid>>

\* The cooldown counts from before the notification.
Restart ==
  /\ At("restart")
  /\ Launch
  /\ cool' \in 0..Cooldown
  /\ Go("sleep")
  /\ UNCHANGED <<pidFile, foreign, wanted, wpid>>

\* The SCM refuses, or the service is not stopped.
RestartFails ==
  /\ At("restart")
  /\ Go("sleep")
  /\ UNCHANGED <<service, pidFile, foreign, wanted, wpid, cool>>

Tick ==
  /\ cool > 0
  /\ cool' = cool - 1
  /\ UNCHANGED <<service, pidFile, foreign, wanted, wpc, wpid>>

-----------------------------------------------------------------------------
HostStep(i) == SvcDoRun(i) \/ Join(i) \/ JoinReturns(i) \/ Leave(i)

OrchStep(i) ==
  \/ WritePid(i) \/ WritePidFails(i)
  \/ InitComponents(i) \/ RunLoopEnds(i) \/ Cleanup(i)

Poll == ReadPid \/ CheckPid \/ AskScm \/ InCooldown \/ Notify \/ Restart \/ RestartFails

Next ==
  \/ UserStart \/ SvcStop
  \/ \E i \in Pids : HostStep(i) \/ OrchStep(i) \/ Kill(i) \/ GivePid(i)
  \/ Poll \/ Tick

Spec == Init /\ [][Next]_vars

\* The first thread of a process waits for nothing without a timeout but the stop
\* event; the watchdog sleeps for a fixed time; time passes; and the SCM, asked
\* again and again for a service that is stopped, will start it.  Nothing is
\* assumed of the orchestrator.
Fairness ==
  /\ \A i \in Pids : WF_vars(HostStep(i))
  /\ WF_vars(Poll) /\ WF_vars(Tick)
  /\ SF_vars(Restart)
FairSpec == Spec /\ Fairness

-----------------------------------------------------------------------------
(* Properties.                                                             *)

\* Every variable keeps its type; the SCM's service is one process.
TypeOK ==
  /\ scm \in {"stopped", "start pending", "running", "stop pending"}
  /\ host \in [Pids -> {"none", "starting", "waiting", "joining", "leaving"}]
  /\ orch \in [Pids -> {"none", "new", "init", "loop", "cleanup", "ended"}]
  /\ stop \subseteq Pids /\ foreign \subseteq Pids /\ wanted \in BOOLEAN
  /\ pidFile \in Pids \cup {None} /\ wpid \in Pids \cup {None}
  /\ wpc \in {"sleep", "pid", "scm", "dead", "restart"}
  /\ cool \in 0..Cooldown
  /\ Cardinality({i \in Pids : host[i] \in {"starting", "waiting", "joining"}}) <= 1

Dead == wanted /\ \A i \in Pids : Gone(i)

\* A service that was killed is started again: when no process of it is left and
\* its pid file is, the watchdog starts one, unless the user does, or another
\* program gets the pid.
KilledComesBack ==
  Dead /\ pidFile # None ~> scm # "stopped" \/ ~wanted \/ pidFile \in foreign

\* A stop ends, whether the orchestrator runs, hangs or has crashed.
StopEnds == scm = "stop pending" ~> scm # "stop pending"

\* "restarts it if it dies unexpectedly": a service that should run and whose
\* orchestrator has crashed does not stay so; its process is stopped, or replaced.
Crashed == wanted /\ \E i \in Pids : host[i] = "waiting" /\ orch[i] = "ended"
CrashedComesBack == Crashed ~> ~Crashed
=============================================================================
