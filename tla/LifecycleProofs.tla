--------------------------- MODULE LifecycleProofs ---------------------------
(***************************************************************************)
(* Proofs about the life of the service.  The SCM starts a process only    *)
(* when it takes the service as stopped, and it does so only when no       *)
(* process serves any more: one that leaves has returned from SvcDoRun.    *)
(***************************************************************************)
EXTENDS Lifecycle, FiniteSetTheorems, TLAPS

Serves(i) == host[i] \in {"starting", "waiting", "joining"}

LifeTypes ==
  /\ scm \in {"stopped", "start pending", "running", "stop pending"}
  /\ host \in [Pids -> {"none", "starting", "waiting", "joining", "leaving"}]
  /\ orch \in [Pids -> {"none", "new", "init", "loop", "cleanup", "ended"}]
  /\ stop \subseteq Pids /\ foreign \subseteq Pids /\ wanted \in BOOLEAN
  /\ pidFile \in Pids \cup {None} /\ wpid \in Pids \cup {None}
  /\ wpc \in {"sleep", "pid", "scm", "dead", "restart"}
  /\ cool \in 0..Cooldown

StoppedServesNone == scm = "stopped" => \A i \in Pids : ~Serves(i)

OneServes == \A i, j \in Pids : Serves(i) /\ Serves(j) => i = j

LifeInv == LifeTypes /\ StoppedServesNone /\ OneServes

\* A step that leaves the first threads and the word of the SCM alone.
LEMMA HostsStay ==
  ASSUME LifeInv, UNCHANGED <<scm, host>>, LifeTypes'
  PROVE  LifeInv'
BY DEF LifeInv, StoppedServesNone, OneServes, Serves

\* StartService: of no process, one.
LEMMA LaunchKeeps ==
  ASSUME LifeInv, Launch
  PROVE  /\ scm' = "start pending" /\ UNCHANGED <<orch, stop>>
         /\ host' \in [Pids -> {"none", "starting", "waiting", "joining", "leaving"}]
         /\ OneServes'
<1>1. scm = "stopped" /\ scm' = "start pending" /\ UNCHANGED <<orch, stop>>
  BY DEF Launch
<1>2. PICK i \in Pids : host' = [host EXCEPT ![i] = "starting"]
  BY DEF Launch
<1>3. host \in [Pids -> {"none", "starting", "waiting", "joining", "leaving"}]
  BY DEF LifeInv, LifeTypes
<1>4. \A j \in Pids : host'[j] = IF j = i THEN "starting" ELSE host[j]
  BY <1>2, <1>3
<1>5. \A j \in Pids : ~Serves(j)
  BY <1>1 DEF LifeInv, StoppedServesNone
<1>6. OneServes'
  BY <1>4, <1>5 DEF OneServes, Serves
<1> QED BY <1>1, <1>2, <1>3, <1>6

\* The user or the watchdog starts the service.
LEMMA StartsKeep ==
  ASSUME LifeInv, UserStart \/ Restart
  PROVE  LifeInv'
<1>1. Launch /\ pidFile' = pidFile /\ foreign' = foreign /\ wpid' = wpid
  BY DEF UserStart, Restart, watchdog
<1>2. /\ scm' = "start pending" /\ UNCHANGED <<orch, stop>> /\ OneServes'
      /\ host' \in [Pids -> {"none", "starting", "waiting", "joining", "leaving"}]
  BY <1>1, LaunchKeeps
<1>3. wanted' \in BOOLEAN /\ wpc' \in {"sleep", "pid", "scm", "dead", "restart"} /\ cool' \in 0..Cooldown
  BY DEF LifeInv, LifeTypes, UserStart, Restart, Go, watchdog
<1>4. LifeTypes'
  BY <1>1, <1>2, <1>3 DEF LifeInv, LifeTypes
<1> QED BY <1>2, <1>4 DEF LifeInv, StoppedServesNone

\* The steps of the process i.
LEMMA HostKeeps ==
  ASSUME LifeInv, NEW i \in Pids, HostStep(i) \/ Kill(i)
  PROVE  LifeInv'
<1>1. /\ host \in [Pids -> {"none", "starting", "waiting", "joining", "leaving"}]
      /\ orch \in [Pids -> {"none", "new", "init", "loop", "cleanup", "ended"}]
  BY DEF LifeInv, LifeTypes
<1>2. CASE SvcDoRun(i) \/ Join(i)
  <2>1. /\ \E to \in {"waiting", "joining"} : host' = [host EXCEPT ![i] = to]
        /\ Serves(i) /\ scm' \in {scm, "running"}
        /\ UNCHANGED <<stop, pidFile, foreign, wanted, watchdog>>
    BY <1>2 DEF SvcDoRun, Join, Serves
  <2>2. orch' \in [Pids -> {"none", "new", "init", "loop", "cleanup", "ended"}]
    BY <1>1, <1>2 DEF SvcDoRun, Join
  <2>3. /\ host' \in [Pids -> {"none", "starting", "waiting", "joining", "leaving"}]
        /\ \A j \in Pids : Serves(j)' <=> Serves(j)
    BY <1>1, <2>1 DEF Serves
  <2>4. scm' # "stopped"
    BY <2>1 DEF LifeInv, StoppedServesNone
  <2> QED BY <2>1, <2>2, <2>3, <2>4
          DEF LifeInv, LifeTypes, StoppedServesNone, OneServes, watchdog
<1>3. CASE JoinReturns(i)
  <2>1. /\ host' = [host EXCEPT ![i] = "leaving"] /\ Serves(i) /\ scm' = "stopped"
        /\ UNCHANGED <<orch, stop, pidFile, foreign, wanted, watchdog>>
    BY <1>3 DEF JoinReturns, Return, Serves
  <2>2. /\ host' \in [Pids -> {"none", "starting", "waiting", "joining", "leaving"}]
        /\ \A j \in Pids : ~Serves(j)'
    BY <1>1, <2>1 DEF LifeInv, OneServes, Serves
  <2> QED BY <2>1, <2>2
          DEF LifeInv, LifeTypes, StoppedServesNone, OneServes, watchdog
<1>4. CASE Leave(i) \/ Kill(i)
  <2>1. /\ host' = [host EXCEPT ![i] = "none"] /\ orch' = [orch EXCEPT ![i] = "none"]
        /\ stop' = stop \ {i} /\ UNCHANGED <<pidFile, foreign, wanted, watchdog>>
    BY <1>4 DEF Leave, Kill, Vanish
  <2>2. /\ host' \in [Pids -> {"none", "starting", "waiting", "joining", "leaving"}]
        /\ orch' \in [Pids -> {"none", "new", "init", "loop", "cleanup", "ended"}]
        /\ \A j \in Pids : Serves(j)' <=> Serves(j) /\ j # i
    BY <1>1, <2>1 DEF Serves
  <2>3. scm' \in {scm, "stopped"} /\ (scm' # scm => Serves(i))
    BY <1>1, <1>4 DEF Leave, Kill, Gone, Serves
  <2>4. StoppedServesNone' /\ OneServes'
    BY <2>2, <2>3 DEF LifeInv, StoppedServesNone, OneServes
  <2> QED BY <2>1, <2>2, <2>3, <2>4 DEF LifeInv, LifeTypes, watchdog
<1> QED BY <1>2, <1>3, <1>4 DEF HostStep

\* The orchestrator's thread changes nothing that the SCM knows.
LEMMA OrchestratorKeeps ==
  ASSUME LifeInv, NEW i \in Pids, OrchStep(i)
  PROVE  LifeInv'
<1>1. \E to \in {"init", "ended", "loop", "cleanup"} : orch' = [orch EXCEPT ![i] = to]
  BY DEF OrchStep, WritePid, WritePidFails, InitComponents, RunLoopEnds, Cleanup, Advance
<1>2. orch' \in [Pids -> {"none", "new", "init", "loop", "cleanup", "ended"}]
  BY <1>1 DEF LifeInv, LifeTypes
<1>3. /\ pidFile' \in Pids \cup {None}
      /\ UNCHANGED <<scm, host, stop, foreign, wanted, watchdog>>
  BY DEF LifeInv, LifeTypes, OrchStep, WritePid, WritePidFails, InitComponents, RunLoopEnds,
         Cleanup
<1> QED BY <1>2, <1>3, HostsStay DEF LifeInv, LifeTypes, watchdog

LEMMA OthersKeep ==
  ASSUME LifeInv,
         \/ SvcStop \/ ReadPid \/ CheckPid \/ AskScm \/ InCooldown \/ Notify \/ RestartFails
         \/ Tick \/ \E i \in Pids : GivePid(i)
  PROVE  LifeInv'
<1>1. Cooldown \in Nat
  BY LifecycleAssumption
<1>2. CASE SvcStop
  BY <1>2 DEF SvcStop, LifeInv, LifeTypes, StoppedServesNone, OneServes, Serves, watchdog
<1>3. CASE \E i \in Pids : GivePid(i)
  <2>1. foreign' \subseteq Pids /\ UNCHANGED <<service, pidFile, wanted, watchdog>>
    BY <1>3 DEF GivePid, LifeInv, LifeTypes
  <2> QED BY <2>1, HostsStay DEF LifeInv, LifeTypes, service, watchdog
<1>4. CASE Tick
  <2>1. /\ cool \in 0..Cooldown /\ cool > 0 /\ cool' = cool - 1
        /\ UNCHANGED <<service, pidFile, foreign, wanted, wpc, wpid>>
    BY <1>4 DEF Tick, LifeInv, LifeTypes
  <2>2. cool' \in 0..Cooldown
    BY <1>1, <2>1
  <2> QED BY <2>1, <2>2, HostsStay DEF LifeInv, LifeTypes, service
<1>5. CASE ReadPid \/ CheckPid \/ AskScm \/ InCooldown \/ Notify \/ RestartFails
  <2>1. /\ wpc' \in {"sleep", "pid", "scm", "dead", "restart"} /\ wpid' \in Pids \cup {None}
        /\ UNCHANGED <<service, pidFile, foreign, wanted, cool>>
    BY <1>5 DEF ReadPid, CheckPid, AskScm, InCooldown, Notify, RestartFails, Go, LifeInv, LifeTypes
  <2> QED BY <2>1, HostsStay DEF LifeInv, LifeTypes, service
<1> QED BY <1>2, <1>3, <1>4, <1>5

LEMMA LifeStart == Init => LifeInv
<1> SUFFICES ASSUME Init PROVE LifeInv
  OBVIOUS
<1>1. /\ host \in [Pids -> {"none", "starting", "waiting", "joining", "leaving"}]
      /\ orch \in [Pids -> {"none", "new", "init", "loop", "cleanup", "ended"}]
      /\ \A i \in Pids : ~Serves(i)
  BY DEF Init, Serves
<1>2. cool \in 0..Cooldown /\ stop \subseteq Pids /\ foreign \subseteq Pids
  BY LifecycleAssumption DEF Init
<1> QED BY <1>1, <1>2 DEF Init, LifeInv, LifeTypes, StoppedServesNone, OneServes

LEMMA LifeKeeps == LifeInv /\ [Next]_vars => LifeInv'
<1>1. ASSUME LifeInv, UNCHANGED vars PROVE LifeInv'
  BY <1>1, HostsStay DEF LifeInv, LifeTypes, vars, service, watchdog
<1> QED BY <1>1, StartsKeep, HostKeeps, OrchestratorKeeps, OthersKeep DEF Next, Poll

\* However many processes follow each other, and wherever the service or the watchdog
\* is cut off: the types, and that the SCM's service is one process at a time.
THEOREM OneServiceAtATime == Spec => []TypeOK
<1>1. ASSUME LifeInv PROVE TypeOK
  <2> DEFINE S == {i \in Pids : host[i] \in {"starting", "waiting", "joining"}}
  <2>1. \A i, j \in S : i = j
    BY <1>1 DEF LifeInv, OneServes, Serves
  <2>2. Cardinality(S) <= 1
    <3> HIDE DEF S
    <3>1. CASE S = {}
      BY <3>1, FS_EmptySet
    <3>2. CASE S # {}
      <4>1. PICK i : i \in S
        BY <3>2
      <4>2. S = {i}
        BY <2>1, <4>1
      <4>3. Cardinality(S) = 1
        BY <4>2, FS_Singleton
      <4> QED BY <4>3
    <3> QED BY <3>1, <3>2
  <2> QED BY <1>1, <2>2 DEF LifeInv, LifeTypes, TypeOK
<1> QED BY <1>1, LifeStart, LifeKeeps, PTL DEF Spec
=============================================================================
