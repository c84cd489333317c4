------------------------------- MODULE Sensors -------------------------------
(***************************************************************************)
(* The sensors, sentinel/sensors, as service.py starts them on each        *)
(* platform, the threads, observers, sessions and helper programs they     *)
(* run, the events they build and publish, and the stop.  The records a    *)
(* system writes are noise, that the sensor passes over, or a matter for   *)
(* an event; their texts and fields are left out.                          *)
(***************************************************************************)
EXTENDS Naturals, Sequences, FiniteSets

CONSTANTS Machines, Folders, Connections,
          MaxRecords         \* bound: the records of a sensor

ASSUME SensorsAssumption ==
  /\ Machines \subseteq {"windows", "linux", "darwin"}
  /\ MaxRecords \in Nat /\ IsFiniteSet(Connections)

VARIABLES host,         \* PLATFORM, and what the system grants
          phase,             \* of the service: "starting", "running", "stopping", "stopped"
          plan,              \* the sensors still to start, then those still to stop
          listed,            \* _sensors: those that started, in that order
          sensor,
          sockets, seen      \* the connections there are, and _seen

sensorVars == <<host, phase, plan, listed, sensor, sockets, seen>>

Kinds == {"fs", "fanotify", "fsevents", "network", "etw", "eventlog",
          "audit", "journald", "maclog"}

\* The file sensor first, then the network, then those of the platform.
Plan(p) ==
  CASE p = "windows" -> <<"fs", "network", "etw", "eventlog">>
    [] p = "linux"   -> <<"fanotify", "network", "audit", "journald">>
    [] p = "darwin"  -> <<"fsevents", "network", "maclog">>

\* `parts` are the observers of an fs sensor; `helper` is a journalctl or log stream
\* that runs; `todo` the records that wait; `took` and `sent` are history, of events.
Absent == [at |-> "absent", mode |-> "none", parts |-> {}, helper |-> FALSE,
           todo |-> 0, took |-> 0, sent |-> 0]

SensorsInit ==
  /\ host \in Machines /\ phase = "starting" /\ plan = Plan(host) /\ listed = <<>>
  /\ sensor = [k \in Kinds |-> Absent]
  /\ sockets \in SUBSET Connections /\ seen = {}

-----------------------------------------------------------------------------
(* Event, of schema.py: a dataclass that knows its fields and two enums.   *)

Fields == {"timestamp", "source", "event_type", "pid", "parent_pid", "image_path",
           "command_line", "hash_sha256", "extra"}
Sources == {"etw_process", "fs", "network", "eventlog"}

EventTypes == {"process_create", "process_exit", "image_load", "registry_write", "file_write",
               "connection", "login_failed", "process_suspended", "file_quarantined"}

Keywords(k) ==
  CASE k \in {"fs", "network", "etw", "eventlog"} -> Fields
    [] OTHER -> {"timestamp", "source", "event_type", "severity", "description", "extra"}

SourceOf(k) ==
  CASE k = "etw" -> "etw_process" [] k = "maclog" -> "macos_log" [] OTHER -> k

EventBuilds(k, type) ==
  Keywords(k) \subseteq Fields /\ SourceOf(k) \in Sources /\ type \in EventTypes

-----------------------------------------------------------------------------
(* What each sensor makes of a record: the type of an event, or "none" for *)
(* what it passes over.  An unread type, a repeated serial, a line that    *)
(* cannot be parsed and a file that has gone are the record "other".       *)

\* By the provider, and by the name of the task when the provider is unknown.
EtwEvent(r) ==
  CASE r \in {"start", "task PROCESSSTART"} -> "process_create"
    [] r \in {"stop", "task PROCESSSTOP"}   -> "process_exit"
    [] r \in {"load", "task IMAGELOAD"}     -> "image_load"
    [] r = "registry"                       -> "registry_write"
    [] OTHER                                -> "none"

\* A deletion is a write, and so is a file that cannot be read; a directory is neither.
WriteEvent(r) == IF r \in {"created", "modified", "moved", "deleted"} THEN "file_write" ELSE "none"

\* An application is a directory, which no callback lets through: only a file of that
\* suffix counts as one.
HandlerEvent(r) ==
  CASE r = "app created"            -> "app_bundle_created"
    [] r \in {"created", "moved"}   -> "file_write"
    [] r = "modified"               -> "file_modify"
    [] OTHER                        -> "none"

\* One event for a mask of several bits; none for a file that has gone.
MaskEvent(mask) ==
  CASE "exec" \in mask        -> "file_exec"
    [] "close_write" \in mask -> "file_write"
    [] "modify" \in mask      -> "file_modify"
    [] "open" \in mask        -> "file_open"
    [] OTHER                  -> "file_access"

AuditEvent(r) ==
  CASE r \in {"EXECVE", "SYSCALL execve"}                -> "process_create"
    [] r \in {"USER_AUTH", "USER_LOGIN", "USER_START"}   -> "auth_event"
    [] r = "PATH"                                        -> "file_access"
    [] OTHER                                             -> "none"

\* A message of a unit that is listed, or that a pattern matches.
JournalEvent(r) ==
  CASE r.pattern # "none" -> r.pattern
    [] r.unit             -> "system_event"
    [] OTHER              -> "none"

LogEvent(r) == r.pattern

\* A failed login that is newer than the last.
LoginEvent(r) == IF r = "4625" THEN "login_failed" ELSE "none"

RecordEvents(k) ==
  CASE k = "etw"      -> {EtwEvent(r) : r \in {"start", "stop", "load", "registry", "other"}}
    [] k = "fs"       -> {WriteEvent(r) : r \in {"created", "deleted", "directory"}}
    [] k = "fsevents" -> {HandlerEvent(r) : r \in {"app created", "moved", "modified", "other"}}
    [] k = "fanotify" -> {MaskEvent(r) : r \in SUBSET {"exec", "close_write", "open"}} \cup {"none"}
    [] k = "audit"    -> {AuditEvent(r) : r \in {"EXECVE", "USER_AUTH", "PATH", "other"}}
    [] k = "journald" -> {JournalEvent([unit |-> u, pattern |-> p]) :
                            u \in BOOLEAN, p \in {"none", "auth_failure"}}
    [] k = "maclog"   -> {LogEvent([pattern |-> p]) : p \in {"none", "process_create"}}
    [] k = "eventlog" -> {LoginEvent(r) : r \in {"4625", "other"}}
    [] OTHER          -> {"connection"}

-----------------------------------------------------------------------------
(* _start_sensors.                                                         *)

Next1 == Head(plan)
Starting(k) == phase = "starting" /\ plan # <<>> /\ Next1 = k
Started(k, r) ==
  /\ sensor' = [sensor EXCEPT ![k] = r]
  /\ plan' = Tail(plan) /\ listed' = Append(listed, k)

\* Without fanotify in the C library the watchdog sensor takes its place.
FallBack ==
  /\ Starting("fanotify")
  /\ plan' = <<"fs">> \o Tail(plan)
  /\ UNCHANGED <<host, phase, listed, sensor, sockets, seen>>

\* An exception of a start is logged: no capability, no privilege, an observer that
\* cannot be had.  Observers that had been started go on.
StartFails(k) ==
  /\ Starting(k) /\ plan' = Tail(plan)
  /\ \E some \in IF k = "fs" THEN (SUBSET Folders) \ {Folders} ELSE {{}} :
       sensor' = [sensor EXCEPT ![k] =
                    [Absent EXCEPT !.parts = some,
                                   !.at = IF some = {} THEN "absent" ELSE "running"]]
  /\ UNCHANGED <<host, phase, listed, sockets, seen>>

Up == [Absent EXCEPT !.at = "running", !.mode = "native"]

StartFs ==
  /\ Starting("fs")
  /\ \E there \in SUBSET Folders :
       Started("fs", [Up EXCEPT !.parts = there])
  /\ UNCHANGED <<host, phase, sockets, seen>>

\* establish_baseline fills _seen without an event.
StartNetwork ==
  /\ Starting("network")
  /\ Started("network", Up)
  /\ seen' = sockets
  /\ UNCHANGED <<host, phase, sockets>>

Begins(k, r) ==
  /\ Starting(k)
  /\ Started(k, r)
  /\ UNCHANGED <<host, phase, sockets, seen>>

Helped == [Up EXCEPT !.mode = "helper", !.helper = TRUE]

\* A mark that fails is passed over: the sensor may run with none.
StartFanotify == \E marks \in SUBSET Folders : Begins("fanotify", [Up EXCEPT !.parts = marks])

\* One observer for the folders there are.
StartFsevents == \E there \in SUBSET Folders : Begins("fsevents", [Up EXCEPT !.parts = there])

\* With administrator rights, and the session's name is new.
StartEtw == Begins("etw", Up)

StartEventlog == Begins("eventlog", Up)

\* It tails the log of auditd, or asks journalctl, which may not be there.
StartAudit == \E r \in {Up, Helped} : Begins("audit", r)

\* It follows the journal itself, or asks journalctl.
StartJournald == \E r \in {Up, Helped} : Begins("journald", r)

StartMaclog == Begins("maclog", Helped)

AllStarted ==
  /\ phase = "starting" /\ plan = <<>>
  /\ phase' = "running"
  /\ UNCHANGED <<host, plan, listed, sensor, sockets, seen>>

-----------------------------------------------------------------------------
(* The loops.                                                              *)

Runs(k) == sensor[k].at = "running"

\* Where nothing is watched nothing arrives.
Arrive(k) ==
  /\ Runs(k) /\ k # "network"
  /\ k \in {"fs", "fanotify", "fsevents"} => sensor[k].parts # {}
  /\ sensor[k].took + sensor[k].todo < MaxRecords
  /\ sensor' = [sensor EXCEPT ![k].todo = @ + 1]
  /\ UNCHANGED <<host, phase, plan, listed, sockets, seen>>

Noise(k) ==
  /\ Runs(k) /\ sensor[k].todo > 0 /\ "none" \in RecordEvents(k)
  /\ sensor' = [sensor EXCEPT ![k].todo = @ - 1]
  /\ UNCHANGED <<host, phase, plan, listed, sockets, seen>>

PublishRecord(k) ==
  /\ Runs(k) /\ sensor[k].todo > 0
  /\ \E type \in RecordEvents(k) \ {"none"} : EventBuilds(k, type)
  /\ sensor' = [sensor EXCEPT ![k].todo = @ - 1, ![k].took = @ + 1, ![k].sent = @ + 1]
  /\ UNCHANGED <<host, phase, plan, listed, sockets, seen>>

\* What an exception in the loop does, as that of an event that cannot be built: journald
\* goes over to journalctl once; the others leave their loop, and a helper is left to itself.
LoopEnds(k, s) ==
  IF k = "journald" /\ s.mode = "native"
  THEN [s EXCEPT !.mode = "helper", !.helper = TRUE]
  ELSE [s EXCEPT !.at = "dead"]

Raises(k) ==
  /\ Runs(k) /\ sensor[k].todo > 0
  /\ \E type \in RecordEvents(k) \ {"none"} : ~EventBuilds(k, type)
  /\ LET s == sensor[k] IN
       sensor' = [sensor EXCEPT ![k] = LoopEnds(k, [s EXCEPT !.todo = @ - 1, !.took = @ + 1])]
  /\ UNCHANGED <<host, phase, plan, listed, sockets, seen>>

\* The program journalctl or log ends, or was never there; the log, the journal or the
\* group of fanotify cannot be read.
SourceEnds(k) ==
  /\ Runs(k) /\ k \in {"audit", "journald", "maclog", "fanotify"}
  /\ sensor' = [sensor EXCEPT ![k] = LoopEnds(k, [@ EXCEPT !.helper = FALSE])]
  /\ UNCHANGED <<host, phase, plan, listed, sockets, seen>>

\* _snapshot and poll_once: each connection that _seen does not have is an event.
Poll ==
  LET new == Cardinality(sockets \ seen) IN
  /\ Runs("network") /\ new > 0 /\ EventBuilds("network", "connection")
  /\ seen' = seen \cup sockets
  /\ sensor' = [sensor EXCEPT !["network"].took = @ + new, !["network"].sent = @ + new]
  /\ UNCHANGED <<host, phase, plan, listed, sockets>>

Connect(c) ==
  /\ sockets' = IF c \in sockets THEN sockets \ {c} ELSE sockets \cup {c}
  /\ phase \in {"starting", "running"}
  /\ UNCHANGED <<host, phase, plan, listed, sensor, seen>>

-----------------------------------------------------------------------------
(* _cleanup: the sensors in the order of their start.                      *)

BeginStop ==
  /\ phase = "running" /\ phase' = "stopping"
  /\ plan' = listed
  /\ UNCHANGED <<host, listed, sensor, sockets, seen>>

\* A thread that waits for a line of its helper, or in a read of fanotify, outlives the
\* join; macOS ends the helper first, and the others when the next line has come.  A read
\* of fanotify keeps the group that stop closes, and its marks.
Waits(k, s) ==
  /\ s.at = "running" /\ s.todo = 0
  /\ k = "fanotify" \/ (s.mode = "helper" /\ k # "maclog")

StopSensor ==
  LET k == Next1
      s == sensor[k]
      waits == Waits(k, s)
  IN  /\ phase = "stopping" /\ plan # <<>> /\ plan' = Tail(plan)
      /\ sensor' = [sensor EXCEPT ![k] =
                      [s EXCEPT !.at = IF waits THEN "leaving" ELSE "stopped",
                                !.parts = IF waits THEN @ ELSE {},
                                !.helper = @ /\ k # "maclog" /\ (waits \/ s.at = "dead")]]
      /\ UNCHANGED <<host, phase, listed, sockets, seen>>

\* _cleanup passes over a stop that raises: the observers behind that one go on.
StopRaises ==
  LET k == Next1 IN
  /\ phase = "stopping" /\ plan # <<>> /\ plan' = Tail(plan)
  /\ k \in {"fs", "fsevents"} /\ Runs(k)
  /\ \E some \in (SUBSET sensor[k].parts) \ {{}} : sensor' = [sensor EXCEPT ![k].parts = some]
  /\ UNCHANGED <<host, phase, listed, sockets, seen>>

\* The line that was waited for is still handled.
Leave(k) ==
  /\ sensor[k].at = "leaving"
  /\ sensor' = [sensor EXCEPT ![k].at = "stopped", ![k].helper = FALSE, ![k].parts = {}]
  /\ UNCHANGED <<host, phase, plan, listed, sockets, seen>>

Stopped ==
  /\ phase = "stopping" /\ plan = <<>> /\ phase' = "stopped"
  /\ UNCHANGED <<host, plan, listed, sensor, sockets, seen>>

SensorsNext ==
  \/ FallBack \/ StartFs \/ StartNetwork \/ StartFanotify \/ StartFsevents \/ StartEtw
  \/ StartEventlog \/ StartAudit \/ StartJournald \/ StartMaclog \/ AllStarted \/ Poll
  \/ BeginStop \/ StopSensor \/ StopRaises \/ Stopped
  \/ \E k \in Kinds : \/ StartFails(k) \/ Arrive(k) \/ Noise(k)
                      \/ PublishRecord(k) \/ Raises(k) \/ SourceEnds(k) \/ Leave(k)
  \/ \E c \in Connections : Connect(c)

SensorsSpec == SensorsInit /\ [][SensorsNext]_sensorVars

-----------------------------------------------------------------------------
(* Properties.                                                             *)

\* The stop has reached all that started: what has stopped watches nothing any longer, a
\* thread that waits goes on for one line at most, and only the observers of files whose
\* stop has raised are left.
Halted(k, s) ==
  \/ s.at = "stopped" /\ s.parts = {}
  \/ s.at = "leaving"
  \/ k \in {"fs", "fsevents"} /\ s.at \in {"running", "dead"} /\ s.parts # {}

SensorsOK ==
  /\ phase \in {"starting", "running", "stopping", "stopped"}
  /\ seen \subseteq Connections
  /\ \A k \in Kinds :
       /\ sensor[k].at \in {"absent", "running", "leaving", "dead", "stopped"}
       /\ sensor[k].sent <= sensor[k].took
  /\ phase = "stopped" => \A i \in DOMAIN listed : Halted(listed[i], sensor[listed[i]])

\* audit_sensor.py:57-59, "Emits process creation (``process_create``), file access
\* (``file_access``), and authentication (``auth_event``) events into the Sentinel
\* EventBus": what the audit sensor takes for an event is published.
AuditEmits == sensor["audit"].sent = sensor["audit"].took
=============================================================================
