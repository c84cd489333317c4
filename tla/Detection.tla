----------------------------- MODULE Detection -----------------------------
(***************************************************************************)
(* sentinel/engine/consumer.py: the consumer thread takes the events of    *)
(* the bus one by one, lets the detectors look at each, scores the signals *)
(* they raise, and suspends a process or quarantines a file whose score    *)
(* crosses the threshold.  The sensors name a process by its pid, and the  *)
(* system gives a pid again once its owner has gone.                       *)
(*                                                                         *)
(* Every event, signal and latch carries, beside the pid the code keeps,   *)
(* the process it was really about.  No guard reads it.                    *)
(*                                                                         *)
(* What rules, YARA, the PE model and the DLL scorer find in an event is   *)
(* chosen freely when the event is made.  Failed logins, whose subject is  *)
(* no process, and the ransomware windows are left out.                    *)
(***************************************************************************)
EXTENDS Scoring, Sequences, Functions

CONSTANTS Procs, Pids, Pid,    \* Pid[p]: the pid process p gets
          Miners,              \* the processes that keep a CPU busy
          Files,               \* contents of files, by their hash
          Remotes,             \* the addresses processes connect to
          Pools, Listed,       \* stratum ports; the addresses of the C2 feed
          ProcessKinds,        \* the signals a process event can raise
          FileKinds,           \* the signals a new file raises
          QueueSize,           \* maxsize of the bus
          MinSamples,          \* _MIN_BEACON_SAMPLES
          Period,              \* the 10 seconds between two checks
          Prompt,              \* pids are reused with care, see below
          MaxEvents, MaxTime,  \* bounds of the model
          None

ASSUME DetectionAssumption ==
  /\ Pid \in [Procs -> Pids]
  /\ Miners \subseteq Procs /\ Pools \subseteq Remotes /\ Listed \subseteq Remotes
  /\ ProcessKinds \subseteq Seq(SignalKinds) /\ FileKinds \in [Files -> Seq(SignalKinds)]
  /\ QueueSize \in Nat \ {0} /\ MinSamples \in Nat \ {0} /\ Period \in Nat \ {0}
  /\ MaxEvents \in Nat /\ MaxTime \in Nat
  /\ Prompt \in BOOLEAN

(***************************************************************************)
(* Prompt assumes three things: a pid is given again only after the exit   *)
(* event of its owner was handled; the bus has room, so that no exit event *)
(* is dropped; and when an exit is reported no connection of the process   *)
(* is still with the network sensor, to come behind it.                    *)
(***************************************************************************)
  /\ Pids \cap Files = {} /\ None \notin Procs /\ Procs \cap Files = {}

VARIABLES life,           \* "new", "running", "suspended", "exited", "reported"
          onDisk,         \* the files that lie on the disk
          polled,         \* what the network sensor saw and has yet to publish
          queue,          \* the bus
          pc, pending,    \* the consumer; the signals it has still to score
          scores,         \* Scorer._subjects
          responded,      \* _responded_subjects
          emittedCpu,     \* CryptominingHeuristic: the latches of the two signals
          emittedStratum,
          streams,        \* C2BeaconDetector._streams
          checked,        \* StaticClassifier._checked_hashes
          now, lastCheck,
          published,      \* bound: how many events were made
          handled,        \* history: the processes whose exit was processed
          attempted,      \* history: the processes and files a response went for
          blamed          \* history: whose signals a process was suspended for

world    == <<life, onDisk, polled, published>>
latches  == <<emittedCpu, emittedStratum, streams, checked>>
clock    == <<now, lastCheck>>
history  == <<handled, attempted, blamed>>
vars     == <<world, queue, pc, pending, scores, responded, latches, clock, history>>

Subjects == Pids \cup Files
Entities == Procs \cup Files

Events ==
  [type : {"exit", "suspended"}, who : Procs, what : {None}]
    \cup [type : {"process"}, who : Procs, what : Seq(SignalKinds)]
    \cup [type : {"connection"}, who : Procs, what : Remotes]
    \cup [type : {"file"}, who : Files, what : Seq(SignalKinds)]

Signals == [kind : SignalKinds, subject : Subjects, time : Nat, about : Entities]

Here(p) == life[p] \in {"running", "suspended"}
Left(p) == life[p] = "new" \/ p \in handled

(***************************************************************************)
(* The world.                                                              *)
(***************************************************************************)
\* publish: a full bus loses its oldest event.
Publish(q, ev) == Append(IF Len(q) >= QueueSize /\ ~Prompt THEN Tail(q) ELSE q, ev)

Room == Prompt => Len(queue) < QueueSize

Make(ev) ==
  /\ published < MaxEvents
  /\ Room
  /\ published' = published + 1
  /\ queue' = Publish(queue, ev)

consumer == <<pc, pending, scores, responded, latches>>

Start(p) ==
  /\ life[p] = "new"
  /\ \A q \in Procs \ {p} : Pid[q] = Pid[p] =>
       /\ ~Here(q)
       /\ Prompt => Left(q)
  /\ life' = [life EXCEPT ![p] = "running"]
  /\ UNCHANGED <<onDisk, polled, published, queue, consumer, clock, history>>

\* A process is created or loads an image: ETW or audit makes the event.
Act(p, kinds) ==
  /\ life[p] = "running"
  /\ Make([type |-> "process", who |-> p, what |-> kinds])
  /\ UNCHANGED <<life, onDisk, polled, consumer, clock, history>>

\* poll_once: a snapshot of the connections first, then their events.
Snapshot(p, r) ==
  /\ polled = {} /\ life[p] = "running"
  /\ polled' = {[type |-> "connection", who |-> p, what |-> r]}
  /\ UNCHANGED <<life, onDisk, published, queue, consumer, clock, history>>

PublishPolled ==
  \E ev \in polled :
    /\ Make(ev)
    /\ polled' = polled \ {ev}
    /\ UNCHANGED <<life, onDisk, consumer, clock, history>>

Exit(p) ==
  /\ Here(p)
  /\ life' = [life EXCEPT ![p] = "exited"]
  /\ UNCHANGED <<onDisk, polled, published, queue, consumer, clock, history>>

\* The exit event of ETW or audit.
ReportExit(p) ==
  /\ life[p] = "exited"
  /\ Prompt => \A ev \in polled : ev.who # p
  /\ Room
  /\ life' = [life EXCEPT ![p] = "reported"]
  /\ queue' = Publish(queue, [type |-> "exit", who |-> p, what |-> None])
  /\ UNCHANGED <<onDisk, polled, published, consumer, clock, history>>

\* A file appears, or is written again, in a watched folder.
Drop(f) ==
  /\ onDisk' = onDisk \cup {f}
  /\ Make([type |-> "file", who |-> f, what |-> FileKinds[f]])
  /\ UNCHANGED <<life, polled, consumer, clock, history>>

Tick ==
  /\ now < MaxTime
  /\ now' = now + 1
  /\ UNCHANGED <<world, queue, consumer, lastCheck, history>>

(***************************************************************************)
(* process_event: the detectors.                                           *)
(***************************************************************************)
Signal(kind, p) == [kind |-> kind, subject |-> Pid[p], time |-> now, about |-> p]

FoundSwapped(kinds, subject, who) ==    \* mutant: swapped arguments
  [i \in DOMAIN kinds |->
     [kind |-> kinds[i], subject |-> who, time |-> now, about |-> subject]]

Found(kinds, subject, who) ==
  [i \in DOMAIN kinds |->
     [kind |-> kinds[i], subject |-> subject, time |-> now, about |-> who]]

KeepScore(p) == scores              \* mutants: one reset is missing
KeepStreams(p) == streams
KeepResponded(p) == responded

\* Scorer.reset_pid, C2BeaconDetector.reset_pid, and what is left of _responded_subjects.
ResetScore(p) == Without(scores, {Pid[p]})
ResetStreams(p) == [key \in DOMAIN streams |-> IF key[1] = Pid[p] THEN <<>> ELSE streams[key]]
ForgetResponded(p) == responded \ {Pid[p]}

\* The exit of a process.  The stratum latch of the pid stays.
ProcessExit(p) ==
  /\ scores' = ResetScore(p)
  /\ emittedCpu' = [emittedCpu EXCEPT ![Pid[p]] = None]
  /\ streams' = ResetStreams(p)
  /\ responded' = ForgetResponded(p)
  /\ handled' = handled \cup {p}
  /\ pending' = <<>>
  /\ UNCHANGED <<emittedStratum, checked>>

\* check_network_event, C2Blocklist.check_connection, process_connection.  Whether
\* the intervals of a stream are regular, and whether the cooldown of a stream has
\* passed, is chosen freely.
Connection(p, r) ==
  LET x == Pid[p]
      stratum == r \in Pools /\ emittedStratum[x] = None
      stream == Append(streams[<<x, r>>], p)
  IN \E beacon \in {FALSE, Len(stream) >= MinSamples} :
       /\ emittedStratum' = [emittedStratum EXCEPT ![x] = IF stratum THEN p ELSE @]
       /\ streams' = [streams EXCEPT ![<<x, r>>] = stream]
       /\ pending' = (IF stratum THEN <<Signal("stratum_network", p)>> ELSE <<>>)
                       \o (IF r \in Listed THEN <<Signal("c2_threat_intel", p)>> ELSE <<>>)
                       \o (IF beacon THEN <<Signal("c2_beaconing", p)>> ELSE <<>>)
       /\ UNCHANGED <<scores, responded, emittedCpu, checked, handled>>

\* classify_file_event: each content is looked at once.
FileEvent(f, kinds) ==
  LET new == f \in onDisk /\ f \notin checked IN
    /\ checked' = IF new THEN checked \cup {f} ELSE checked
    /\ pending' = IF new THEN Found(kinds, f, f) ELSE <<>>
    /\ UNCHANGED <<scores, responded, emittedCpu, emittedStratum, streams, handled>>

\* The rules, and the DLL scorer for an image that was loaded.
ProcessFound(p, kinds) ==
  /\ pending' = Found(kinds, Pid[p], p)
  /\ UNCHANGED <<scores, responded, latches, handled>>

Process(ev) ==
  \/ ev.type = "exit" /\ ProcessExit(ev.who)
  \/ ev.type = "process" /\ ProcessFound(ev.who, ev.what)
  \/ ev.type = "connection" /\ Connection(ev.who, ev.what)
  \/ ev.type = "file" /\ FileEvent(ev.who, ev.what)
  \/ ev.type = "suspended" /\ ProcessFound(ev.who, <<>>)

Take ==
  /\ pc = "top" /\ queue # <<>>
  /\ queue' = Tail(queue)
  /\ Process(Head(queue))
  /\ pc' = "event"
  /\ UNCHANGED <<world, clock, attempted, blamed>>

\* consume returned nothing within its timeout.
Idle ==
  /\ pc = "top" /\ queue = <<>>
  /\ pc' = "check"
  /\ UNCHANGED <<world, queue, pending, scores, responded, latches, clock, history>>

(***************************************************************************)
(* _execute_response.                                                      *)
(***************************************************************************)
Owners(s) == {p \in Procs : Here(p) /\ Pid[p] = s}

GoesOn == pending' = Tail(pending) /\ pc' = pc

\* The loop leaves process_event, or sample's loop, and the signals behind are lost.
Raises == pending' = <<>> /\ pc' = IF pc = "event" THEN "top" ELSE pc

\* quarantine_process: the process that has the pid now.
Suspend(t, s) ==
  \E p \in Owners(s) :
    /\ life' = [life EXCEPT ![p] = "suspended"]
    /\ blamed' = [blamed EXCEPT ![p] = @ \cup {sig.about : sig \in DOMAIN t[s].signals}]
    /\ UNCHANGED onDisk
    /\ \/ GoesOn /\ queue' = Publish(queue, [type |-> "suspended", who |-> p, what |-> None])
       \/ Raises /\ UNCHANGED queue

Quarantine(s) ==
  /\ s \in onDisk
  /\ onDisk' = onDisk \ {s}
  /\ GoesOn
  /\ UNCHANGED <<life, blamed, queue>>

\* No process has the pid, it cannot be opened, the file is locked or away, ...
ResponseFails ==
  /\ GoesOn \/ Raises
  /\ UNCHANGED <<life, onDisk, blamed, queue>>

Respond(t, s) ==
  /\ responded' = responded \cup {s}
  /\ attempted' = attempted \cup Owners(s) \cup (onDisk \cap {s})
  /\ Suspend(t, s) \/ Quarantine(s) \/ ResponseFails

Score1 ==
  /\ pc \in {"event", "sampled"} /\ pending # <<>>
  /\ LET sig == Head(pending) IN
       \E t \in AddSignal(scores, sig) :
         /\ scores' = t
         /\ IF ShouldRespond(t, sig.subject) /\ sig.subject \notin responded
              THEN Respond(t, sig.subject)
              ELSE GoesOn /\ UNCHANGED <<life, onDisk, queue, responded, attempted, blamed>>
  /\ UNCHANGED <<polled, published, latches, clock, handled>>

\* The next event of a batch, or the clock, which is looked at when the batch is done.
EndEvent ==
  /\ pc = "event" /\ pending = <<>>
  /\ pc' \in {"top", "check"}
  /\ UNCHANGED <<world, queue, pending, scores, responded, latches, clock, history>>

(***************************************************************************)
(* _periodic_checks.                                                       *)
(***************************************************************************)
Orders(S) == {s \in UNION {[1..n -> S] : n \in 0..Cardinality(S)} : IsInjective(s)}

\* sample_cpu: the pids that were busy all along, each once.
Sustained == {p \in Miners : life[p] = "running" /\ emittedCpu[Pid[p]] = None}

Sample ==
  /\ pc = "check" /\ now - lastCheck >= Period
  /\ lastCheck' = now
  /\ pc' = "sampled"
  /\ \E hot \in Orders(Sustained) :
       /\ pending' = [i \in DOMAIN hot |-> Signal("cpu_sustained", hot[i])]
       /\ emittedCpu' = [x \in Pids |->
            IF \E i \in DOMAIN hot : Pid[hot[i]] = x
              THEN CHOOSE p \in Range(hot) : Pid[p] = x ELSE emittedCpu[x]]
  /\ UNCHANGED <<world, queue, scores, responded, emittedStratum, streams, checked, now, history>>

NotDue ==
  /\ pc = "check" /\ now - lastCheck < Period
  /\ pc' = "top"
  /\ UNCHANGED <<world, queue, pending, scores, responded, latches, clock, history>>

Prune ==
  /\ pc = "sampled" /\ pending = <<>>
  /\ scores' = EvictStale(Decay(scores, now), now)
  /\ pc' = "top"
  /\ UNCHANGED <<world, queue, pending, responded, latches, clock, history>>

Init ==
  /\ life = [p \in Procs |-> "new"] /\ onDisk = {} /\ polled = {} /\ published = 0
  /\ queue = <<>> /\ pc = "top" /\ pending = <<>>
  /\ scores = [s \in {} |-> NoScore] /\ responded = {}
  /\ emittedCpu = [x \in Pids |-> None] /\ emittedStratum = [x \in Pids |-> None]
  /\ streams = [key \in Pids \X Remotes |-> <<>>] /\ checked = {}
  /\ now = 0 /\ lastCheck = 0 - Period
  /\ handled = {} /\ attempted = {} /\ blamed = [p \in Procs |-> {}]

World ==
  \/ \E p \in Procs : Start(p) \/ Exit(p) \/ ReportExit(p)
  \/ \E p \in Procs : \E kinds \in ProcessKinds : Act(p, kinds)
  \/ \E p \in Procs, r \in Remotes : Snapshot(p, r)
  \/ PublishPolled
  \/ \E f \in Files : Drop(f)
  \/ Tick

Consumer == Take \/ Idle \/ Score1 \/ EndEvent \/ Sample \/ NotDue \/ Prune

Next == World \/ Consumer

Spec == Init /\ [][Next]_vars
-----------------------------------------------------------------------------
\* Every variable keeps its type; the bag of a score holds signals of its subject.
\* What the total of a score is, is TotalIsSum's to say.
TypeOK ==
  /\ life \in [Procs -> {"new", "running", "suspended", "exited", "reported"}]
  /\ onDisk \subseteq Files /\ polled \subseteq Events /\ published \in 0..MaxEvents
  /\ queue \in Seq(Events)
  /\ pc \in {"top", "event", "check", "sampled"} /\ pending \in Seq(Signals)
  /\ DOMAIN scores \subseteq Subjects
  /\ \A s \in DOMAIN scores :
       /\ scores[s].last \in Nat
       /\ \A sig \in DOMAIN scores[s].signals : sig \in Signals /\ sig.subject = s
  /\ responded \subseteq Subjects
  /\ emittedCpu \in [Pids -> Procs \cup {None}]
  /\ emittedStratum \in [Pids -> Procs \cup {None}]
  /\ streams \in [Pids \X Remotes -> Seq(Procs)] /\ checked \subseteq Files
  /\ now \in 0..MaxTime /\ lastCheck \in Int
  /\ handled \subseteq Procs /\ attempted \subseteq Entities
  /\ blamed \in [Procs -> SUBSET Entities]

\* A score is the sum of the weights of the signals it still holds, whatever was
\* pruned, evicted or reset between (SubjectScore.add, decay).
TotalIsSum == \A s \in DOMAIN scores : scores[s].total = Sum(scores[s].signals)

\* evict_stale never takes a subject with a signal that decay still counts: what
\* decay leaves is young enough for it (last_updated, _periodic_checks).
ActiveIsKept ==
  \A s \in DOMAIN Decay(scores, now) : s \in DOMAIN EvictStale(Decay(scores, now), now)

\* With Prompt, a process that runs while its pid has a score to respond to has been
\* answered: the latch of responses is never the one of a former owner of the pid
\* (_responded_subjects, process_event).
SuspectsAnswered ==
  \A p \in Procs : life[p] = "running" /\ ShouldRespond(scores, Pid[p]) => p \in attempted

\* With Prompt, a process is suspended for its own signals, never for those of another
\* that had its pid before (process_event resets the pid's score on its exit).  Without
\* it, the code does not satisfy this.
RightProcess == \A p \in Procs : blamed[p] \subseteq {p}

\* With Prompt, the CPU latch and the beacon streams of a process's pid are the process's
\* own: nothing of a former owner silences or speeds up its detection.
LatchesAreOwn ==
  \A p \in Procs : Here(p) =>
    /\ emittedCpu[Pid[p]] \in {None, p}
    /\ \A r \in Remotes : \A i \in DOMAIN streams[<<Pid[p], r>>] :
         streams[<<Pid[p], r>>][i] = p

\* The same of the stratum latch, which nothing resets: the code does not satisfy it.
StratumIsOwn == \A p \in Procs : Here(p) => emittedStratum[Pid[p]] \in {None, p}
=============================================================================
