------------------------------- MODULE Streams -------------------------------
(***************************************************************************)
(* What is kept of each process over time: the connections that it makes   *)
(* to an address, for the beacons of engine/heuristics_c2.py, and its load *)
(* of the processor, for engine/heuristics_cryptomining.py.                *)
(*                                                                         *)
(* Time is a number of ticks, which may go back when the clock is set.     *)
(* The deviation of the gaps is compared with their mean without a root or *)
(* a fraction.  Connections of no process, or to the machine itself, are   *)
(* ignored, and left out here.                                             *)
(***************************************************************************)
EXTENDS Integers, Sequences, FiniteSets, SequencesExt

CONSTANTS Talkers, Remotes,        \* pids and addresses
          MinBeaconSamples, MaxKept,
          MinGap, MaxGap,          \* the gaps that count
          CvInverse,               \* deviation <= mean / CvInverse
          BeaconCooldown,
          Gaps,                    \* bound: what passes between two connections
          CpuSeconds,
          MaxHeard, MaxSamples, MaxLives    \* bounds

ASSUME StreamsAssumption ==
  /\ {MinBeaconSamples, MaxKept, MinGap, MaxGap, CvInverse, CpuSeconds} \subseteq Nat \ {0}
  /\ BeaconCooldown \in Nat /\ Gaps \subseteq Int /\ MaxLives \in Nat \ {0}
  /\ MinBeaconSamples <= MaxKept
  /\ 5 * (MinBeaconSamples - 1) < 2 * CvInverse * CvInverse

VARIABLES streamTime, heard,
          stream,              \* _streams
          connected, beaconed, \* history: of each stream that is kept
          living,              \* the process with each pid, by number; none is 0
          cpuWindow,           \* _cpu_windows
          mining,              \* _emitted_cpu
          loads, mined,        \* history: the readings of each pid, and the signals
          outlived             \* history: the flags of processes that ended unheard

beaconVars == <<stream, connected, beaconed, heard>>
cpuVars == <<living, cpuWindow, mining, loads, mined, outlived>>
streamVars == <<streamTime, beaconVars, cpuVars>>

StreamKeys == Talkers \X Remotes
NoStream == [times |-> <<>>, last |-> 0]

StreamsInit ==
  /\ streamTime = BeaconCooldown /\ heard = 0
  /\ stream = [k \in StreamKeys |-> NoStream]
  /\ connected = [k \in StreamKeys |-> <<>>] /\ beaconed = connected
  /\ living = [p \in Talkers |-> 1]
  /\ cpuWindow = [p \in Talkers |-> {}] /\ loads = cpuWindow
  /\ mining = {} /\ mined = {} /\ outlived = {}

-----------------------------------------------------------------------------
(* process_connection.                                                     *)

GapsOf(times) == [i \in 1..(Len(times) - 1) |-> times[i + 1] - times[i]]

\* calculate_jitter: gaps of a clock that was set back do not count, nor long ones.
IsBeacon(times) ==
  LET gaps == GapsOf(times)
      valid == {i \in DOMAIN gaps : MinGap <= gaps[i] /\ gaps[i] <= MaxGap}
      n == Cardinality(valid)
      sum == SumFunctionOnSet(gaps, valid)
      squares == SumFunctionOnSet([i \in valid |-> gaps[i] * gaps[i]], valid)
  IN  /\ Len(times) >= MinBeaconSamples /\ n >= MinBeaconSamples - 1
      /\ CvInverse * CvInverse * (n * squares - sum * sum) <= sum * sum

LastOf(times, n) == SubSeq(times, IF Len(times) > n THEN Len(times) - n + 1 ELSE 1, Len(times))

Stormy(k, t) == TRUE            \* mutant: each connection of a beacon is signalled

\* "Prevent alert storming during ongoing beaconing"
Calm(k, t) == t - stream[k].last >= BeaconCooldown

ConnectTo(k, d) ==
  LET t == streamTime + d
      kept == LastOf(Append(stream[k].times, t), MaxKept)
      due == Calm(k, t) /\ IsBeacon(kept)
  IN  /\ heard < MaxHeard /\ heard' = heard + 1
      /\ t >= BeaconCooldown       \* "last_signal_time: float = 0.0" is long past
      /\ streamTime' = t
      /\ stream' = [stream EXCEPT ![k] = [times |-> kept, last |-> IF due THEN t ELSE @.last]]
      /\ connected' = [connected EXCEPT ![k] = Append(@, t)]
      /\ beaconed' = IF due THEN [beaconed EXCEPT ![k] = Append(@, t)] ELSE beaconed
      /\ UNCHANGED cpuVars

\* reset_pid, when a process has ended.
ResetPid(p) ==
  LET Without(f, nothing) == [k \in StreamKeys |-> IF k[1] = p THEN nothing ELSE f[k]]
  IN  /\ heard < MaxHeard /\ heard' = heard + 1
      /\ stream' = Without(stream, NoStream)
      /\ connected' = Without(connected, <<>>) /\ beaconed' = Without(beaconed, <<>>)
      /\ UNCHANGED <<streamTime, cpuVars>>

-----------------------------------------------------------------------------
(* sample_cpu.  A reading speaks of the time since the one before it.  The *)
(* first of a process is taken at once after the one that primes it, over  *)
(* no time to speak of: it may be anything, and counts as any other, so    *)
(* that _procs makes no difference.  No two readings of a process have the *)
(* same time, which grows: the list of them is a set here, and the first   *)
(* is the one with the least time.                                         *)

IsLiving(p) == living[p] # 0

Recent(w, t, age) == {r \in w : r.at >= t - age}

Unfilled(w, t) ==               \* mutant: a window that is not filled yet is judged
  \A r \in Recent(w, t, CpuSeconds) : r.hot

SustainedAbove(w, t) ==
  LET within == Recent(w, t, CpuSeconds)
  IN  /\ \E r \in within : 4 * r.at <= 4 * (t - CpuSeconds) + CpuSeconds
      /\ \A r \in within : r.hot

\* `read` are the pids of psutil that can be read, `busy` those read above the threshold.
SampleCpu(read, busy) ==
  LET t == streamTime + 1
      r(p) == [at |-> t, hot |-> p \in busy]
      win == [p \in Talkers |-> IF p \in read
                                THEN Recent(cpuWindow[p] \cup {r(p)}, t, 2 * CpuSeconds)
                                ELSE cpuWindow[p]]
      new == {p \in read \ mining : SustainedAbove(win[p], t)}
  IN  /\ heard < MaxSamples /\ heard' = heard + 1
      /\ streamTime' = t
      /\ cpuWindow' = win
      /\ mining' = mining \cup new
      /\ loads' = [p \in Talkers |->
                     IF p \in read
                     THEN loads[p] \cup {[at |-> t, hot |-> p \in busy, life |-> living[p]]}
                     ELSE loads[p]]
      /\ mined' = mined \cup {[pid |-> p, life |-> living[p], at |-> t] : p \in new}
      /\ UNCHANGED <<stream, connected, beaconed, living, outlived>>

\* Whether the consumer hears of the end or not.
EndLife(p, told) ==
  /\ IsLiving(p) /\ living' = [living EXCEPT ![p] = 0]
  /\ mining' = IF told THEN mining \ {p} ELSE mining
  /\ outlived' = IF told THEN outlived \ {p} ELSE outlived \cup (mining \cap {p})
  /\ UNCHANGED <<streamTime, beaconVars, cpuWindow, loads, mined>>

BeginLife(p) ==
  /\ ~IsLiving(p)
  /\ LET lives == {r.life : r \in loads[p]}
         next == 1 + Cardinality(lives)
     IN  /\ next \notin lives /\ next <= MaxLives
         /\ living' = [living EXCEPT ![p] = next]
  /\ UNCHANGED <<streamTime, beaconVars, cpuWindow, mining, loads, mined, outlived>>

BeaconsNext ==
  \/ \E k \in StreamKeys, d \in Gaps : ConnectTo(k, d)
  \/ \E p \in Talkers : ResetPid(p)

CpuNext ==
  \/ \E read \in SUBSET {p \in Talkers : IsLiving(p)} : \E busy \in SUBSET read :
       SampleCpu(read, busy)
  \/ \E p \in Talkers : BeginLife(p) \/ \E told \in BOOLEAN : EndLife(p, told)

BeaconsSpec == StreamsInit /\ [][BeaconsNext]_streamVars
CpuSpec == StreamsInit /\ [][CpuNext]_streamVars

-----------------------------------------------------------------------------
(* Properties.                                                             *)

StreamsOK ==
  /\ \A k \in StreamKeys : stream[k].times = LastOf(connected[k], MaxKept)
  /\ \A p \in Talkers : living[p] \in 0..MaxLives
  /\ mining \subseteq Talkers /\ outlived \subseteq mining

\* As many connections as are needed or more, at the same distance up to a tick.
Periodic(times) ==
  /\ Len(times) >= MinBeaconSamples
  /\ \E g \in MinGap..(MaxGap - 1) :
       /\ 2 * g >= CvInverse
       /\ \A i \in DOMAIN GapsOf(times) : GapsOf(times)[i] \in {g, g + 1}

Irregular(times) ==
  \E i, j \in DOMAIN GapsOf(times) : GapsOf(times)[i] >= 3 * GapsOf(times)[j]

\* A process that connects periodically is signalled again whenever the cooldown is over,
\* and never before; the fewest connections that can be judged are no beacon when one
\* gap is three times another.
BeaconsAreDue ==
  \A k \in StreamKeys :
    LET c == connected[k]
        b == beaconed[k]
    IN  /\ \A i \in 2..Len(b) : b[i] - b[i - 1] >= BeaconCooldown
        /\ Periodic(c) => /\ b # <<>>
                           /\ (Last(c) = Last(b) \/ Last(c) - Last(b) < BeaconCooldown)
        /\ b # <<>> /\ Len(c) = MinBeaconSamples /\ Last(b) = Last(c) => ~Irregular(c)

\* The readings of a pid in the window up to t, and those of its living process.
Looks(p, t) == {r \in loads[p] : t - CpuSeconds <= r.at /\ r.at <= t}
Own(p) == {r \in loads[p] : r.life = living[p]}

\* The process with the pid was looked at and busy all of the window up to t.
HeldBusy(p, t) ==
  /\ \E r \in Own(p) : r.at <= t - CpuSeconds
  /\ \E r \in Own(p) \cap Looks(p, t) : 4 * r.at <= 4 * t - 3 * CpuSeconds
  /\ \A r \in Own(p) \cap Looks(p, t) : r.hot

\* A pid is signalled for the processor only when it was read busy each time of the window,
\* the first time in its first quarter: sustained_above asks for three quarters of what
\* it promises, see CpuFillsWindow.  A process is signalled once, and no later than it
\* has been busy for all of the window, unless a flag stands in its way that outlived
\* another process, whose end was not heard of.
CpuIsDue ==
  /\ \A m \in mined :
       /\ \E r \in Looks(m.pid, m.at) : 4 * r.at <= 4 * m.at - 3 * CpuSeconds
       /\ \A r \in Looks(m.pid, m.at) : r.hot
       /\ \A n \in mined : n.pid = m.pid /\ n.life = m.life => n = m
  /\ \A p \in Talkers \ outlived : \A r \in Own(p) :
       HeldBusy(p, r.at) => \E m \in mined : m.pid = p /\ m.life = living[p] /\ m.at <= r.at

\* "AND the window spans at least `seconds`", and the reason that is given, ">= seconds":
\* the process has been seen, itself, for all of the window; its first reading may speak
\* of a tick before it.  The code does not satisfy it.
CpuFillsWindow ==
  \A m \in mined :
    \E r \in loads[m.pid] : r.life = m.life /\ r.at - 1 <= m.at - CpuSeconds
=============================================================================
