----------------------------- MODULE Heuristics -----------------------------
(***************************************************************************)
(* The heuristics that count in a window of time, and the event log that   *)
(* feeds one of them: sensors/eventlog_sensor.py,                          *)
(* engine/heuristics_bruteforce.py and engine/heuristics_ransomware.py.    *)
(* Those that follow a process are in the module Streams.                  *)
(*                                                                         *)
(* Time is a number of ticks.  A record of the log has its number, whether *)
(* it is a failed logon that can be parsed, another one, or something      *)
(* else, and the source of the logon.  The consumer gives the ransomware   *)
(* heuristic no canary manager, so that its first branch is left out.      *)
(***************************************************************************)
EXTENDS Streams

CONSTANTS Hosts,           \* of logons: hosts and addresses
          Scopes, Paths,     \* of writes: pids and watched folders; files
          LoginCount, LoginWindow,
          WriteRate, RateWindow,
          MaxTime, MaxEvents \* bounds

ASSUME HeuristicsAssumption ==
  {LoginCount, WriteRate} \subseteq Nat \ {0} /\ {LoginWindow, RateWindow} \subseteq Nat

VARIABLES now,
          log, logged,       \* the Security log, and the number of its last record
          lastRecord,        \* _last_record_number
          inbox,             \* login_failed events on their way
          attempts, bursts,  \* _attempts and _emitted
          writes, massive, spiked,   \* _writes, _emitted_rate, _emitted_entropy
          logins, written    \* history: when each source, each scope was seen

heuristicsVars == <<now, log, logged, lastRecord, inbox, attempts, bursts,
                    writes, massive, spiked, logins, written>>
logVars == <<log, logged, lastRecord, inbox>>
loginVars == <<attempts, bursts, logins>>
writeVars == <<writes, massive, spiked, written>>

Records == [number : Nat \ {0}, kind : {"failed", "malformed", "other"}, source : Hosts]

HeuristicsInit ==
  /\ now = 0
  /\ log = <<>> /\ logged = 0 /\ lastRecord = 0 /\ inbox = <<>>
  /\ attempts = [s \in Hosts |-> <<>>] /\ bursts = {} /\ logins = attempts
  /\ writes = [s \in Scopes |-> <<>>] /\ massive = {} /\ spiked = {} /\ written = writes

Unpruned(times, window) ==      \* mutant: the old times are kept
  Append(times, now)

\* The deque of a source or a scope, with the event of now: popleft, as long as the first
\* one is old.
Pruned(times, window) ==
  LET all == Append(times, now)
      first == CHOOSE i \in DOMAIN all : /\ all[i] + window >= now
                                        /\ \A j \in 1..(i - 1) : all[j] + window < now
  IN  SubSeq(all, first, Len(all))

Seen(history, k) == [history EXCEPT ![k] = Append(@, now)]

-----------------------------------------------------------------------------
(* The log and its sensor.                                                 *)

Log(kind, source) ==
  /\ Len(log) < MaxEvents /\ Len(logins[source]) + Len(inbox) < MaxEvents
  /\ logged' = logged + 1
  /\ log' = Append(log, [number |-> logged + 1, kind |-> kind, source |-> source])
  /\ UNCHANGED <<now, lastRecord, inbox, loginVars, writeVars>>

\* A log that is cleared counts from one again.
ClearLog ==
  /\ log # <<>> /\ log' = <<>> /\ logged' = 0
  /\ UNCHANGED <<now, lastRecord, inbox, loginVars, writeVars>>

\* poll_once reads from the beginning of the log, and as far as it can; what it has
\* read by then it keeps.
Poll4625(n) ==
  LET new == SelectSeq(SubSeq(log, 1, n),
                       LAMBDA r : r.kind # "other" /\ r.number > lastRecord)
      good == SelectSeq(new, LAMBDA r : r.kind = "failed")
  IN  /\ new # <<>>
      /\ lastRecord' = Last(new).number
      /\ inbox' = inbox \o [i \in DOMAIN good |-> good[i].source]
      /\ UNCHANGED <<now, log, logged, loginVars, writeVars>>

-----------------------------------------------------------------------------
(* process_login_event.                                                    *)

ProcessLogin ==
  LET s == Head(inbox)
      kept == Pruned(attempts[s], LoginWindow)
  IN  /\ inbox # <<>> /\ inbox' = Tail(inbox)
      /\ attempts' = [attempts EXCEPT ![s] = kept]
      /\ bursts' = IF Len(kept) >= LoginCount THEN bursts \cup {s} ELSE bursts
      /\ logins' = Seen(logins, s)
      /\ UNCHANGED <<now, log, logged, lastRecord, writeVars>>

-----------------------------------------------------------------------------
(* process_fs_event, of a write to a file that is encrypted or not.  The   *)
(* rate is per minute, which is the window.                                *)

ProcessWrite(scope, path, high) ==
  LET kept == Pruned(writes[scope], RateWindow)
  IN  /\ Len(written[scope]) < MaxEvents
      /\ writes' = [writes EXCEPT ![scope] = kept]
      /\ spiked' = IF high THEN spiked \cup {path} ELSE spiked
      /\ massive' = IF Len(kept) >= WriteRate THEN massive \cup {scope} ELSE massive
      /\ written' = Seen(written, scope)
      /\ UNCHANGED <<now, logVars, loginVars>>

\* Of time.time(), which a correction of the clock sets back as well.
Pass ==
  /\ now' \in 0..MaxTime
  /\ UNCHANGED <<logVars, loginVars, writeVars>>

\* The two heuristics share nothing but the clock.
LoginsNext ==
  \/ \E source \in Hosts, kind \in {"failed", "malformed", "other"} : Log(kind, source)
  \/ ClearLog \/ (\E n \in 1..Len(log) : Poll4625(n)) \/ ProcessLogin \/ Pass

WritesNext ==
  \/ \E scope \in Scopes, path \in Paths, high \in BOOLEAN : ProcessWrite(scope, path, high)
  \/ Pass

HeuristicsSpec == HeuristicsInit /\ [][LoginsNext \/ WritesNext]_heuristicsVars

-----------------------------------------------------------------------------
(* Properties.                                                             *)

HeuristicsOK ==
  /\ \A i \in DOMAIN log : log[i] \in Records
  /\ \A s \in Hosts : IsSuffix(attempts[s], logins[s])
  /\ \A s \in Scopes : IsSuffix(writes[s], written[s])
  /\ spiked \subseteq Paths

\* Among the times some event had this many within a window up to it.
Reached(times, count, window) ==
  \E i \in DOMAIN times :
    Cardinality({j \in 1..i : times[j] + window >= times[i]}) >= count

Rises(times) == \A i, j \in DOMAIN times : i <= j => times[i] <= times[j]

\* A burst or a mass modification has been signalled for exactly the sources and scopes
\* that have had it: no event is counted after its window, none is forgotten before.  Where
\* the clock was set back between two events of a source, neither need be so.
BurstsAreDue ==
  /\ \A s \in Hosts :
       Rises(logins[s]) => (s \in bursts <=> Reached(logins[s], LoginCount, LoginWindow))
  /\ \A s \in Scopes :
       Rises(written[s]) => (s \in massive <=> Reached(written[s], WriteRate, RateWindow))
=============================================================================
