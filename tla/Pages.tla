------------------------------- MODULE Pages -------------------------------
(***************************************************************************)
(* The pages of the dashboard that have threads of their own: the sandbox, *)
(* the memory and the network page of sentinel/ui/dashboard.py.  The page  *)
(* for scans is in the module Dashboard, whose main loop this is also.     *)
(*                                                                         *)
(* The user stays on one page, which is left for another and shown again.  *)
(* A question that is open keeps the user from the buttons and not the     *)
(* results of the threads from the tables.  A message that only has to be  *)
(* closed is left out, unless something follows it.                        *)
(***************************************************************************)
EXTENDS Naturals, Sequences, FiniteSets

CONSTANTS PageNames,       \* the pages that are looked at
          Owners,          \* pids, and
          MaxOwners,       \* bound: the processes that have each, one after the other
          Targets, NoTarget,   \* what the field of the sandbox page may name
          MaxJobs          \* bound: the threads that are started

ASSUME PagesAssumption == NoTarget \notin Targets /\ {MaxOwners, MaxJobs} \subseteq Nat

VARIABLES page, showing,
          question,        \* the message box that is open, and the row it is about
          owner,           \* the process with each pid, by number; and how many had it
          targets,         \* the files that are there
          jobs, started,   \* the threads
          calls,           \* after(0)
          memory, network, sandbox

pageVars == <<page, showing, question, owner, targets, jobs, started, calls,
              memory, network, sandbox>>
world == <<owner, targets>>

NoRow == [scan |-> 0, pid |-> NoTarget, life |-> 0]
NoQuestion == [about |-> "none", row |-> NoRow]
Unasked == question = NoQuestion
AtButtons == showing /\ Unasked
Ask(about, row) == question' = [about |-> about, row |-> row]

PagesInit ==
  /\ page \in PageNames /\ showing = FALSE /\ question = NoQuestion
  /\ owner = [o \in Owners |-> [now |-> 1, born |-> 1]]
  /\ targets = Targets
  /\ jobs = {} /\ started = 0 /\ calls = <<>>
  /\ memory = [active |-> FALSE, table |-> {}]
  /\ network = [off |-> FALSE, table |-> {}]
  /\ sandbox = [off |-> FALSE, target |-> NoTarget, isolable |-> FALSE]

-----------------------------------------------------------------------------
(* The threads, and what they hand to the main loop.                       *)

Job(kind, of, todo) ==
  [n |-> started + 1, kind |-> kind, at |-> "runs", of |-> of, todo |-> todo, found |-> {}]

StartJob(kind, of, todo) ==
  /\ started < MaxJobs /\ started' = started + 1
  /\ jobs' = jobs \cup {Job(kind, of, todo)}

\* _dispatch_to_ui
PostCall(j, what) ==
  calls' = Append(calls, [kind |-> j.kind, n |-> j.n, what |-> what, rows |-> j.found])

RowOf(j, o) == [scan |-> j.n, pid |-> o, life |-> owner[o].now]

\* scan_process finds something in a process, or nothing, or raises.
LookAtProcess(j, o) ==
  /\ j.kind = "memory" /\ j.at = "runs" /\ o \in j.todo
  /\ \E threats \in SUBSET (IF owner[o].now = 0 THEN {} ELSE {RowOf(j, o)}) :
       jobs' = (jobs \ {j}) \cup {[j EXCEPT !.todo = @ \ {o}, !.found = @ \cup threats]}
  /\ UNCHANGED <<page, showing, question, world, started, calls, memory, network, sandbox>>

\* net_connections, which may raise.
ListSockets(j) ==
  /\ j.kind = "network" /\ j.at = "runs"
  /\ \E rows \in {{}, {RowOf(j, o) : o \in {x \in Owners : owner[x].now # 0}}} :
       jobs' = (jobs \ {j}) \cup {[j EXCEPT !.at = "listed", !.found = rows]}
  /\ UNCHANGED <<page, showing, question, world, started, calls, memory, network, sandbox>>

PostRows(j) ==
  /\ \/ j.kind = "memory" /\ j.at = "runs" /\ j.todo = {}
     \/ j.kind = "network" /\ j.at = "listed"
  /\ PostCall(j, "rows")
  /\ jobs' = jobs \ {j}
  /\ UNCHANGED <<page, showing, question, world, started, memory, network, sandbox>>

PostReport(j) ==
  /\ j.kind = "sandbox" /\ j.at = "runs"
  /\ \E verdict \in {"malicious", "safe"} : PostCall(j, verdict)
  /\ jobs' = jobs \ {j}
  /\ UNCHANGED <<page, showing, question, world, started, memory, network, sandbox>>

\* The file has gone, cannot be copied, or cannot be judged: the name of the exception,
\* which the callback reads, ends with the handler of the exception.
PostFailure(j) ==
  /\ j.kind = "sandbox" /\ j.at = "runs"
  /\ PostCall(j, "failed")
  /\ jobs' = (jobs \ {j}) \cup {[j EXCEPT !.at = "handler"]}
  /\ UNCHANGED <<page, showing, question, world, started, memory, network, sandbox>>

LeaveHandler(j) ==
  /\ j.at = "handler" /\ jobs' = jobs \ {j}
  /\ UNCHANGED <<page, showing, question, world, started, calls, memory, network, sandbox>>

JobStep(j) ==
  \/ \E o \in Owners : LookAtProcess(j, o)
  \/ ListSockets(j) \/ PostRows(j) \/ PostReport(j) \/ PostFailure(j) \/ LeaveHandler(j)

-----------------------------------------------------------------------------
(* The memory page.                                                        *)

ScanMemoryTwice ==              \* mutant: it is not asked whether a scan is active
  /\ memory' = [active |-> TRUE, table |-> {}]
  /\ StartJob("memory", NoTarget, Owners)

OnScanMemory ==
  /\ ~memory.active
  /\ memory' = [active |-> TRUE, table |-> {}]
  /\ StartJob("memory", NoTarget, Owners)

ClickScanMemory ==
  /\ AtButtons /\ page = "memory" /\ OnScanMemory
  /\ UNCHANGED <<page, showing, question, world, calls, network, sandbox>>

HandleMemoryForgets ==          \* mutant: the button stays when nothing was found
  /\ memory' = [active |-> Head(calls).rows = {}, table |-> memory.table \cup Head(calls).rows]
  /\ UNCHANGED <<network, sandbox>>

OnMemoryScanFinished ==
  /\ memory' = [active |-> FALSE, table |-> memory.table \cup Head(calls).rows]
  /\ UNCHANGED <<network, sandbox>>

\* _on_kill_memory_proc and _on_sever_socket: the question is about a row, and the answer
\* kills whatever has its pid by then.
ClickKill(r) ==
  /\ AtButtons
  /\ \/ page = "memory" /\ r \in memory.table
     \/ page = "network" /\ r \in network.table
  /\ Ask("kill", r)
  /\ UNCHANGED <<page, showing, world, jobs, started, calls, memory, network, sandbox>>

AnswerKill ==
  /\ question.about = "kill" /\ owner[question.row.pid].now # 0
  /\ owner' = [owner EXCEPT ![question.row.pid].now = 0]
  /\ IF page = "memory"
     THEN question' = NoQuestion /\ memory' = [memory EXCEPT !.table = @ \ {question.row}]
     ELSE Ask("severed", question.row) /\ UNCHANGED memory
  /\ UNCHANGED <<page, showing, targets, jobs, started, calls, network, sandbox>>

\* The user says no, or the process cannot be killed.
AnswerInVain ==
  /\ question.about \in {"kill", "isolate"} /\ question' = NoQuestion
  /\ UNCHANGED <<page, showing, world, jobs, started, calls, memory, network, sandbox>>

-----------------------------------------------------------------------------
(* The network page, which asks nobody whether a thread is at work.        *)

OnRefreshNetwork ==
  /\ network' = [network EXCEPT !.off = TRUE]
  /\ StartJob("network", NoTarget, {})

ClickRefreshNetwork ==
  /\ AtButtons /\ page = "network" /\ ~network.off /\ OnRefreshNetwork
  /\ UNCHANGED <<page, showing, question, world, calls, memory, sandbox>>

CloseSevered ==
  /\ question.about = "severed" /\ question' = NoQuestion /\ OnRefreshNetwork
  /\ UNCHANGED <<page, showing, world, calls, memory, sandbox>>

OnNetworkScanFinished ==
  /\ network' = [off |-> FALSE, table |-> Head(calls).rows]
  /\ UNCHANGED <<memory, sandbox>>

-----------------------------------------------------------------------------
(* The sandbox page.                                                       *)

\* The field, by hand or by a dialog.
NameTarget(s) ==
  /\ AtButtons /\ page = "sandbox" /\ sandbox' = [sandbox EXCEPT !.target = s]
  /\ UNCHANGED <<page, showing, question, world, jobs, started, calls, memory, network>>

OnDetonate ==
  /\ AtButtons /\ page = "sandbox" /\ ~sandbox.off /\ sandbox.target \in targets
  /\ sandbox' = [sandbox EXCEPT !.off = TRUE, !.isolable = FALSE]
  /\ StartJob("sandbox", sandbox.target, {})
  /\ UNCHANGED <<page, showing, question, world, calls, memory, network>>

OnSandboxFinished ==
  /\ sandbox' = [sandbox EXCEPT !.off = FALSE, !.isolable = Head(calls).what = "malicious"]
  /\ UNCHANGED <<memory, network>>

\* Once the thread has left its handler the callback raises at its first name.
OnSandboxFailed ==
  /\ sandbox' = [sandbox EXCEPT !.off = @ /\ ~\E j \in jobs : j.n = Head(calls).n]
  /\ UNCHANGED <<memory, network>>

\* The question is about what the field names now.  Whatever the answer, nothing is
\* quarantined: the store has no quarantine_file.
ClickIsolate ==
  /\ AtButtons /\ page = "sandbox" /\ sandbox.isolable /\ sandbox.target \in targets
  /\ Ask("isolate", NoRow)
  /\ UNCHANGED <<page, showing, world, jobs, started, calls, memory, network, sandbox>>

-----------------------------------------------------------------------------
(* The main loop, the navigation, and the rest of the machine.             *)

HandleCall ==
  /\ calls # <<>> /\ calls' = Tail(calls)
  /\ LET c == Head(calls) IN
       CASE c.kind = "memory"  -> OnMemoryScanFinished
         [] c.kind = "network" -> OnNetworkScanFinished
         [] c.what = "failed"  -> OnSandboxFailed
         [] OTHER              -> OnSandboxFinished
  /\ UNCHANGED <<page, showing, question, world, jobs, started>>

LeavePage ==
  /\ AtButtons /\ showing' = FALSE
  /\ UNCHANGED <<page, question, world, jobs, started, calls, memory, network, sandbox>>

\* _switch_tab: the memory is scanned unless there is a table or a scan; the sockets are
\* listed each time.
SwitchTab ==
  /\ ~showing /\ showing' = TRUE
  /\ \/ page = "memory" /\ memory.table = {} /\ OnScanMemory /\ UNCHANGED network
     \/ page = "memory" /\ (memory.table # {} \/ memory.active)
        /\ UNCHANGED <<jobs, started, memory, network>>
     \/ page = "network" /\ OnRefreshNetwork /\ UNCHANGED memory
     \/ page = "sandbox" /\ UNCHANGED <<jobs, started, memory, network>>
  /\ UNCHANGED <<page, question, world, calls, sandbox>>

Quits(o) ==
  /\ owner[o].now # 0 /\ owner' = [owner EXCEPT ![o].now = 0]
  /\ UNCHANGED <<page, showing, question, targets, jobs, started, calls, memory, network, sandbox>>

TakesPid(o) ==
  /\ owner[o].now = 0 /\ owner[o].born < MaxOwners
  /\ owner' = [owner EXCEPT ![o] = [now |-> @.born + 1, born |-> @.born + 1]]
  /\ UNCHANGED <<page, showing, question, targets, jobs, started, calls, memory, network, sandbox>>

Removed(s) ==
  /\ s \in targets /\ targets' = targets \ {s}
  /\ UNCHANGED <<page, showing, question, owner, jobs, started, calls, memory, network, sandbox>>

PagesNext ==
  \/ \E j \in jobs : JobStep(j)
  \/ HandleCall \/ LeavePage \/ SwitchTab
  \/ ClickScanMemory \/ ClickRefreshNetwork \/ AnswerKill \/ AnswerInVain \/ CloseSevered
  \/ \E r \in memory.table \cup network.table : ClickKill(r)
  \/ (\E s \in Targets \cup {NoTarget} : NameTarget(s)) \/ OnDetonate \/ ClickIsolate
  \/ \E o \in Owners : Quits(o) \/ TakesPid(o)
  \/ \E s \in Targets : Removed(s)

\* The threads and the main loop are scheduled, and an analysis and a scan end; nothing
\* is assumed of the user.
PagesFairness == WF_pageVars(\E j \in jobs : JobStep(j)) /\ WF_pageVars(HandleCall)

PagesSpec == PagesInit /\ [][PagesNext]_pageVars /\ PagesFairness

-----------------------------------------------------------------------------
(* Properties.                                                             *)

PagesOK ==
  /\ page \in PageNames /\ targets \subseteq Targets
  /\ question.about \in {"none", "kill", "severed", "isolate"}
  /\ \A o \in Owners : owner[o].now \in {0, owner[o].born}
  /\ \A j \in jobs : j.n <= started

\* The table of the memory page has rows of one scan, and none while another is at work,
\* however often the page is left and shown again; and one thread at a time has the
\* sandbox, whose limits are set on an object that all of them share.
OneAtATime ==
  /\ \A r, q \in memory.table : r.scan = q.scan
  /\ memory.active => memory.table = {}
  /\ \A j, k \in jobs : j.kind = "sandbox" /\ k.kind = "sandbox" /\ j # k =>
                          "handler" \in {j.at, k.at}

\* The buttons of the page come back after each scan of the memory and of the network.
PageWaits == memory.active \/ network.off
PageButtonsComeBack == PageWaits ~> ~PageWaits

\* dashboard.py:1579-1584: so does the button of the sandbox, also when an analysis fails.
DetonateComesBack == sandbox.off ~> ~sandbox.off

\* dashboard.py:1871: "Are you sure you want to terminate malicious process?": what is
\* killed is what the row says.
KillsWhatIsShown ==
  [][\A o \in Owners :
       question.about = "kill" /\ question' # question /\ owner'[o].now # owner[o].now =>
         owner[o].now = question.row.life]_pageVars
=============================================================================
