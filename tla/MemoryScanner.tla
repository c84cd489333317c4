--------------------------- MODULE MemoryScanner ---------------------------
(***************************************************************************)
(* The memory scanner, sentinel/engine/memory_scanner.py, on its three     *)
(* platforms: a walk over the processes, and in each over its regions,     *)
(* while processes end, pids are used again and memory changes.            *)
(*                                                                         *)
(* A region is what the scanner looks at: whether it can be executed and   *)
(* written, whether it is private and has no file behind it, its size, and *)
(* what its first kilobyte begins with or holds.  Addresses are the        *)
(* numbers of the regions.  Reading a region that is there may fail.       *)
(***************************************************************************)
EXTENDS Naturals, Sequences, FiniteSets

CONSTANTS Pids, Platforms,
          Contents,      \* the regions that occur
          Regions,       \* how many a process has
          MaxScanBytes, NoPid,
          MaxBirths      \* bound: processes with the same pid, one after the other

ASSUME MemoryAssumption ==
  /\ {Regions, MaxScanBytes} \subseteq Nat \ {0} /\ MaxBirths \in Nat /\ NoPid \notin Pids
  /\ Contents \subseteq [exec : BOOLEAN, write : BOOLEAN, private : BOOLEAN, anon : BOOLEAN,
                         size : Nat, head : {"data", "pe", "elf", "shellcode", "peb"}]

VARIABLES platform,
          process,       \* what runs under each pid
          managedCache,  \* _managed_pid_cache: "unknown", "managed" or "native"
          walk           \* the scan

memVars == <<platform, process, managedCache, walk>>

\* `birth` tells one process with a pid from the next; `jit` says that it has the name
\* of a known runtime, `runtime` that it has loaded one.
NoWalk == [at |-> "out", todo |-> {}, pid |-> NoPid, birth |-> 0, jit |-> FALSE,
           map |-> <<>>, i |-> 0, total |-> 0, threats |-> {}, due |-> {}]

Images == [alive : {TRUE}, jit : BOOLEAN, runtime : BOOLEAN,
           memory : [1..Regions -> Contents]]

MemInit ==
  /\ platform \in Platforms
  /\ process \in [Pids -> {[birth |-> 1, image |-> m] : m \in Images}]
  /\ managedCache = [p \in Pids |-> "unknown"]
  /\ walk = NoWalk

Image(p) == process[p].image
SameProcess == Image(walk.pid).alive /\ process[walk.pid].birth = walk.birth

\* What betrays code that was injected: a program where no file is behind the memory, and
\* on macOS, where nothing is read, such memory that can be written.
Unbacked(r) == r.exec /\ r.private /\ r.anon
Betrays(r) == Unbacked(r) /\ IF platform = "darwin" THEN r.write ELSE r.head = "pe"
Sign == IF platform = "darwin" THEN "unbacked_executable" ELSE "reflective_pe"
Injected(m) == {i \in 1..Regions : Betrays(m[i])}
DueNow == IF SameProcess THEN walk.due ELSE Injected(Image(walk.pid).memory)

-----------------------------------------------------------------------------
(* What a region gives away: _check_reflective_pe, _check_elf_in_memory,   *)
(* the shellcode patterns, and code that can be written.                   *)

WritableOnly(r) ==              \* mutant: code that cannot be written is passed over
  /\ r.exec /\ r.write
  /\ platform # "darwin" => r.private
  /\ platform # "windows" => r.anon

LookedAt(r) ==
  /\ r.exec
  /\ platform # "darwin" => r.private
  /\ platform # "windows" => r.anon

HasPe(sample) == sample = "pe" \/ (platform = "linux" /\ sample = "elf")
HasShellcode(sample, jit) == sample = "shellcode" \/ (sample = "peb" /\ ~jit)

ThreatTypes(r, sample, jit) ==
  (IF HasPe(sample) THEN {"reflective_pe"} ELSE {})
  \cup (IF HasShellcode(sample, jit) THEN {"shellcode_signature"} ELSE {})
  \cup (IF ~jit /\ r.write THEN {"unbacked_executable"} ELSE {})

\* What is read of a region taken for r, and what that says: on Windows a read that fails
\* gives nothing and the region is still judged by its protection; on Linux it is passed
\* over; on macOS nothing is read.
IsRead(r) == LookedAt(r) /\ platform # "darwin"
Samples(r, now, readable) == {"none"} \cup IF IsRead(r) /\ readable THEN {now.head} ELSE {}
Judged(r, sample) == LookedAt(r) /\ (platform # "linux" \/ sample # "none")

-----------------------------------------------------------------------------
(* scan_all_processes and scan_process.                                    *)

StartWalk ==
  /\ walk.at = "out"
  /\ walk' = [NoWalk EXCEPT !.at = "next", !.todo = {p \in Pids : Image(p).alive}]
  /\ UNCHANGED <<platform, process, managedCache>>

\* The name is read here.
NextProcess(p) ==
  /\ walk.at = "next" /\ p \in walk.todo
  /\ walk' = IF Image(p).alive
             THEN [walk EXCEPT !.at = IF platform = "windows" THEN "named" ELSE "managed",
                               !.todo = @ \ {p}, !.pid = p,
                               !.birth = process[p].birth, !.jit = Image(p).jit,
                               !.i = 0, !.total = 0,
                               !.due = Injected(Image(p).memory)]
             ELSE [walk EXCEPT !.todo = @ \ {p}]
  /\ UNCHANGED <<platform, process, managedCache>>

\* Windows: whoever has the pid by now.
OpenProcess ==
  /\ walk.at = "named" /\ Image(walk.pid).alive
  /\ walk' = [walk EXCEPT !.at = "managed", !.birth = process[walk.pid].birth, !.due = DueNow]
  /\ UNCHANGED <<platform, process, managedCache>>

\* It cannot be opened, or its maps or its memory cannot; nothing was found yet.
LeaveProcess ==
  /\ walk.at \in {"named", "open", "mem"}
  /\ walk' = [walk EXCEPT !.at = "next", !.pid = NoPid, !.due = {}]
  /\ UNCHANGED <<platform, process, managedCache>>

\* _is_managed_process: what was found for a pid is kept for good.
IsManaged ==
  /\ walk.at = "managed"
  /\ LET p == walk.pid
         seen == IF Image(p).alive /\ Image(p).runtime THEN "managed" ELSE "native"
         kept == IF managedCache[p] = "unknown" THEN seen ELSE managedCache[p]
         at == IF platform = "windows" THEN "regions" ELSE "open"
     IN  IF walk.jit
         THEN /\ walk' = [walk EXCEPT !.at = at]
              /\ UNCHANGED managedCache
         ELSE /\ walk' = [walk EXCEPT !.at = at, !.jit = (kept = "managed")]
              /\ managedCache' = [managedCache EXCEPT ![p] = kept]
  /\ UNCHANGED <<platform, process>>

\* Linux and macOS read all of the maps at once, of whoever has the pid by now.
ReadMaps ==
  /\ walk.at = "open" /\ Image(walk.pid).alive
  /\ walk' = [walk EXCEPT !.at = IF platform = "linux" THEN "mem" ELSE "regions",
                          !.birth = process[walk.pid].birth,
                          !.map = Image(walk.pid).memory, !.due = DueNow]
  /\ UNCHANGED <<platform, process, managedCache>>

\* Linux then opens the memory: by now it may be that of another process.
OpenMem ==
  /\ walk.at = "mem" /\ Image(walk.pid).alive
  /\ walk' = [walk EXCEPT !.at = "regions", !.birth = process[walk.pid].birth]
  /\ UNCHANGED <<platform, process, managedCache>>

\* Windows asks for one region after the other, of the process it has opened.
QueryRegion ==
  /\ walk.at = "regions" /\ platform = "windows" /\ SameProcess
  /\ walk' = [walk EXCEPT !.at = "read", !.map = Image(walk.pid).memory]
  /\ UNCHANGED <<platform, process, managedCache>>

Found(i, r, sample) ==
  IF Judged(r, sample)
  THEN {[pid |-> walk.pid, region |-> i, type |-> y] : y \in ThreatTypes(r, sample, walk.jit)}
  ELSE {}

Scanned(r, sample) == walk.total + IF Judged(r, sample) THEN r.size ELSE 0

\* What is due of a region is let off by a read that failed, and of all that come after
\* it when the scan has had its fill.
Judge(i, r, sample) ==
  LET full == Scanned(r, sample) >= MaxScanBytes
      failed == IsRead(r) /\ sample = "none"
  IN  walk' = [walk EXCEPT !.i = i, !.total = Scanned(r, sample),
                           !.threats = @ \cup Found(i, r, sample),
                           !.due = (IF full THEN @ \cap 1..i ELSE @)
                                   \ (IF failed THEN {i} ELSE {}),
                           !.at = IF full \/ i = Regions THEN "next" ELSE "regions"]

\* What a region was taken for is judged with what is in it by now.
ScanRegion ==
  /\ walk.at = IF platform = "windows" THEN "read" ELSE "regions"
  /\ LET i == walk.i + 1
         r == walk.map[i]
         now == Image(walk.pid).memory[i]
     IN  \E sample \in Samples(r, now, SameProcess) : Judge(i, r, sample)
  /\ UNCHANGED <<platform, process, managedCache>>

\* VirtualQueryEx fails: what was found so far is kept.
ProcessGone ==
  /\ walk.at = "regions" /\ platform = "windows" /\ ~SameProcess
  /\ walk' = [walk EXCEPT !.at = "next", !.due = {}]
  /\ UNCHANGED <<platform, process, managedCache>>

EndWalk ==
  /\ walk.at = "next" /\ walk.todo = {}
  /\ walk' = NoWalk
  /\ UNCHANGED <<platform, process, managedCache>>

-----------------------------------------------------------------------------
(* The processes.                                                          *)

Forgive(p, i) == walk' = [walk EXCEPT !.due = IF walk.pid = p THEN @ \ {i} ELSE @]

Change(p, i, r) ==
  /\ Image(p).alive
  /\ process' = [process EXCEPT ![p].image.memory[i] = r]
  /\ Forgive(p, i)
  /\ UNCHANGED <<platform, managedCache>>

LoadRuntime(p) ==
  /\ Image(p).alive /\ ~Image(p).runtime
  /\ process' = [process EXCEPT ![p].image.runtime = TRUE]
  /\ UNCHANGED <<platform, managedCache, walk>>

Exit(p) ==
  /\ Image(p).alive
  /\ process' = [process EXCEPT ![p].image.alive = FALSE]
  /\ walk' = [walk EXCEPT !.due = IF walk.pid = p THEN {} ELSE @]
  /\ UNCHANGED <<platform, managedCache>>

Spawn(p, image) ==
  /\ ~Image(p).alive /\ process[p].birth < MaxBirths
  /\ process' = [process EXCEPT ![p] = [birth |-> process[p].birth + 1, image |-> image]]
  /\ UNCHANGED <<platform, managedCache, walk>>

MemNext ==
  \/ StartWalk \/ \E p \in Pids : NextProcess(p)
  \/ OpenProcess \/ LeaveProcess \/ IsManaged \/ ReadMaps \/ OpenMem
  \/ QueryRegion \/ ScanRegion \/ ProcessGone \/ EndWalk
  \/ \E p \in Pids : LoadRuntime(p) \/ Exit(p)
  \/ \E p \in Pids, i \in 1..Regions, r \in Contents : Change(p, i, r)
  \/ \E p \in Pids, image \in Images : Spawn(p, image)

MemSpec == MemInit /\ [][MemNext]_memVars

-----------------------------------------------------------------------------
(* Properties.                                                             *)

MemOK ==
  /\ managedCache \in [Pids -> {"unknown", "managed", "native"}]
  /\ walk.at \in {"out", "next", "named", "managed", "open", "mem", "regions", "read"}
  /\ walk.i \in 0..Regions /\ walk.due \subseteq 1..Regions

\* Code that was injected into a process before the scan came to it is reported when the
\* process is done, if it stays as it is and its memory can be read, unless the scan had
\* its fill before it: whatever the pid's cache says, whoever had the pid before, and
\* whatever changes elsewhere between the question and the read.  Injected is what
\* Betrays says, which asks nothing of the scan.  On macOS that is memory that can be
\* executed and written, and nothing is promised of what is taken for a runtime.
InjectedFound ==
  walk.at = "next" /\ walk.pid # NoPid /\ (platform = "darwin" => ~walk.jit) =>
    \A i \in walk.due : [pid |-> walk.pid, region |-> i, type |-> Sign] \in walk.threats
=============================================================================
